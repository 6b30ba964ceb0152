----------------------------- MODULE EVMTick_proofs -----------------------------
(***************************************************************************)
(* What holds of a context for every program, calldata and answer, and for *)
(* words, ints and memories of any size the assumptions allow: bytecode is *)
(* executed in step with its listing, its state stays typed, and the word, *)
(* copy, call and precompile instructions do what they are specified to.   *)
(***************************************************************************)
EXTENDS EVMTick, DataLemmas, SequenceTheorems

-----------------------------------------------------------------------------
(* In step with the listing *)

\* The fetch of instructions, and what jumps and PUSH keep.
InStep ==
  /\ code \in Programs
  /\ pc \in Nat
  /\ JumpsStayAligned

LEMMA WordBytesType == WordBytes \in 1 .. 32
  BY WordAssumption, TickAssumption DEF TickAssumption

\* A listing holds an instruction's successor.
LEMMA ListingFollows ==
  ASSUME NEW program \in Programs, NEW i \in Listing[program], i \in Nat, i < Len(program)
  PROVE  After(program, i) \in Listing[program]
  BY TickAssumption DEF TickAssumption

LEMMA StartsListed == ASSUME NEW program \in Programs PROVE 0 \in Listing[program]
  BY TickAssumption DEF TickAssumption

\* Instructions other than PUSH leave pc at the next byte.
LEMMA ProceedInStep ==
  ASSUME InStep, Running, Proceed, Opcode \notin PushOps
  PROVE  InStep'
<1> DEFINE next == pc + 1
<1>1. code' = code /\ outcome' = outcome /\ pc' = next
  BY DEF Proceed
<1>2. After(code, pc) = next
  BY DEF After, Opcode, InStep
<1>3. ASSUME outcome = "running", NoHiddenDestination PROVE next \in Listing[code]
  <2>1. pc \in Listing[code] /\ pc \in Nat /\ pc < Len(code)
    BY <1>3 DEF InStep, JumpsStayAligned, Running
  <2> QED BY <2>1, <1>2, ListingFollows DEF InStep
<1>4. NoHiddenDestination' = NoHiddenDestination
  BY <1>1 DEF NoHiddenDestination
<1> QED BY <1>1, <1>3, <1>4 DEF InStep, JumpsStayAligned, Running

\* An instruction that ends the frame leaves nothing to be in step.
LEMMA EndInStep ==
  ASSUME InStep, NEW how, NEW data, how # "running", End(how, data)
  PROVE  InStep'
  BY DEF InStep, End, JumpsStayAligned

LEMMA OthersAreNoPush ==
  ASSUME NEW op \in WordOps \cup SourceOps \cup QueryOps \cup CopyOps \cup CallOps
                 \cup LogOps \cup DupOps \cup SwapOps
                 \cup {53, 54, 56, 61, 80, 81, 82, 83, 85, 88, 89, 91, 93, 243}
  PROVE  op \notin PushOps
  BY WordBytesType
     DEF WordOps, ArithmeticOps, LogicOps, SourceOps, QueryOps, CopyOps, CallOps, LogOps,
         DupOps, SwapOps, PushOps

LEMMA PushInStep == ASSUME InStep, PushData PROVE InStep'
<1> DEFINE n == Opcode - 95
<1>1. /\ Running /\ Opcode \in PushOps /\ pc' = pc + 1 + n
      /\ code' = code /\ outcome' = outcome
  BY DEF PushData, Fetched
<1>2. After(code, pc) = pc + 1 + n /\ n \in Nat
  BY <1>1, WordBytesType DEF After, Opcode, PushOps, InStep
<1>3. ASSUME NoHiddenDestination PROVE After(code, pc) \in Listing[code]
  <2>1. pc \in Listing[code] /\ pc \in Nat /\ pc < Len(code)
    BY <1>1, <1>3 DEF InStep, JumpsStayAligned, Running
  <2> QED BY <2>1, ListingFollows DEF InStep
<1>4. NoHiddenDestination' = NoHiddenDestination
  BY <1>1 DEF NoHiddenDestination
<1> QED BY <1>1, <1>2, <1>3, <1>4 DEF InStep, JumpsStayAligned

\* A jump is taken to a JUMPDEST only, which the listing has unless it is hidden.
LEMMA JumpInStep == ASSUME InStep, Jump PROVE InStep'
<1>1. Running /\ Opcode \in {86, 87} /\ code' = code /\ outcome' = outcome
  BY DEF Jump, Fetched
<1>2. Opcode \notin PushOps
  BY <1>1, WordBytesType DEF PushOps
<1>3. CASE Opcode = 87 /\ Arg(1) = 0
  <2>1. Proceed
    BY <1>3 DEF Jump, Proceed
  <2> QED BY <2>1, <1>1, <1>2, ProceedInStep
<1>4. CASE ~(Opcode = 87 /\ Arg(1) = 0)
  <2>1. Destination(Arg(0)) /\ pc' = Arg(0)
    BY <1>4 DEF Jump
  <2>2. pc' \in 0 .. (Len(code) - 1) /\ code[pc' + 1] = 91
    <3>1. Len(code) \in Nat
      BY TickAssumption DEF InStep, TickAssumption, Sizeable
    <3> QED BY <2>1, <3>1 DEF Destination
  <2>3. NoHiddenDestination' = NoHiddenDestination
    BY <1>1 DEF NoHiddenDestination
  <2>4. NoHiddenDestination => pc' \in Listing[code]
    BY <2>2 DEF NoHiddenDestination
  <2> QED BY <1>1, <2>2, <2>3, <2>4 DEF InStep, JumpsStayAligned
<1> QED BY <1>3, <1>4

\* What precompiles write ends the frame or goes on to the next instruction.
LEMMA AnswerInStep ==
  ASSUME InStep, Running, Opcode \in CallOps, NEW what, Answered(what) PROVE InStep'
<1>1. Opcode \notin PushOps
  BY OthersAreNoPush
<1>2. Undefined \/ Proceed
  BY DEF Answered
<1> QED BY <1>1, <1>2, ProceedInStep, EndInStep DEF Undefined

\* Every instruction of tickEVMRaw keeps pc in step.
LEMMA NextInStep == ASSUME InStep, TickNext PROVE InStep'
<1>1. CASE Stop
  BY <1>1, EndInStep DEF Stop
<1>2. CASE WordInstruction \/ Source \/ Query \/ Measure \/ CalldataLoad \/ Discard
  <2>1. Running /\ Proceed
    BY <1>2 DEF WordInstruction, Source, Query, Measure, CalldataLoad, Discard, Fetched
  <2>2. Opcode \in WordOps \cup SourceOps \cup QueryOps
          \cup {53, 54, 56, 61, 80, 85, 88, 89, 91, 93}
    BY <1>2 DEF WordInstruction, Source, Query, Measure, CalldataLoad, Discard, Fetched
  <2> QED BY <2>1, <2>2, OthersAreNoPush, ProceedInStep
<1>3. CASE PushData
  BY <1>3, PushInStep
<1>4. CASE Jump
  BY <1>4, JumpInStep
<1>5. CASE Duplicate \/ Swap \/ MemoryAccess \/ LogEvent \/ CallContract \/ ReturnRefused
  <2>1. Running /\ Proceed
    BY <1>5 DEF Duplicate, Swap, MemoryAccess, LogEvent, CallContract, ReturnRefused, Fetched
  <2>2. Opcode \in DupOps \cup SwapOps \cup LogOps \cup CallOps \cup {81, 82, 83, 243}
    BY <1>5 DEF Duplicate, Swap, MemoryAccess, LogEvent, CallContract, ReturnRefused, Fetched
  <2> QED BY <2>1, <2>2, OthersAreNoPush, ProceedInStep
<1>6. CASE Copy
  <2>1. Running /\ Opcode \in CopyOps
    BY <1>6 DEF Copy, Fetched
  <2>2. Undefined \/ Proceed
    BY <1>6 DEF Copy
  <2> QED BY <2>1, <2>2, OthersAreNoPush, ProceedInStep, EndInStep DEF Undefined
<1>7. CASE EcRecover
  <2>1. Running /\ Opcode \in CallOps
    BY <1>7 DEF EcRecover, CallsPrecompile, Fetched
  <2>2. Undefined \/ \E what : Answered(what)
    BY <1>7 DEF EcRecover
  <2> QED BY <2>1, <2>2, AnswerInStep, EndInStep DEF Undefined
<1>8. CASE Sha256 \/ Identity
  <2>1. Running /\ Opcode \in CallOps
    BY <1>8 DEF Sha256, Identity, CallsPrecompile, Fetched
  <2>2. \E what : Answered(what)
    BY <1>8 DEF Sha256, Identity
  <2> QED BY <2>1, <2>2, AnswerInStep
<1>9. CASE PrecompileFails \/ Return \/ Invalid \/ Abort \/ OutOfGas
  BY <1>9, EndInStep DEF PrecompileFails, Return, Invalid, Abort, OutOfGas
<1>10. CASE Revert
  BY <1>10, EndInStep DEF Revert, Undefined
<1>11. CASE Underflow
  BY <1>11, EndInStep DEF Underflow, Undefined
<1> QED
  BY <1>1, <1>2, <1>3, <1>4, <1>5, <1>6, <1>7, <1>8, <1>9, <1>10, <1>11 DEF TickNext

\* Code whose PUSH data hide no destination runs in step with its listing,
\* whatever the code, its calldata and what calls, gas and accounts answer.
THEOREM JumpsAlwaysStayAligned == TickSpec => []JumpsStayAligned
<1>1. TickInit => InStep
  BY StartsListed DEF TickInit, InStep, JumpsStayAligned
<1>2. InStep /\ [TickNext]_tickVars => InStep'
  <2>1. ASSUME InStep, UNCHANGED tickVars PROVE InStep'
    BY <2>1 DEF tickVars, InStep, JumpsStayAligned, NoHiddenDestination
  <2> QED BY <2>1, NextInStep
<1>3. InStep => JumpsStayAligned
  BY DEF InStep
<1> QED BY <1>1, <1>2, <1>3, PTL DEF TickSpec

-----------------------------------------------------------------------------
(* Words *)

LEMMA WordBitsType == WordBits \in Nat /\ WordBits >= 8
  BY WordAssumption DEF WordBits

LEMMA WordModType == WordMod \in Nat /\ WordMod >= 256
<1>1. 2 ^ 8 <= 2 ^ WordBits /\ 2 ^ WordBits \in Nat
  BY WordBitsType, PowerMonotone, PowerType
<1>2. QED
  BY <1>1, PowerEight DEF WordMod

LEMMA WordsReduce == ASSUME NEW x \in Int PROVE x % WordMod \in Word
  BY WordModType, DivMod DEF Word

LEMMA FlagsAreWords == ASSUME NEW b PROVE Flag(b) \in Word
  BY WordModType DEF Flag, Word

LEMMA BytesAreWords == Byte \subseteq Word
  BY WordModType DEF Byte, Word

LEMMA WordsAreInts == Word \subseteq Nat
  BY WordModType DEF Word

LEMMA SignedType ==
  ASSUME NEW a \in Word
  PROVE  Signed(a) \in Int /\ Magnitude(a) \in Nat
<1>1. WordMod \div 2 \in Int /\ a \in Int /\ WordMod \in Int
  BY WordModType, WordsAreInts
<1>2. Signed(a) \in Int
  BY <1>1 DEF Signed
<1>3. QED
  BY <1>2 DEF Magnitude

LEMMA DivType == ASSUME NEW a \in Nat, NEW b \in Nat PROVE Div(a, b) \in 0 .. a
  BY DivSmall DEF Div

LEMMA ModType == ASSUME NEW a \in Nat, NEW b \in Nat PROVE Mod(a, b) \in Nat /\ (Mod(a, b) < b \/ Mod(a, b) = 0)
  BY DivMod DEF Mod

LEMMA ModIsWord == ASSUME NEW a \in Nat, NEW b \in Word PROVE Mod(a, b) \in Word
<1>1. b \in Nat /\ b < WordMod
  BY WordModType DEF Word
<1>2. Mod(a, b) \in Nat /\ (Mod(a, b) < b \/ Mod(a, b) = 0)
  BY <1>1, ModType
<1>3. QED
  BY <1>1, <1>2, WordModType DEF Word

LEMMA TimesType == ASSUME NEW x \in Int, NEW y \in Int PROVE Times(x, y) \in Word
<1>1. y \div 256 \in Int /\ y % 256 \in Int
  OBVIOUS
<1>2. (x * (y \div 256)) % WordMod \in Int
  <2>1. x * (y \div 256) \in Int
    BY <1>1
  <2>2. \A w \in Word : w \in Int
    BY WordsAreInts
  <2>3. QED
    BY <2>1, <2>2, WordsReduce
<1> DEFINE h == (x * (y \div 256)) % WordMod
<1>3. x * (y % 256) \in Int
  BY <1>1
<1> HIDE DEF h
<1>4. h * 256 + x * (y % 256) \in Int
  BY <1>2, <1>3 DEF h
<1>5. QED
  BY <1>4, WordsReduce DEF Times, h

LEMMA BitType ==
  ASSUME NEW a \in Int, NEW i \in Nat
  PROVE  Bit(a, i) \in {0, 1}
<1>1. a \div 2 ^ i \in Int
  BY PowerType, DivMod
<1>2. QED
  BY <1>1 DEF Bit

\* Bit i is what the remainder modulo 2^(i + 1) has over that modulo 2^i.
LEMMA BitAdds ==
  ASSUME NEW a \in Int, NEW i \in Nat
  PROVE  a % 2 ^ (i + 1) = 2 ^ i * Bit(a, i) + (a % 2 ^ i)
<1>1. 2 ^ (i + 1) = 2 ^ i * 2
  BY PowerType, PowerNext
<1>2. a % (2 ^ i * 2) = 2 ^ i * ((a \div 2 ^ i) % 2) + (a % 2 ^ i)
  <2> DEFINE m == 2 ^ i
  <2>1. m \in Nat \ {0}
    BY PowerType
  <2> HIDE DEF m
  <2>2. 2 \in Nat \ {0}
    OBVIOUS
  <2>3. a % (m * 2) = m * ((a \div m) % 2) + (a % m)
    BY <2>1, <2>2, DivModProduct
  <2>4. QED
    BY <2>3 DEF m
<1>3. QED
  BY <1>1, <1>2 DEF Bit

\* The bits that two numbers share, up to bit n.
Shared(a, b, n) ==
  SumFunctionOnSet([i \in 0 .. (n - 1) |-> 2 ^ i * Bit(a, i) * Bit(b, i)], 0 .. (n - 1))

LEMMA SharedBounds ==
  ASSUME NEW a \in Int, NEW b \in Int, NEW n \in Nat
  PROVE  LET s == Shared(a, b, n)
             x == a % 2 ^ n
             y == b % 2 ^ n
         IN  s \in Nat /\ s <= x /\ s <= y /\ x + y - s < 2 ^ n
<1> DEFINE Bound(k) == LET s == Shared(a, b, k)
                           x == a % 2 ^ k
                           y == b % 2 ^ k
                       IN  s \in Nat /\ s <= x /\ s <= y /\ x + y - s < 2 ^ k
           Good == {k \in Nat : Bound(k)}
<1>1. 0 \in Good
  <2>1. 0 .. (0 - 1) = {}
    OBVIOUS
  <2>2. Shared(a, b, 0) = 0
    BY <2>1, SumEmpty DEF Shared
  <2>3. a % 2 ^ 0 = 0 /\ b % 2 ^ 0 = 0
    BY PowerZero
  <2>4. QED
    BY <2>2, <2>3, PowerZero
<1>2. \A k \in Nat : k \in Good => k + 1 \in Good
  <2> SUFFICES ASSUME NEW k \in Nat, Bound(k) PROVE Bound(k + 1)
    OBVIOUS
  <2> DEFINE T(i) == 2 ^ i * Bit(a, i) * Bit(b, i)
             f == [i \in 0 .. k |-> T(i)]
             g == [i \in 0 .. (k - 1) |-> T(i)]
  <2>1. \A i \in Nat : T(i) \in Int
    BY PowerType, BitType
  <2>2. SumFunctionOnSet(f, 0 .. k) = f[k] + SumFunctionOnSet(f, (0 .. k) \ {k})
    <3>1. IsFiniteSet(0 .. k) /\ k \in 0 .. k
      BY FS_Interval
    <3>2. \A i \in 0 .. k : f[i] \in Int
      BY <2>1
    <3> HIDE DEF f
    <3>3. QED
      BY <3>1, <3>2, SumRemoves
  <2>3. SumFunctionOnSet(f, 0 .. (k - 1)) = SumFunctionOnSet(g, 0 .. (k - 1))
    <3>1. IsFiniteSet(0 .. (k - 1))
      BY FS_Interval
    <3>2. \A i \in 0 .. (k - 1) : f[i] \in Int /\ g[i] = f[i]
      BY <2>1
    <3> HIDE DEF f, g
    <3>3. QED
      BY <3>1, <3>2, SumEqual
  <2>4. (0 .. k) \ {k} = 0 .. (k - 1) /\ f[k] = T(k) /\ (k + 1) - 1 = k
    OBVIOUS
  <2>5. Shared(a, b, k + 1) = T(k) + Shared(a, b, k)
    BY <2>2, <2>3, <2>4 DEF Shared
  <2> DEFINE m == 2 ^ k
             p == Bit(a, k)
             q == Bit(b, k)
             x == a % 2 ^ k
             y == b % 2 ^ k
             s == Shared(a, b, k)
             n1 == 2 ^ (k + 1)
  <2>6. /\ m \in Nat \ {0} /\ n1 = 2 * m /\ p \in {0, 1} /\ q \in {0, 1}
        /\ a % n1 = m * p + x /\ b % n1 = m * q + y
        /\ Shared(a, b, k + 1) = m * p * q + s
    BY <2>5, PowerType, PowerNext, BitType, BitAdds
  <2>7. x \in 0 .. (m - 1) /\ y \in 0 .. (m - 1)
    BY PowerType, DivMod
  <2>8. s \in Nat /\ s <= x /\ s <= y /\ x + y - s < m
    OBVIOUS
  <2> HIDE DEF m, p, q, x, y, s, n1, T
  <2>9. /\ m * p * q + s \in Nat /\ m * p * q + s <= m * p + x /\ m * p * q + s <= m * q + y
        /\ (m * p + x) + (m * q + y) - (m * p * q + s) < n1
    <3>1. CASE p = 0 /\ q = 0
      BY <2>6, <2>7, <2>8, <3>1
    <3>2. CASE p = 0 /\ q = 1
      BY <2>6, <2>7, <2>8, <3>2
    <3>3. CASE p = 1 /\ q = 0
      BY <2>6, <2>7, <2>8, <3>3
    <3>4. CASE p = 1 /\ q = 1
      BY <2>6, <2>7, <2>8, <3>4
    <3>5. QED
      BY <2>6, <3>1, <3>2, <3>3, <3>4
  <2>10. QED
    BY <2>6, <2>9 DEF n1
<1>3. Nat \subseteq Good
  <2> HIDE DEF Good
  <2>1. QED
    BY <1>1, <1>2, NatSetInduction
<1>4. QED
  BY <1>3

LEMMA WordIsItsRemainder == ASSUME NEW a \in Word PROVE a % WordMod = a
<1>1. a \in 0 .. (WordMod - 1) /\ WordMod \in Nat \ {0}
  BY WordModType DEF Word
<1>2. (WordMod * 0 + a) % WordMod = a
  BY <1>1, DivModUnique
<1>3. WordMod * 0 + a = a
  BY <1>1
<1>4. QED
  BY <1>2, <1>3

LEMMA BitwiseTyped ==
  ASSUME NEW a \in Word, NEW b \in Word
  PROVE  And(a, b) \in Word /\ Or(a, b) \in Word /\ Xor(a, b) \in Word
<1> DEFINE s == Shared(a, b, WordBits)
<1>1. And(a, b) = s
  BY DEF And, Shared
<1>2. a \in Int /\ b \in Int
  BY WordsAreInts
<1>3. /\ s \in Nat /\ s <= a % 2 ^ WordBits /\ s <= b % 2 ^ WordBits
      /\ (a % 2 ^ WordBits) + (b % 2 ^ WordBits) - s < 2 ^ WordBits
  BY <1>2, SharedBounds, WordBitsType
<1>4. a % 2 ^ WordBits = a /\ b % 2 ^ WordBits = b
  BY WordIsItsRemainder DEF WordMod
<1> HIDE DEF s
<1>5. s \in Nat /\ s <= a /\ s <= b /\ a + b - s < WordMod
  BY <1>3, <1>4 DEF WordMod
<1>6. QED
  BY <1>1, <1>2, <1>5, WordModType DEF Or, Xor, Word

-----------------------------------------------------------------------------
(* Products modulo 2^WordBits, and powers *)

LEMMA WordInts == \A x \in Word : x \in Int /\ x \in Nat
  BY WordsAreInts

LEMMA TimesTyped == \A x, y \in Int : Times(x, y) \in Word /\ Times(x, y) \in Int
  BY TimesType, WordInts

LEMMA TimesIsProduct ==
  ASSUME NEW x \in Int, NEW y \in Int
  PROVE  Times(x, y) = (x * y) % WordMod
<1> DEFINE h == y \div 256
           l == y % 256
<1>1. y = 256 * h + l /\ h \in Int /\ l \in Int
  OBVIOUS
<1>2. x * h \in Int /\ x * l \in Int
  BY <1>1
<1>3. (((x * h) % WordMod) * 256 + x * l) % WordMod = ((x * h) * 256 + x * l) % WordMod
  <2>1. WordMod \in Nat \ {0}
    BY WordModType
  <2> HIDE DEF h, l
  <2>2. QED
    BY <1>2, <2>1, ModFactor
<1>4. (x * h) * 256 + x * l = x * y
  <2> HIDE DEF h, l
  <2>1. x * y = x * (256 * h) + x * l
    BY <1>1
  <2>2. x * (256 * h) = (x * h) * 256
    BY <1>1
  <2>3. QED
    BY <2>1, <2>2
<1>5. QED
  BY <1>3, <1>4 DEF Times

LEMMA TimesAssociates ==
  ASSUME NEW x \in Int, NEW y \in Int, NEW z \in Int
  PROVE  Times(x, Times(y, z)) = Times(Times(x, y), z)
<1> DEFINE W == WordMod
<1>1. W \in Nat \ {0}
  BY WordModType
<1>2. Times(x, Times(y, z)) = (x * ((y * z) % W)) % W
  <2>1. Times(y, z) \in Int
    BY TimesTyped, WordInts
  <2>2. QED
    BY <2>1, TimesIsProduct
<1>3. Times(Times(x, y), z) = (((x * y) % W) * z) % W
  <2>1. Times(x, y) \in Int
    BY TimesTyped, WordInts
  <2>2. QED
    BY <2>1, TimesIsProduct
<1> HIDE DEF W
<1>4. \A a, b \in Int : ((a % W) * b) % W = (a * b) % W
  <2> SUFFICES ASSUME NEW a \in Int, NEW b \in Int
               PROVE  ((a % W) * b) % W = (a * b) % W
    OBVIOUS
  <2>1. ((a % W) * b + 0) % W = (a * b + 0) % W
    <3>1. \A c \in Int : ((a % W) * b + c) % W = (a * b + c) % W
      BY <1>1, ModFactor
    <3>2. QED
      BY <3>1
  <2>2. a * b \in Int /\ a % W \in Int
    BY <1>1, DivMod
  <2>3. (a % W) * b \in Int
    BY <2>2
  <2>4. QED
    BY <2>1, <2>2, <2>3
<1>5. y * z \in Int /\ x * y \in Int /\ (y * z) % W \in Int
  BY <1>1, DivMod
<1>6. x * ((y * z) % W) = ((y * z) % W) * x
  BY <1>5
<1>7. (y * z) * x = (x * y) * z
  OBVIOUS
<1>8. QED
  BY <1>2, <1>3, <1>4, <1>5, <1>6, <1>7

LEMMA TimesCommutes == ASSUME NEW x \in Int, NEW y \in Int PROVE Times(x, y) = Times(y, x)
<1>1. x * y = y * x
  OBVIOUS
<1>2. QED
  BY <1>1, TimesIsProduct

\* Repeated products are functions of the number of factors.
Powers(p, b)    == p = [k \in Nat |-> IF k = 0 THEN 1 ELSE Times(b, p[k - 1])]

LEMMA PowersExist ==
  ASSUME NEW b \in Word
  PROVE  \E p \in [Nat -> Word] : Powers(p, b)
<1> DEFINE G == [q \in Nat \X Word |-> Times(b, q[2])]
<1>1. G \in [Nat \X Word -> Word]
  BY TimesTyped, WordInts
<1>2. 1 \in Word
  BY WordModType DEF Word
<1>3. PICK p \in [Nat -> Word] : Iterates(p, 1, G)
  <2> HIDE DEF G
  <2>1. QED
    BY <1>1, <1>2, IterationExists
<1>4. \A k \in Nat : k # 0 => G[<<k, p[k - 1]>>] = Times(b, p[k - 1])
  OBVIOUS
<1>5. p = [k \in Nat |-> IF k = 0 THEN 1 ELSE G[<<k, p[k - 1]>>]]
  BY <1>3 DEF Iterates
<1>6. Powers(p, b)
  <2> HIDE DEF G
  <2>1. QED
    BY <1>4, <1>5 DEF Powers
<1>7. QED
  BY <1>6

LEMMA PowerSteps ==
  ASSUME NEW b \in Word
  PROVE  /\ Power(b, 0) = 1
         /\ \A n \in Nat : Power(b, n) \in Word /\ Power(b, n + 1) = Times(b, Power(b, n))
<1> DEFINE p == CHOOSE p : Powers(p, b)
<1>1. Powers(p, b)
  BY PowersExist
<1>2. \A n : Power(b, n) = p[n]
  BY DEF Power, Powers
<1> HIDE DEF p
<1>3. /\ p[0] = 1
      /\ \A n \in Nat : p[n + 1] = Times(b, p[n])
  <2>1. \A n \in Nat : n + 1 # 0 /\ (n + 1) - 1 = n
    OBVIOUS
  <2>2. QED
    BY <1>1, <2>1 DEF Powers
<1>4. \A n \in Nat : p[n] \in Word
  <2> DEFINE Good == {n \in Nat : p[n] \in Word}
  <2>1. 0 \in Good
    BY <1>3, WordModType DEF Word
  <2>2. \A n \in Nat : n \in Good => n + 1 \in Good
    <3> SUFFICES ASSUME NEW n \in Nat, p[n] \in Word PROVE p[n + 1] \in Word
      OBVIOUS
    <3>1. b \in Int /\ p[n] \in Int
      BY WordInts
    <3>2. QED
      BY <1>3, <3>1, TimesTyped
  <2>3. Nat \subseteq Good
    <3> HIDE DEF Good
    <3>1. QED
      BY <2>1, <2>2, NatSetInduction
  <2>4. QED
    BY <2>3
<1>5. QED
  BY <1>2, <1>3, <1>4

\* An even power is a power of the square.
LEMMA PowerOfSquare ==
  ASSUME NEW b \in Word, NEW n \in Nat
  PROVE  Power(Times(b, b), n) = Power(b, 2 * n)
<1> DEFINE c == Times(b, b)
           Good == {k \in Nat : Power(c, k) = Power(b, 2 * k)}
<1>1. c \in Word /\ b \in Int
  BY TimesTyped, WordInts
<1> HIDE DEF c
<1>2. 0 \in Good
  BY <1>1, PowerSteps
<1>3. \A k \in Nat : k \in Good => k + 1 \in Good
  <2> SUFFICES ASSUME NEW k \in Nat, Power(c, k) = Power(b, 2 * k)
               PROVE  Power(c, k + 1) = Power(b, 2 * (k + 1))
    OBVIOUS
  <2>1. 2 * k \in Nat /\ 2 * k + 1 \in Nat /\ (2 * k + 1) + 1 = 2 * (k + 1)
    OBVIOUS
  <2>2. Power(b, 2 * (k + 1)) = Times(b, Times(b, Power(b, 2 * k)))
    BY <2>1, PowerSteps
  <2>3. Power(b, 2 * k) \in Int
    BY <2>1, PowerSteps, WordInts
  <2>4. Times(b, Times(b, Power(b, 2 * k))) = Times(c, Power(b, 2 * k))
    BY <1>1, <2>3, TimesAssociates DEF c
  <2>5. Power(c, k + 1) = Times(c, Power(c, k))
    BY <1>1, PowerSteps
  <2>6. QED
    BY <2>2, <2>4, <2>5
<1>4. Nat \subseteq Good
  <2> HIDE DEF Good
  <2>1. QED
    BY <1>2, <1>3, NatSetInduction
<1>5. QED
  BY <1>4 DEF c

LEMMA HalvedKeepsPower ==
  ASSUME NEW p \in Nat \X Word
  PROVE  Halved(p) \in Nat \X Word /\ Power(Halved(p)[2], Halved(p)[1]) = Power(p[2], p[1])
<1>1. CASE p[1] = 0 \/ p[1] % 2 = 1
  BY <1>1 DEF Halved
<1>2. CASE ~(p[1] = 0 \/ p[1] % 2 = 1)
  <2> DEFINE n == p[1] \div 2
  <2>1. p[1] \in Nat /\ p[2] \in Word /\ p[1] = 2 * n /\ n \in Nat
    BY <1>2
  <2>2. Halved(p) = <<n, Times(p[2], p[2])>>
    BY <1>2 DEF Halved
  <2>3. Times(p[2], p[2]) \in Word
    BY <2>1, TimesTyped, WordInts
  <2> HIDE DEF n
  <2>4. QED
    BY <2>1, <2>2, <2>3, PowerOfSquare
<1>3. QED
  BY <1>1, <1>2

LEMMA SquaredOutKeepsPower ==
  ASSUME NEW e \in Word, NEW b \in Word
  PROVE  LET p == SquaredOut(e, b)
         IN  p \in Nat \X Word /\ Power(p[2], p[1]) = Power(b, e)
<1> DEFINE V == Nat \X Word
           Body(f) == [k \in Nat |-> IF k = 0 THEN <<e, b>> ELSE Halved(f[k - 1])]
           after == CHOOSE f : f = Body(f)
           G == [q \in Nat \X V |-> Halved(q[2])]
<1>1. <<e, b>> \in V
  BY WordInts
<1>2. G \in [Nat \X V -> V]
  <2>1. \A q \in Nat \X V : Halved(q[2]) \in V
    <3> SUFFICES ASSUME NEW q \in Nat \X V PROVE Halved(q[2]) \in V
      OBVIOUS
    <3>1. q[2] \in V
      OBVIOUS
    <3> HIDE DEF V
    <3>2. QED
      BY <3>1, HalvedKeepsPower DEF V
  <2> HIDE DEF V
  <2>2. QED
    BY <2>1
<1>3. PICK f \in [Nat -> V] : Iterates(f, <<e, b>>, G)
  <2> HIDE DEF V, G
  <2>1. QED
    BY <1>1, <1>2, IterationExists
<1> HIDE DEF V
<1>4. \A k \in Nat : k # 0 => G[<<k, f[k - 1]>>] = Halved(f[k - 1])
  OBVIOUS
<1>5. f = Body(f)
  <2> HIDE DEF G
  <2>1. QED
    BY <1>3, <1>4 DEF Iterates
<1>6. after = Body(after)
  <2> HIDE DEF Body
  <2>1. QED
    BY <1>5
<1> HIDE DEF after
<1>7. after[0] = <<e, b>> /\ \A k \in Nat : after[k + 1] = Halved(after[k])
  <2>1. \A k \in Nat : k + 1 # 0 /\ (k + 1) - 1 = k
    OBVIOUS
  <2>2. QED
    BY <1>6, <2>1
<1> DEFINE Good == {k \in Nat : after[k] \in V /\ Power(after[k][2], after[k][1]) = Power(b, e)}
<1>8. 0 \in Good
  BY <1>1, <1>7
<1>9. \A k \in Nat : k \in Good => k + 1 \in Good
  <2>1. \A p \in V : Halved(p) \in V /\ Power(Halved(p)[2], Halved(p)[1]) = Power(p[2], p[1])
    BY HalvedKeepsPower DEF V
  <2>2. QED
    BY <1>7, <2>1
<1>10. Nat \subseteq Good
  <2> HIDE DEF Good
  <2>1. QED
    BY <1>8, <1>9, NatSetInduction
<1>11. SquaredOut(e, b) = after[WordBits]
  BY DEF SquaredOut, after
<1>12. QED
  BY <1>10, <1>11, WordBitsType DEF V

\* EXP by squaring is the power.
LEMMA ExpIsPower ==
  ASSUME NEW b \in Word, NEW e \in Word
  PROVE  Exp(b, e) = Power(b, e)
<1> DEFINE left == SquaredOut(e, b)
           c == left[2]
           n == left[1]
           Body(f) == [k \in Nat |-> IF k = 0 THEN 1 ELSE Times(f[k - 1], c)]
           product == CHOOSE f : f = Body(f)
<1>1. n \in Nat /\ c \in Word /\ Power(c, n) = Power(b, e)
  BY SquaredOutKeepsPower
<1>2. Exp(b, e) = product[n]
  BY DEF Exp
<1> HIDE DEF left, c, n
<1>3. PICK p \in [Nat -> Word] : Powers(p, c)
  BY <1>1, PowersExist
<1>4. p = Body(p)
  <2>1. \A k \in Nat : k # 0 => Times(c, p[k - 1]) = Times(p[k - 1], c)
    <3> SUFFICES ASSUME NEW k \in Nat, k # 0 PROVE Times(c, p[k - 1]) = Times(p[k - 1], c)
      OBVIOUS
    <3>1. k - 1 \in Nat
      OBVIOUS
    <3>2. p[k - 1] \in Int /\ c \in Int
      BY <1>1, <3>1, WordInts
    <3>3. QED
      BY <3>2, TimesCommutes
  <2>2. QED
    BY <1>3, <2>1 DEF Powers
<1>5. product = Body(product)
  <2> HIDE DEF Body
  <2>1. QED
    BY <1>4
<1> HIDE DEF product
<1>6. product[0] = 1 /\ \A k \in Nat : product[k + 1] = Times(product[k], c)
  <2>1. \A k \in Nat : k + 1 # 0 /\ (k + 1) - 1 = k
    OBVIOUS
  <2>2. QED
    BY <1>5, <2>1
<1> DEFINE Good == {k \in Nat : product[k] = Power(c, k)}
<1>7. 0 \in Good
  BY <1>1, <1>6, PowerSteps
<1>8. \A k \in Nat : k \in Good => k + 1 \in Good
  <2> SUFFICES ASSUME NEW k \in Nat, product[k] = Power(c, k)
               PROVE  product[k + 1] = Power(c, k + 1)
    OBVIOUS
  <2>1. Power(c, k) \in Int /\ c \in Int
    BY <1>1, PowerSteps, WordInts
  <2>2. QED
    BY <1>1, <1>6, <2>1, PowerSteps, TimesCommutes
<1>9. Nat \subseteq Good
  <2> HIDE DEF Good
  <2>1. QED
    BY <1>7, <1>8, NatSetInduction
<1>10. QED
  BY <1>1, <1>2, <1>9

-----------------------------------------------------------------------------
(* The instructions with byte positions *)

\* What a power and the rest leave of WordMod.
LEMMA WordModSplits ==
  ASSUME NEW n \in 0 .. WordBits
  PROVE  /\ WordMod = 2 ^ n * 2 ^ (WordBits - n)
         /\ 2 ^ n \in Nat \ {0} /\ 2 ^ (WordBits - n) \in Nat \ {0}
         /\ 2 ^ n <= WordMod
<1> DEFINE k == WordBits - n
<1>1. n \in Nat /\ k \in Nat /\ n + k = WordBits
  BY WordBitsType
<1> HIDE DEF k
<1>2. 2 ^ (n + k) = 2 ^ n * 2 ^ k /\ 2 ^ n <= 2 ^ (n + k)
  BY <1>1, PowerSum, PowerMonotone
<1>3. 2 ^ n \in Nat \ {0} /\ 2 ^ k \in Nat \ {0}
  BY <1>1, PowerType
<1>4. QED
  BY <1>1, <1>2, <1>3 DEF WordMod, k

LEMMA SignExtendIsExact ==
  ASSUME NEW a \in Nat, NEW b \in Word, a < WordBytes
  PROVE  SignExtend(a, b) = SignOfLowBytes(a + 1, b)
<1> DEFINE idx == 8 * a + 7
           m == 2 ^ idx
           r == b % m
           t == Bit(b, idx)
           W == WordMod
           size == 2 ^ (8 * (a + 1))
           low == b % size
<1>1. idx \in Nat /\ idx + 1 = 8 * (a + 1) /\ idx \in 0 .. WordBits
      /\ 8 * (a + 1) \in 0 .. WordBits
  <2>1. WordBytes \in Nat
    BY WordAssumption
  <2>2. QED
    BY <2>1 DEF WordBits
<1> HIDE DEF idx
<1>2. m \in Nat \ {0} /\ size = 2 * m
  BY <1>1, PowerType, PowerNext
<1>3. size <= W /\ W \in Nat \ {0}
  BY <1>1, WordModSplits, WordModType
<1>4. b \in Int
  BY WordInts
<1>5. t \in {0, 1} /\ low = m * t + r /\ r \in 0 .. (m - 1)
  <2>1. r \in 0 .. (m - 1)
    <3> HIDE DEF m
    <3>1. QED
      BY <1>2, <1>4, DivMod
  <2>2. t \in {0, 1} /\ b % 2 ^ (idx + 1) = m * t + r
    BY <1>1, <1>4, BitType, BitAdds
  <2>3. QED
    BY <1>1, <2>1, <2>2
<1>6. SignExtend(a, b) = (IF t = 1 THEN W - m ELSE 0) + r
  <2>1. ~(a >= WordBytes)
    BY WordAssumption
  <2>2. QED
    BY <2>1 DEF SignExtend, idx
<1>7. SignOfLowBytes(a + 1, b) = (IF 2 * low >= size THEN low - size ELSE low) % W
  BY DEF SignOfLowBytes
<1> HIDE DEF m, r, t, W, size, low
<1>8. CASE t = 1
  <2>1. 2 * low >= size /\ low - size = r - m
    BY <1>2, <1>5, <1>8
  <2>2. r - m \in (-W) .. (-1)
    BY <1>2, <1>3, <1>5
  <2>3. (r - m) % W = W + (r - m)
    BY <1>3, <2>2, ModOfNegative
  <2>4. (W - m) + r = W + (r - m)
    BY <1>2, <1>3, <1>5
  <2>5. QED
    BY <1>6, <1>7, <1>8, <2>1, <2>3, <2>4
<1>9. CASE t = 0
  <2>1. ~(2 * low >= size) /\ low = r
    BY <1>2, <1>5, <1>9
  <2>2. r \in 0 .. (W - 1)
    BY <1>2, <1>3, <1>5
  <2>3. r % W = r
    BY <1>3, <2>2, ModOfSmall
  <2>4. 0 + r = r
    BY <1>5
  <2>5. QED
    BY <1>6, <1>7, <1>9, <2>1, <2>3, <2>4
<1>10. QED
  BY <1>5, <1>8, <1>9

LEMMA RawByteType ==
  ASSUME NEW a \in Word, NEW i \in Nat
  PROVE  RawByte(a, i) \in Byte
<1>1. 8 * i \in Nat /\ a \in Int
  BY WordInts
<1> DEFINE m == 2 ^ (8 * i)
<1>2. m \in Nat \ {0}
  BY <1>1, PowerType
<1> HIDE DEF m
<1>3. a \div m \in Int
  BY <1>1, <1>2, DivMod
<1>4. QED
  BY <1>3 DEF RawByte, Byte, m

\* The sign is the top bit of the top byte.
LEMMA TopBitIsSign ==
  ASSUME NEW a \in Word
  PROVE  RawByte(a, WordBytes - 1) \div 128 = IF Signed(a) < 0 THEN 1 ELSE 0
<1> DEFINE n == 8 * (WordBytes - 1)
           m == 2 ^ n
           q == a \div m
           W == WordMod
<1>1. n \in Nat /\ n \in 0 .. WordBits /\ WordBits - n = 8
  BY WordAssumption DEF WordBits
<1> HIDE DEF n
<1>2. m \in Nat \ {0} /\ W = m * 256
  <2>1. 2 ^ (WordBits - n) = 256
    BY <1>1, PowerEight
  <2>2. QED
    BY <1>1, <2>1, WordModSplits
<1>3. RawByte(a, WordBytes - 1) = q % 256
  BY DEF RawByte, n
<1>4. a \in 0 .. (W - 1)
  BY DEF Word
<1>5. Signed(a) = IF a >= W \div 2 THEN a - W ELSE a
  BY DEF Signed
<1> HIDE DEF m, W
<1> DEFINE r == a % m
<1>6. a = m * q + r /\ r \in 0 .. (m - 1) /\ q \in Int
  BY <1>2, <1>4, DivMod
<1> HIDE DEF q, r
<1>7. q \in 0 .. 255
  <2>1. q >= 0
    <3> SUFFICES ASSUME q <= -1 PROVE FALSE
      BY <1>6
    <3>1. m * q <= -m
      BY <1>2, <1>6
    <3>2. QED
      BY <1>2, <1>4, <1>6, <3>1
  <2>2. q <= 255
    <3> SUFFICES ASSUME q >= 256 PROVE FALSE
      BY <1>6
    <3>1. m * q >= m * 256
      BY <1>2, <1>6
    <3>2. QED
      BY <1>2, <1>4, <1>6, <3>1
  <2>3. QED
    BY <1>6, <2>1, <2>2
<1>8. W \div 2 = m * 128
  <2>1. W = 2 * (m * 128) + 0 /\ m * 128 \in Int
    BY <1>2
  <2>2. 0 \in 0 .. (2 - 1) /\ 2 \in Nat \ {0}
    OBVIOUS
  <2> DEFINE h == m * 128
  <2> HIDE DEF h
  <2>3. (2 * h + 0) \div 2 = h
    BY <2>1, <2>2, DivModUnique DEF h
  <2>4. QED
    BY <2>1, <2>3 DEF h
<1>9. (a >= m * 128) <=> (q >= 128)
  <2>1. ASSUME q >= 128 PROVE a >= m * 128
    <3>1. m * q >= m * 128
      BY <1>2, <1>7, <2>1
    <3>2. QED
      BY <1>2, <1>6, <3>1
  <2>2. ASSUME q <= 127 PROVE a < m * 128
    <3>1. m * q <= m * 127
      BY <1>2, <1>7, <2>2
    <3>2. QED
      BY <1>2, <1>6, <3>1
  <2>3. a \in Int /\ m * 128 \in Int
    BY <1>2, <1>4
  <2>4. QED
    BY <1>7, <2>1, <2>2, <2>3
<1>10. Signed(a) < 0 <=> q >= 128
  <2>1. a - W < 0 /\ ~(a < 0)
    BY <1>2, <1>4
  <2>2. QED
    BY <1>5, <1>8, <1>9, <2>1
<1>11. (q % 256) \div 128 = IF q >= 128 THEN 1 ELSE 0
  BY <1>7
<1>12. QED
  BY <1>3, <1>10, <1>11

LEMMA SarIsExact ==
  ASSUME NEW b \in Word, NEW a \in Word
  PROVE  Sar(b, a) = FloorOf(Signed(a), b) % WordMod
<1>1. CASE b >= WordBits
  <2>1. RawByte(a, WordBytes - 1) \div 128 = IF Signed(a) < 0 THEN 1 ELSE 0
    BY TopBitIsSign
  <2>2. Sar(b, a) = (-(RawByte(a, WordBytes - 1) \div 128)) % WordMod
    BY <1>1 DEF Sar
  <2>3. FloorOf(Signed(a), b) = IF Signed(a) < 0 THEN -1 ELSE 0
    BY <1>1 DEF FloorOf
  <2>4. \A i \in {0, 1} : -i = IF i = 1 THEN -1 ELSE 0
    OBVIOUS
  <2>5. QED
    BY <2>1, <2>2, <2>3, <2>4
<1>2. CASE ~(b >= WordBits)
  <2>1. b % 256 = b
    <3>1. b \in Nat /\ WordBits \in Nat /\ WordBits <= 256
      BY WordInts, WordBytesType DEF WordBits
    <3>2. QED
      BY <1>2, <3>1
  <2>2. QED
    BY <1>2, <2>1 DEF Sar, FloorOf, ShiftedSigned
<1>3. QED
  BY <1>1, <1>2

\* An instruction that has a meaning in arithmetic yields it.
LEMMA ResultsAreExact ==
  ASSUME NEW x \in Word, NEW y \in Word, NEW z
  PROVE  /\ ArithmeticResult(10, x, y, z) = Meaning(10, x, y)
         /\ ArithmeticResult(11, x, y, z) = Meaning(11, x, y)
         /\ \A op \in 26 .. 29 : LogicResult(op, x, y) = Meaning(op, x, y)
<1>1. x \in Nat /\ y \in Nat /\ WordBytes \in 1 .. 32 /\ WordBits = 8 * WordBytes
  BY WordInts, WordBytesType DEF WordBits
<1>2. ArithmeticResult(10, x, y, z) = Meaning(10, x, y)
  BY ExpIsPower DEF ArithmeticResult, Meaning
<1>3. ArithmeticResult(11, x, y, z) = Meaning(11, x, y)
  <2>1. ArithmeticResult(11, x, y, z) = SignExtend(x, y)
    BY DEF ArithmeticResult
  <2>2. Meaning(11, x, y) = IF x >= WordBytes THEN y ELSE SignOfLowBytes(x + 1, y)
    BY DEF Meaning
  <2>3. x >= WordBytes => SignExtend(x, y) = y
    BY DEF SignExtend
  <2>4. QED
    BY <1>1, <2>1, <2>2, <2>3, SignExtendIsExact
<1>4. LogicResult(26, x, y) = Meaning(26, x, y)
  <2>1. LogicResult(26, x, y) = ByteAt(x, y)
    BY DEF LogicResult
  <2>2. Meaning(26, x, y) = IF x >= WordBytes THEN 0 ELSE BytesOf(y)[x + 1]
    BY DEF Meaning
  <2>3. CASE x >= WordBytes
    BY <2>1, <2>2, <2>3 DEF ByteAt
  <2>4. CASE ~(x >= WordBytes)
    <3>1. x + 1 \in 1 .. WordBytes /\ WordBytes - (x + 1) = WordBytes - 1 - x
      BY <1>1, <2>4
    <3>2. BytesOf(y)[x + 1] = (y \div 2 ^ (8 * (WordBytes - 1 - x))) % 256
      BY <3>1 DEF BytesOf
    <3>3. QED
      BY <2>1, <2>2, <2>4, <3>2 DEF ByteAt, RawByte
  <2>5. QED
    BY <2>3, <2>4
<1>5. x < WordBits => x % 256 = x
  BY <1>1
<1>6. (x >= WordBits) <=> ~(x < WordBits)
  BY <1>1
<1>7. LogicResult(27, x, y) = Meaning(27, x, y)
  BY <1>5, <1>6 DEF LogicResult, Meaning, Shl, Scaled
<1>8. LogicResult(28, x, y) = Meaning(28, x, y)
  <2>1. ~(y < 0)
    BY <1>1
  <2>2. LogicResult(28, x, y) = Shr(x, y) /\ Meaning(28, x, y) = FloorOf(y, x)
    BY DEF LogicResult, Meaning
  <2>3. QED
    BY <1>5, <1>6, <2>1, <2>2 DEF Shr, FloorOf
<1>9. LogicResult(29, x, y) = Meaning(29, x, y)
  BY SarIsExact DEF LogicResult, Meaning
<1>10. QED
  BY <1>2, <1>3, <1>4, <1>7, <1>8, <1>9

\* Words of one opcode or another.
LEMMA SignExtendType == ASSUME NEW a \in Word, NEW b \in Word PROVE SignExtend(a, b) \in Word
<1>1. CASE a >= WordBytes
  BY <1>1 DEF SignExtend
<1>2. CASE ~(a >= WordBytes)
  <2>1. a \in Nat /\ a < WordBytes
    BY <1>2, WordInts, WordAssumption
  <2>2. SignExtend(a, b) = SignOfLowBytes(a + 1, b)
    BY <2>1, SignExtendIsExact
  <2> DEFINE size == 2 ^ (8 * (a + 1))
             low == b % size
             v == IF 2 * low >= size THEN low - size ELSE low
  <2>3. SignOfLowBytes(a + 1, b) = v % WordMod
    BY DEF SignOfLowBytes
  <2>4. size \in Nat \ {0} /\ low \in Int
    <3>1. size \in Nat \ {0}
      BY <2>1, PowerType
    <3>2. b \in Int
      BY WordInts
    <3> HIDE DEF size
    <3>3. QED
      BY <3>1, <3>2, DivMod
  <2> HIDE DEF size, low
  <2>5. v \in Int
    BY <2>4
  <2>6. QED
    BY <2>2, <2>3, <2>5, WordsReduce
<1>3. QED
  BY <1>1, <1>2

LEMMA ArithmeticTyped ==
  ASSUME NEW op \in ArithmeticOps, NEW x \in Word, NEW y \in Word, NEW z \in Word
  PROVE  ArithmeticResult(op, x, y, z) \in Word
<1>1. x \in Nat /\ y \in Nat /\ z \in Nat
  BY WordInts
<1>2. /\ (x + y) % WordMod \in Word /\ (x - y) % WordMod \in Word
  BY <1>1, WordsReduce
<1>3. Times(x, y) \in Word
  BY <1>1, TimesTyped
<1>4. Div(x, y) \in Word
  <2>1. Div(x, y) \in 0 .. x
    BY <1>1, DivType
  <2>2. QED
    BY <2>1, WordModType DEF Word
<1>5. Mod(x, y) \in Word
  BY <1>1, ModIsWord
<1>6. Mod(x + y, z) \in Word /\ Mod(x * y, z) \in Word
  <2>1. x + y \in Nat /\ x * y \in Nat
    BY <1>1
  <2>2. QED
    BY <2>1, ModIsWord
<1>7. SDiv(x, y) \in Word /\ SMod(x, y) \in Word
  <2> DEFINE q == Div(Magnitude(x), Magnitude(y))
             r == Mod(Magnitude(x), Magnitude(y))
  <2>1. Magnitude(x) \in Nat /\ Magnitude(y) \in Nat
    BY SignedType
  <2>2. q \in Int /\ r \in Int
    BY <2>1, DivType, ModType
  <2>3. -q \in Int /\ -r \in Int
    <3> HIDE DEF q, r
    <3>1. QED
      BY <2>2
  <2>4. /\ SDiv(x, y) = (IF (Signed(x) < 0) # (Signed(y) < 0) THEN -q ELSE q) % WordMod
        /\ SMod(x, y) = (IF Signed(x) < 0 THEN -r ELSE r) % WordMod
    BY DEF SDiv, SMod
  <2> HIDE DEF q, r
  <2>5. QED
    BY <2>2, <2>3, <2>4, WordsReduce
<1>8. Exp(x, y) \in Word
  BY <1>1, ExpIsPower, PowerSteps
<1>9. SignExtend(x, y) \in Word
  BY SignExtendType
<1>10. /\ ArithmeticResult(1, x, y, z) = (x + y) % WordMod
       /\ ArithmeticResult(2, x, y, z) = Times(x, y)
       /\ ArithmeticResult(3, x, y, z) = (x - y) % WordMod
       /\ ArithmeticResult(4, x, y, z) = Div(x, y)
       /\ ArithmeticResult(5, x, y, z) = SDiv(x, y)
       /\ ArithmeticResult(6, x, y, z) = Mod(x, y)
       /\ ArithmeticResult(7, x, y, z) = SMod(x, y)
       /\ ArithmeticResult(8, x, y, z) = Mod(x + y, z)
       /\ ArithmeticResult(9, x, y, z) = Mod(x * y, z)
       /\ ArithmeticResult(10, x, y, z) = Exp(x, y)
       /\ ArithmeticResult(11, x, y, z) = SignExtend(x, y)
  BY DEF ArithmeticResult
<1>11. op \in {1, 2, 3, 4, 5, 6, 7, 8, 9, 10, 11}
  BY DEF ArithmeticOps
<1>12. QED
  BY <1>2, <1>3, <1>4, <1>5, <1>6, <1>7, <1>8, <1>9, <1>10, <1>11

LEMMA LogicTyped ==
  ASSUME NEW op \in LogicOps, NEW x \in Word, NEW y \in Word
  PROVE  LogicResult(op, x, y) \in Word
<1>1. x \in Nat /\ y \in Nat /\ Signed(y) \in Int
  BY WordInts, SignedType
<1>2. And(x, y) \in Word /\ Or(x, y) \in Word /\ Xor(x, y) \in Word
  BY BitwiseTyped
<1>3. WordMod - 1 - x \in Word
  BY WordModType DEF Word
<1>4. ByteAt(x, y) \in Word
  <2>1. CASE x >= WordBytes
    BY <2>1, WordModType DEF ByteAt, Word
  <2>2. CASE ~(x >= WordBytes)
    <3>1. WordBytes - 1 - x \in Nat
      BY <1>1, <2>2, WordAssumption
    <3>2. QED
      BY <2>2, <3>1, RawByteType, BytesAreWords DEF ByteAt
  <2>3. QED
    BY <2>1, <2>2
<1>5. x % 256 \in Nat /\ 2 ^ (x % 256) \in Nat \ {0}
  BY <1>1, PowerType
<1> DEFINE m == 2 ^ (x % 256)
<1> HIDE DEF m
<1>6. Shl(x, y) \in Word
  <2>1. y * m \in Int
    BY <1>1, <1>5 DEF m
  <2>2. (y * m) % WordMod \in Word /\ 0 \in Word
    BY <2>1, WordsReduce, WordModType DEF Word
  <2>3. QED
    BY <2>2 DEF Shl, m
<1>7. Shr(x, y) \in Word
  <2>1. y \div m \in 0 .. y
    BY <1>1, <1>5, DivSmall DEF m
  <2>2. y \div m \in Word /\ 0 \in Word
    BY <2>1, WordModType DEF Word
  <2>3. QED
    BY <2>2 DEF Shr, m
<1>8. Sar(x, y) \in Word
  <2>1. FloorOf(Signed(y), x) \in Int
    <3>1. Signed(y) \div 2 ^ x \in Int
      BY <1>1, PowerType, DivMod
    <3>2. -1 \in Int /\ 0 \in Int
      OBVIOUS
    <3>3. QED
      BY <3>1, <3>2 DEF FloorOf
  <2>2. QED
    BY <2>1, SarIsExact, WordsReduce
<1>9. \A b : Flag(b) \in Word
  BY FlagsAreWords
<1>10. /\ \A k \in 16 .. 21 : \E b : LogicResult(k, x, y) = Flag(b)
       /\ LogicResult(22, x, y) = And(x, y)
       /\ LogicResult(23, x, y) = Or(x, y)
       /\ LogicResult(24, x, y) = Xor(x, y)
       /\ LogicResult(25, x, y) = WordMod - 1 - x
       /\ LogicResult(26, x, y) = ByteAt(x, y)
       /\ LogicResult(27, x, y) = Shl(x, y)
       /\ LogicResult(28, x, y) = Shr(x, y)
       /\ LogicResult(29, x, y) = Sar(x, y)
  <2>1. /\ LogicResult(16, x, y) = Flag(x < y)
        /\ LogicResult(17, x, y) = Flag(x > y)
        /\ LogicResult(18, x, y) = Flag(Signed(x) < Signed(y))
        /\ LogicResult(19, x, y) = Flag(Signed(y) < Signed(x))
        /\ LogicResult(20, x, y) = Flag(x = y)
        /\ LogicResult(21, x, y) = Flag(x = 0)
    BY DEF LogicResult
  <2>2. 16 .. 21 = {16, 17, 18, 19, 20, 21}
    OBVIOUS
  <2>3. \A k \in {16, 17, 18, 19, 20, 21} : \E b : LogicResult(k, x, y) = Flag(b)
    BY <2>1
  <2>4. QED
    BY <2>2, <2>3 DEF LogicResult
<1>11. op \in 16 .. 21 \/ op \in {22, 23, 24, 25, 26, 27, 28, 29}
  BY DEF LogicOps
<1>12. QED
  BY <1>2, <1>3, <1>4, <1>6, <1>7, <1>8, <1>9, <1>10, <1>11

-----------------------------------------------------------------------------
(* Bytes *)

LEMMA BytesOfType == ASSUME NEW w \in Word PROVE BytesOf(w) \in Seq(Byte) /\ Len(BytesOf(w)) = WordBytes
<1>1. \A i \in 1 .. WordBytes : (w \div 2 ^ (8 * (WordBytes - i))) % 256 \in Byte
  <2> SUFFICES ASSUME NEW i \in 1 .. WordBytes
               PROVE  (w \div 2 ^ (8 * (WordBytes - i))) % 256 \in Byte
    OBVIOUS
  <2>1. WordBytes - i \in Nat
    BY WordAssumption
  <2>2. QED
    BY <2>1, RawByteType DEF RawByte
<1>2. WordBytes \in Nat
  BY WordAssumption
<1>3. QED
  BY <1>1, <1>2 DEF BytesOf

LEMMA ZerosType == ASSUME NEW n \in Int PROVE Zeros(n) \in Seq(Byte) /\ Len(Zeros(n)) = IF n > 0 THEN n ELSE 0
<1>1. CASE n > 0
  BY <1>1 DEF Zeros, Byte
<1>2. CASE n <= 0
  <2>1. Zeros(n) = <<>>
    BY <1>2 DEF Zeros
  <2>2. QED
    BY <1>2, <2>1
<1>3. QED
  BY <1>1, <1>2

LEMMA PartType ==
  ASSUME NEW bytes \in Seq(Byte), NEW offset \in Nat, NEW n \in Nat, offset + n <= Len(bytes)
  PROVE  /\ Part(bytes, offset, n) \in Seq(Byte) /\ Len(Part(bytes, offset, n)) = n
         /\ \A i \in 1 .. n : Part(bytes, offset, n)[i] = bytes[offset + i]
<1>1. \A i \in (offset + 1) .. (offset + n) : bytes[i] \in Byte
  OBVIOUS
<1>2. Part(bytes, offset, n) = [i \in 1 .. n |-> bytes[offset + i]]
  BY DEF Part
<1>3. \A i \in 1 .. n : bytes[offset + i] \in Byte
  BY <1>1
<1>4. QED
  BY <1>2, <1>3

LEMMA WrittenType ==
  ASSUME NEW bytes \in Seq(Byte), NEW offset \in Int, NEW what \in Seq(Byte)
  PROVE  /\ Written(bytes, offset, what) \in Seq(Byte)
         /\ Len(Written(bytes, offset, what)) = Len(bytes)
         /\ \A i \in 1 .. Len(bytes) :
              Written(bytes, offset, what)[i] =
                IF i - offset \in 1 .. Len(what) THEN what[i - offset] ELSE bytes[i]
<1>1. Len(bytes) \in Nat
  OBVIOUS
<1>2. \A i \in 1 .. Len(bytes) :
        (IF i - offset \in 1 .. Len(what) THEN what[i - offset] ELSE bytes[i]) \in Byte
  OBVIOUS
<1>3. QED
  BY <1>1, <1>2 DEF Written

LEMMA ConcatType ==
  ASSUME NEW s \in Seq(Byte), NEW t \in Seq(Byte)
  PROVE  /\ s \o t \in Seq(Byte) /\ Len(s \o t) = Len(s) + Len(t)
         /\ \A i \in 1 .. (Len(s) + Len(t)) :
              (s \o t)[i] = IF i <= Len(s) THEN s[i] ELSE t[i - Len(s)]
  OBVIOUS

LEMMA ConcatIsSeq == \A s, t \in Seq(Byte) : s \o t \in Seq(Byte) /\ Len(s \o t) = Len(s) + Len(t)
  BY ConcatType

\* A number read from bytes has 8 bits for each.
LEMMA WordOfBound ==
  ASSUME NEW bytes \in Seq(Byte)
  PROVE  WordOf(bytes) \in 0 .. (2 ^ (8 * Len(bytes)) - 1)
<1> DEFINE S == DOMAIN bytes
           Body(g) == [s \in SUBSET S |->
                         IF s = {} THEN 0 ELSE 256 * g[s \ {Max(s)}] + bytes[Max(s)]]
           iter == CHOOSE g : g = Body(g)
           ch == [s \in SUBSET S |-> Max(s)]
           G == [p \in S \X Nat |-> 256 * p[2] + bytes[p[1]]]
<1>1. WordOf(bytes) = iter[S]
  BY DEF WordOf, FoldLeft, MapThenFoldSet
<1>2. S = 1 .. Len(bytes) /\ Len(bytes) \in Nat /\ IsFiniteSet(S)
  BY FS_Interval
<1> DEFINE byte(i) == bytes[i] \in 0 .. 255
<1>0. \A i \in S : byte(i)
  <2>1. \A i \in 1 .. Len(bytes) : bytes[i] \in Byte
    OBVIOUS
  <2>2. QED
    BY <1>2, <2>1 DEF Byte
<1>3. \A s \in SUBSET S : s # {} => Max(s) \in s /\ \A k \in s : k <= Max(s)
  <2> SUFFICES ASSUME NEW s \in SUBSET S, s # {}
               PROVE  Max(s) \in s /\ \A k \in s : k <= Max(s)
    OBVIOUS
  <2>1. s \in SUBSET (0 .. Len(bytes))
    BY <1>2
  <2>2. \E m \in s : \A k \in s : k <= m
    BY <1>2, <2>1, GreatestElement
  <2>3. \E m \in s : \A k \in s : m >= k
    BY <1>2, <2>1, <2>2
  <2>4. Max(s) \in s /\ \A k \in s : Max(s) >= k
    BY <2>3 DEF Max
  <2>5. QED
    BY <1>2, <2>1, <2>4
<1>4. Chooses(ch, S)
  BY <1>3 DEF Chooses
<1>5. G \in [S \X Nat -> Nat]
  <2>1. \A p \in S \X Nat : bytes[p[1]] \in Nat /\ p[2] \in Nat
    <3>1. ASSUME NEW i \in S PROVE bytes[i] \in Nat
      <4>1. byte(i)
        BY <1>0
      <4>2. 0 .. 255 \subseteq Nat
        OBVIOUS
      <4>3. QED
        BY <4>1, <4>2
    <3> HIDE DEF S
    <3>2. QED
      BY <3>1
  <2>2. QED
    BY <2>1
<1>6. PICK it \in [SUBSET S -> Nat] : Folds(it, S, 0, ch, G)
  <2> HIDE DEF ch, G, S
  <2>1. 0 \in Nat
    OBVIOUS
  <2>2. QED
    BY <1>2, <1>4, <1>5, <2>1, FoldExists
<1>7. \A s \in SUBSET S : s # {} =>
        G[<<ch[s], it[s \ {ch[s]}]>>] = 256 * it[s \ {Max(s)}] + bytes[Max(s)]
  <2> SUFFICES ASSUME NEW s \in SUBSET S, s # {}
               PROVE  G[<<ch[s], it[s \ {ch[s]}]>>] = 256 * it[s \ {Max(s)}] + bytes[Max(s)]
    OBVIOUS
  <2>1. ch[s] = Max(s) /\ Max(s) \in S
    BY <1>3
  <2>2. it[s \ {Max(s)}] \in Nat
    OBVIOUS
  <2> HIDE DEF ch
  <2>3. QED
    BY <2>1, <2>2
<1>8. it = Body(it)
  <2> HIDE DEF G, ch
  <2>1. it = [s \in SUBSET S |-> IF s = {} THEN 0 ELSE G[<<ch[s], it[s \ {ch[s]}]>>]]
    BY <1>6 DEF Folds
  <2>2. QED
    BY ZenonT(30), <1>7, <2>1
<1>9. iter = Body(iter)
  <2> HIDE DEF Body
  <2>1. QED
    BY <1>8
<1> HIDE DEF iter
<1> DEFINE Bound(n) == n <= Len(bytes) => iter[1 .. n] \in 0 .. (2 ^ (8 * n) - 1)
           Good == {n \in Nat : Bound(n)}
<1>10. 0 \in Good
  <2>1. 1 .. 0 = {} /\ {} \in SUBSET S
    OBVIOUS
  <2>2. iter[{}] = 0
    BY <1>9, <2>1
  <2>3. 8 * 0 = 0
    OBVIOUS
  <2>4. QED
    BY <2>1, <2>2, <2>3, PowerZero
<1>11. \A n \in Nat : n \in Good => n + 1 \in Good
  <2> SUFFICES ASSUME NEW n \in Nat, Bound(n), n + 1 <= Len(bytes)
               PROVE  iter[1 .. (n + 1)] \in 0 .. (2 ^ (8 * (n + 1)) - 1)
    OBVIOUS
  <2> DEFINE s == 1 .. (n + 1)
             m == 2 ^ (8 * n)
             v == iter[1 .. n]
             b == bytes[n + 1]
  <2>1. s \in SUBSET S /\ s # {} /\ n + 1 \in s /\ \A k \in s : k <= n + 1
    BY SMTT(30), <1>2
  <2>2. Max(s) = n + 1
    <3>1. Max(s) \in s /\ \A k \in s : k <= Max(s)
      BY <1>3, <2>1
    <3> HIDE DEF s
    <3>2. Max(s) \in Int
      BY <3>1 DEF s
    <3>3. QED
      BY <2>1, <3>1, <3>2
  <2>3. s \ {n + 1} = 1 .. n
    OBVIOUS
  <2>4. iter[s] = 256 * v + b
    <3> HIDE DEF s
    <3>1. iter[s] = 256 * iter[s \ {Max(s)}] + bytes[Max(s)]
      BY <1>9, <2>1
    <3>2. QED
      BY <2>2, <2>3, <3>1
  <2>5. m \in Nat \ {0} /\ 2 ^ (8 * (n + 1)) = m * 256
    <3>1. 8 * n \in Nat /\ 8 * (n + 1) = 8 * n + 8
      OBVIOUS
    <3>2. 2 ^ (8 * n + 8) = 2 ^ (8 * n) * 2 ^ 8
      BY <3>1, PowerSum
    <3>3. QED
      BY <3>1, <3>2, PowerType, PowerEight
  <2>6. v \in 0 .. (m - 1)
    BY <1>2
  <2>7. b \in 0 .. 255
    <3>1. n + 1 \in S
      BY <1>2
    <3>2. byte(n + 1)
      BY <1>0, <3>1
    <3>3. QED
      BY <3>2
  <2> HIDE DEF v, b, m
  <2>8. 256 * v + b \in 0 .. (m * 256 - 1)
    BY <2>5, <2>6, <2>7
  <2>9. QED
    BY <2>4, <2>5, <2>8
<1>12. Nat \subseteq Good
  <2> HIDE DEF Good
  <2>1. QED
    BY <1>10, <1>11, NatSetInduction
<1>13. Bound(Len(bytes))
  BY <1>2, <1>12
<1>14. QED
  BY <1>1, <1>2, <1>13

LEMMA WordOfType ==
  ASSUME NEW bytes \in Seq(Byte), Len(bytes) <= WordBytes
  PROVE  WordOf(bytes) \in Word
<1>1. 8 * Len(bytes) \in Nat /\ 8 * Len(bytes) <= WordBits /\ WordBits \in Nat
  BY WordAssumption DEF WordBits
<1>2. 2 ^ (8 * Len(bytes)) <= WordMod /\ 2 ^ (8 * Len(bytes)) \in Nat
  BY <1>1, PowerMonotone, PowerType DEF WordMod
<1>3. WordOf(bytes) \in 0 .. (2 ^ (8 * Len(bytes)) - 1)
  BY WordOfBound
<1> DEFINE m == 2 ^ (8 * Len(bytes))
<1> HIDE DEF m
<1>4. 0 .. (m - 1) \subseteq Word
  BY <1>2, WordModType DEF Word, m
<1>5. QED
  BY <1>3, <1>4 DEF m

-----------------------------------------------------------------------------
(* Offsets and sizes *)

LEMMA SizesType ==
  /\ IntMod \in Nat \ {0} /\ ShortMod \in Nat \ {0} /\ MaxMemory \in Nat /\ MaxStack \in Nat
  /\ RevertLimit \in Nat /\ 2 * RevertLimit <= MaxMemory /\ 2 * MaxMemory < IntMod
  /\ IntMod <= WordMod
<1>1. /\ IntMod \in Nat /\ ShortMod \in Nat \ {0} /\ MaxMemory \in Nat /\ MaxStack \in Nat
      /\ RevertLimit \in Nat /\ 2 * RevertLimit <= MaxMemory /\ 2 * MaxMemory < IntMod
      /\ WordMod % IntMod = 0
  BY TickAssumption DEF TickAssumption
<1>2. IntMod <= WordMod
  <2> SUFFICES ASSUME WordMod < IntMod PROVE FALSE
    BY <1>1, WordModType
  <2>1. WordMod \in 0 .. (IntMod - 1) /\ IntMod \in Nat \ {0}
    BY <1>1, WordModType
  <2>2. WordMod % IntMod = WordMod
    BY <2>1, ModOfSmall
  <2>3. QED
    BY <1>1, <2>2, WordModType
<1>3. QED
  BY <1>1, <1>2

LEMMA ToIntType ==
  ASSUME NEW w \in Word
  PROVE  /\ ToInt(w) \in Int /\ 2 * ToInt(w) < IntMod /\ ToInt(w) >= -IntMod
         /\ ToInt(w) >= 0 => ToInt(w) = w % IntMod
<1> DEFINE low == w % IntMod
<1>1. w \in Int /\ IntMod \in Nat \ {0}
  BY WordInts, SizesType
<1>2. low \in 0 .. (IntMod - 1)
  BY <1>1, DivMod
<1>3. ToInt(w) = IF 2 * low >= IntMod THEN low - IntMod ELSE low
  BY DEF ToInt
<1> HIDE DEF low
<1>4. QED
  BY <1>1, <1>2, <1>3 DEF low

\* A word that fits is itself as an int.
LEMMA ToIntOfFit == ASSUME NEW w \in Word, 2 * w < IntMod PROVE ToInt(w) = w
<1>1. w \in 0 .. (IntMod - 1) /\ IntMod \in Nat \ {0}
  BY WordInts, SizesType
<1>2. w % IntMod = w
  BY <1>1, ModOfSmall
<1>3. QED
  BY <1>1, <1>2 DEF ToInt

\* What is granted ends within the limit, although the sum is reduced.
LEMMA GrantedSums ==
  ASSUME NEW o \in Word, NEW s \in Word, CanExpand(o, s)
  PROVE  ToInt(o) \in Nat /\ ToInt(s) \in Nat /\ ToInt(o) + ToInt(s) <= MaxMemory
<1> DEFINE I == IntMod
           W == WordMod
           p == ToInt(o)
           q == ToInt(s)
           t == (o + s) % W
           k == W \div I
<1>1. /\ p \in Int /\ q \in Int /\ p >= 0 /\ q >= 0 /\ 2 * p < I /\ 2 * q < I
      /\ p = o % I /\ q = s % I
  BY ToIntType DEF CanExpand
<1>2. o \in Nat /\ s \in Nat /\ o + s \in Int /\ I \in Nat \ {0} /\ W \in Nat \ {0}
  BY WordInts, SizesType, WordModType
<1>3. t <= MaxMemory /\ 2 * MaxMemory < I /\ MaxMemory \in Nat /\ I <= W
  BY SizesType DEF CanExpand
<1>4. W % I = 0
  BY TickAssumption DEF TickAssumption
<1> HIDE DEF I, W
<1>5. t \in Nat
  BY <1>2, DivMod
<1>6. W = I * k /\ k \in Nat \ {0}
  <2>1. W = I * k + (W % I) /\ k \in Int
    BY <1>2, DivMod
  <2> HIDE DEF k
  <2>2. W = I * k
    BY <1>2, <1>4, <2>1
  <2>3. ~(k <= 0)
    <3> SUFFICES ASSUME k <= 0 PROVE FALSE
      OBVIOUS
    <3>1. I * k <= 0
      BY <1>2, <2>1
    <3>2. QED
      BY <1>2, <2>2, <3>1
  <2>4. QED
    BY <2>1, <2>2, <2>3
<1>7. t % I = (o + s) % I
  <2>1. \A j \in Nat \ {0} : ((o + s) % (I * j)) % I = (o + s) % I
    BY <1>2, DivModProduct
  <2> HIDE DEF k
  <2>2. QED
    BY <1>6, <2>1
<1>8. (p + q) % I = (o + s) % I
  <2>1. \A x, z \in Int : ((x % I) * 1 + z) % I = (x * 1 + z) % I
    <3>1. \A x, y, z \in Int : ((x % I) * y + z) % I = (x * y + z) % I
      BY <1>2, ModFactor
    <3>2. QED
      BY <3>1
  <2> HIDE DEF p, q
  <2> DEFINE f(x, z) == ((x % I) * 1 + z) % I = (x * 1 + z) % I
  <2>2. \A x, z \in Int : f(x, z)
    BY <2>1
  <2>3. f(o, s) /\ f(s, p)
    <3>1. o \in Int /\ s \in Int /\ p \in Int
      BY <1>1, <1>2
    <3> HIDE DEF f
    <3>2. QED
      BY <2>2, <3>1
  <2>4. ((o % I) * 1 + s) % I = (o * 1 + s) % I /\ ((s % I) * 1 + p) % I = (s * 1 + p) % I
    BY <2>3
  <2>5. (o % I) * 1 + s = s * 1 + p /\ o * 1 + s = o + s /\ (s % I) * 1 + p = p + q
    BY <1>1, <1>2
  <2>6. QED
    BY <2>4, <2>5
<1> HIDE DEF p, q, t, k
<1>9. p + q \in 0 .. (I - 1) /\ t \in 0 .. (I - 1)
  BY <1>1, <1>2, <1>3, <1>5
<1>10. (p + q) % I = p + q /\ t % I = t
  BY <1>2, <1>9, ModOfSmall
<1>11. p + q = t
  BY <1>7, <1>8, <1>10
<1>12. p \in Nat /\ q \in Nat /\ p + q <= MaxMemory
  BY <1>1, <1>3, <1>11
<1>13. QED
  BY <1>12 DEF p, q

-----------------------------------------------------------------------------
(* The state of an instruction *)

\* What the type invariant needs to be inductive: sizes fit a word.
TickTyped ==
  /\ TickTypeOK
  /\ Sizeable(code) /\ Sizeable(calldata) /\ Sizeable(returnData)

LEMMA SizesAreWords == ASSUME NEW bytes, Sizeable(bytes) PROVE Len(bytes) \in Word
  BY SizesType, WordModType DEF Sizeable, Word

LEMMA OpcodeIsByte ==
  ASSUME TickTyped, Running
  PROVE  Opcode \in Byte /\ pc \in Nat /\ pc < Len(code) /\ Len(code) \in Nat
<1>1. code \in Seq(Byte) /\ pc \in 0 .. (Len(code) + WordBytes) /\ pc < Len(code)
  BY DEF TickTyped, TickTypeOK, Bytes, Running
<1>2. Len(code) \in Nat /\ pc \in Nat
  BY <1>1, WordAssumption
<1>3. code[pc + 1] \in Byte
  BY <1>1, <1>2
<1>4. QED
  BY <1>1, <1>2, <1>3 DEF Opcode

LEMMA StackIsTyped == TickTyped => stack \in Seq(Word) /\ Len(stack) \in Nat
  BY DEF TickTyped, TickTypeOK

LEMMA ArgType == ASSUME TickTyped PROVE \A i \in Nat : Arg(i) \in Word
<1> SUFFICES ASSUME NEW i \in Nat PROVE Arg(i) \in Word
  OBVIOUS
<1>1. CASE i < Len(stack)
  <2>1. i + 1 \in 1 .. Len(stack) /\ stack \in Seq(Word)
    BY <1>1, StackIsTyped
  <2>2. stack[i + 1] \in Word
    BY <2>1
  <2>3. QED
    BY <1>1, <2>2 DEF Arg
<1>2. CASE ~(i < Len(stack))
  BY <1>2, WordModType DEF Arg, Word
<1>3. QED
  BY <1>1, <1>2

LEMMA ShiftedArgs ==
  ASSUME TickTyped
  PROVE  \A i \in Nat : CopyArg(i) \in Word /\ CallArg(i) \in Word
<1> SUFFICES ASSUME NEW i \in Nat PROVE CopyArg(i) \in Word /\ CallArg(i) \in Word
  OBVIOUS
<1>1. \A b : i + Flag(b) \in Nat
  BY DEF Flag
<1>2. QED
  BY <1>1, ArgType DEF CopyArg, CallArg

LEMMA NeedsType == ASSUME NEW op \in Byte PROVE Needs(op) \in Nat
<1>1. op \in Nat
  BY DEF Byte
<1>2. Arity(op) \in Nat
  BY DEF Arity
<1>3. op \in SwapOps => op - 142 \in Nat
  BY <1>1 DEF SwapOps
<1>4. op \in LogOps => 2 + (op - 160) \in Nat
  BY <1>1 DEF LogOps
<1>5. QED
  BY <1>2, <1>3, <1>4 DEF Needs

LEMMA RestType ==
  ASSUME TickTyped, NEW n \in Nat, n <= Len(stack)
  PROVE  Rest(n) \in Seq(Word) /\ Len(Rest(n)) = Len(stack) - n
<1>1. stack \in Seq(Word) /\ Len(stack) \in Nat
  BY StackIsTyped
<1>2. \A i \in (n + 1) .. Len(stack) : stack[i] \in Word
  BY <1>1
<1>3. Rest(n) \in Seq(Word)
  BY <1>1, <1>2 DEF Rest
<1>4. Len(Rest(n)) = Len(stack) - n
  BY <1>1 DEF Rest
<1>5. QED
  BY <1>3, <1>4

\* What a stack has to be after an instruction.
StackFits(s) == s \in Seq(Word) /\ Len(s) <= MaxStack + 1

LEMMA PushFits ==
  ASSUME TickTyped, NEW ops, Fetched(ops), NEW w \in Word, Push(w)
  PROVE  StackFits(stack')
<1> DEFINE n == Needs(Opcode)
<1>1. Running /\ n <= Len(stack) /\ Len(stack) <= MaxStack
  BY StackIsTyped, OpcodeIsByte, NeedsType DEF Fetched, Running
<1>2. n \in Nat
  BY <1>1, OpcodeIsByte, NeedsType
<1>3. stack' = <<w>> \o Rest(n)
  BY DEF Push
<1> HIDE DEF n
<1>4. Rest(n) \in Seq(Word) /\ Len(Rest(n)) = Len(stack) - n
  BY <1>1, <1>2, RestType
<1>5. stack' \in Seq(Word) /\ Len(stack') = 1 + Len(Rest(n))
  <2> DEFINE r == Rest(n)
  <2> HIDE DEF r
  <2>1. <<w>> \o r \in Seq(Word) /\ Len(<<w>> \o r) = 1 + Len(r)
    BY <1>4 DEF r
  <2>2. QED
    BY <1>3, <2>1 DEF r
<1>6. QED
  BY <1>1, <1>2, <1>4, <1>5, StackIsTyped, SizesType DEF StackFits

LEMMA PopFits ==
  ASSUME TickTyped, NEW ops, Fetched(ops), PopOnly
  PROVE  StackFits(stack')
<1> DEFINE n == Needs(Opcode)
<1>1. Running /\ n <= Len(stack) /\ Len(stack) <= MaxStack
  BY StackIsTyped, OpcodeIsByte, NeedsType DEF Fetched, Running
<1>2. n \in Nat
  BY <1>1, OpcodeIsByte, NeedsType
<1>3. stack' = Rest(n)
  BY DEF PopOnly
<1> HIDE DEF n
<1>4. Rest(n) \in Seq(Word) /\ Len(Rest(n)) = Len(stack) - n
  BY <1>1, <1>2, RestType
<1>5. QED
  BY <1>1, <1>2, <1>3, <1>4, StackIsTyped, SizesType DEF StackFits

-----------------------------------------------------------------------------
(* Memory *)

Touching == {32, 81, 82, 83, 243, 253} \cup CopyOps \cup LogOps \cup CallOps

LEMMA TouchedType ==
  ASSUME TickTyped, Opcode \in Touching
  PROVE  Touched # {} /\ Touched \in SUBSET (Word \X Word)
<1>1. \A i \in Nat : Arg(i) \in Word /\ CopyArg(i) \in Word /\ CallArg(i) \in Word
  BY ArgType, ShiftedArgs
<1>2. /\ Arg(0) \in Word /\ Arg(1) \in Word /\ Arg(2) \in Word
      /\ CopyArg(0) \in Word /\ CopyArg(2) \in Word
      /\ CallArg(2) \in Word /\ CallArg(3) \in Word /\ CallArg(4) \in Word /\ CallArg(5) \in Word
  BY <1>1
<1>3. ToInt(Arg(1)) % WordMod \in Word
  BY <1>2, ToIntType, WordsReduce
<1>4. WordBytes \in Word /\ 1 \in Word
  BY WordBytesType, WordModType DEF Word
<1>5. CASE Opcode = 32
  <2>1. Touched = {<<Arg(0), ToInt(Arg(1)) % WordMod>>}
    BY <1>5 DEF Touched, CopyOps, LogOps, CallOps
  <2>2. QED
    BY <1>2, <1>3, <2>1
<1>6. CASE Opcode \in {81, 82}
  <2>1. Touched = {<<Arg(0), WordBytes>>}
    BY <1>6 DEF Touched, CopyOps, LogOps, CallOps
  <2>2. QED
    BY <1>2, <1>4, <2>1
<1>7. CASE Opcode = 83
  <2>1. Touched = {<<Arg(0), 1>>}
    BY <1>7 DEF Touched, CopyOps, LogOps, CallOps
  <2>2. QED
    BY <1>2, <1>4, <2>1
<1>8. CASE Opcode \in CopyOps
  <2> DEFINE more == IF Opcode = 94 /\ Arg(1) > Arg(0) THEN {<<Arg(1), Arg(2)>>} ELSE {}
  <2>1. Touched = {<<CopyArg(0), CopyArg(2)>>} \cup more
    BY <1>8 DEF Touched, CopyOps, LogOps, CallOps
  <2>2. more \in SUBSET (Word \X Word)
    BY <1>2
  <2> DEFINE t == <<CopyArg(0), CopyArg(2)>>
  <2>3. t \in Word \X Word
    BY <1>2
  <2>4. Touched = {t} \cup more
    BY <2>1
  <2> HIDE DEF more, t
  <2>5. QED
    BY <2>2, <2>3, <2>4
<1>9. CASE Opcode \in LogOps \cup {243, 253}
  <2>1. Touched = {<<Arg(0), Arg(1)>>}
    BY <1>9 DEF Touched, CopyOps, LogOps, CallOps
  <2>2. QED
    BY <1>2, <2>1
<1>10. CASE Opcode \in CallOps
  <2>1. Touched = {<<CallArg(2), CallArg(3)>>, <<CallArg(4), CallArg(5)>>}
    BY <1>10 DEF Touched, CopyOps, LogOps, CallOps
  <2>2. QED
    BY <1>2, <2>1
<1>11. QED
  BY <1>5, <1>6, <1>7, <1>8, <1>9, <1>10 DEF Touching

\* Granted memory has all ranges that are touched, and zeros where it is new.
LEMMA ExpandedType ==
  ASSUME TickTyped, Opcode \in Touching, Granted
  PROVE  /\ Expanded \in Seq(Byte) /\ Len(Expanded) \in Nat /\ Len(Expanded) <= MaxMemory
         /\ Len(memory) <= Len(Expanded)
         /\ \A i \in 1 .. Len(Expanded) : Expanded[i] = At(memory, i)
         /\ \A r \in Touched : /\ ToInt(r[1]) \in Nat /\ ToInt(r[2]) \in Nat
                               /\ ToInt(r[1]) + ToInt(r[2]) <= Len(Expanded)
<1> DEFINE ends == {ToInt(r[1]) + ToInt(r[2]) : r \in Touched}
           n == Max(ends) - Len(memory)
<1>1. \A r \in Touched : /\ ToInt(r[1]) \in Nat /\ ToInt(r[2]) \in Nat
                         /\ ToInt(r[1]) + ToInt(r[2]) <= MaxMemory
  <2> SUFFICES ASSUME NEW r \in Touched
               PROVE  /\ ToInt(r[1]) \in Nat /\ ToInt(r[2]) \in Nat
                      /\ ToInt(r[1]) + ToInt(r[2]) <= MaxMemory
    OBVIOUS
  <2>1. r[1] \in Word /\ r[2] \in Word
    BY TouchedType
  <2>2. CanExpand(r[1], r[2])
    BY DEF Granted
  <2>3. QED
    BY <2>1, <2>2, GrantedSums
<1>2. ends # {} /\ ends \in SUBSET (0 .. MaxMemory)
  <2>1. MaxMemory \in Nat
    BY SizesType
  <2>2. \A r \in Touched : ToInt(r[1]) + ToInt(r[2]) \in 0 .. MaxMemory
    BY <1>1, <2>1
  <2>3. QED
    BY <2>2, TouchedType
<1>3. Expanded = memory \o Zeros(n)
  BY DEF Expanded
<1>4. Max(ends) \in 0 .. MaxMemory /\ \A e \in ends : e <= Max(ends)
  <2> HIDE DEF ends
  <2>1. \E m \in ends : \A e \in ends : e <= m
    BY <1>2, SizesType, GreatestElement
  <2>2. \A e \in ends : e \in Int
    BY <1>2
  <2>3. \E m \in ends : \A e \in ends : m >= e
    BY <2>1, <2>2
  <2>4. Max(ends) \in ends /\ \A e \in ends : Max(ends) >= e
    BY <2>3 DEF Max
  <2>5. QED
    BY <1>2, <2>2, <2>4
<1>5. memory \in Seq(Byte) /\ Len(memory) \in Nat /\ Len(memory) <= MaxMemory
  BY DEF TickTyped, TickTypeOK, Bytes
<1>6. n \in Int
  BY <1>4, <1>5
<1> DEFINE z == Zeros(n)
           top == Max(ends)
<1>7. z \in Seq(Byte) /\ Len(z) = IF n > 0 THEN n ELSE 0
  BY <1>6, ZerosType
<1>8. \A i \in 1 .. Len(z) : z[i] = 0
  <2>1. CASE n > 0
    <3>1. Len(z) = n
      BY <1>7, <2>1
    <3> HIDE DEF n
    <3>2. QED
      BY <3>1 DEF Zeros
  <2>2. CASE ~(n > 0)
    <3>1. Len(z) = 0
      BY <1>7, <2>2
    <3> HIDE DEF z
    <3>2. QED
      BY <3>1
  <2>3. QED
    BY <2>1, <2>2
<1> HIDE DEF z
<1>9. /\ Expanded \in Seq(Byte) /\ Len(Expanded) = Len(memory) + Len(z)
      /\ \A i \in 1 .. (Len(memory) + Len(z)) :
           Expanded[i] = IF i <= Len(memory) THEN memory[i] ELSE z[i - Len(memory)]
  BY <1>3, <1>5, <1>7, ConcatType DEF z
<1> HIDE DEF ends
<1>10. /\ Len(Expanded) \in Nat /\ Len(Expanded) <= MaxMemory /\ Len(memory) <= Len(Expanded)
       /\ top <= Len(Expanded)
  <2>1. top \in 0 .. MaxMemory /\ n = top - Len(memory)
    BY <1>4
  <2>2. MaxMemory \in Nat
    BY SizesType
  <2> HIDE DEF n, top
  <2>3. QED
    BY <1>5, <1>7, <1>9, <2>1, <2>2
<1>11. \A i \in 1 .. Len(Expanded) : Expanded[i] = At(memory, i)
  <2> SUFFICES ASSUME NEW i \in 1 .. Len(Expanded) PROVE Expanded[i] = At(memory, i)
    OBVIOUS
  <2>1. Len(z) \in Nat
    BY <1>7
  <2>2. i \in 1 .. (Len(memory) + Len(z)) /\ i \in Nat
    BY <1>9, <1>10
  <2>3. CASE i <= Len(memory)
    BY <1>5, <1>9, <2>2, <2>3 DEF At
  <2>4. CASE ~(i <= Len(memory))
    <3>1. i - Len(memory) \in 1 .. Len(z)
      BY <1>5, <2>1, <2>2, <2>4
    <3>2. i \notin 1 .. Len(memory)
      BY <2>4
    <3>3. QED
      BY <1>8, <1>9, <2>2, <2>4, <3>1, <3>2 DEF At
  <2>5. QED
    BY <2>3, <2>4
<1>12. \A r \in Touched : ToInt(r[1]) + ToInt(r[2]) <= top
  BY <1>4 DEF ends
<1>13. \A r \in Touched : ToInt(r[1]) + ToInt(r[2]) <= Len(Expanded)
  <2>1. top \in Int
    BY <1>4
  <2> HIDE DEF top
  <2>2. QED
    BY <1>1, <1>10, <1>12, <2>1
<1>14. QED
  BY <1>1, <1>9, <1>10, <1>11, <1>13

-----------------------------------------------------------------------------
(* Every instruction keeps the types *)

Outcomes == {"running", "returned", "reverted", "failed", "undefined"}

LEMMA EndTyped ==
  ASSUME TickTyped, NEW how \in Outcomes, NEW data \in Seq(Byte), End(how, data)
  PROVE  TickTyped'
  BY DEF TickTyped, TickTypeOK, Sizeable, End, Outcomes, Bytes

LEMMA UndefinedTyped == ASSUME TickTyped, Undefined PROVE TickTyped'
<1>1. <<>> \in Seq(Byte) /\ "undefined" \in Outcomes
  BY DEF Outcomes
<1>2. QED
  BY <1>1, EndTyped DEF Undefined

MemoryFits(m) == m \in Seq(Byte) /\ Len(m) <= MaxMemory

\* An instruction that goes on, at any place of the code.
LEMMA MovesTyped ==
  ASSUME TickTyped, UNCHANGED <<code, calldata, outcome, output>>,
         pc' \in 0 .. (Len(code) + WordBytes),
         StackFits(stack'), MemoryFits(memory'), Sizeable(returnData')
  PROVE  TickTyped'
  BY DEF TickTyped, TickTypeOK, Sizeable, StackFits, MemoryFits, Bytes

LEMMA MemoryStaysTyped ==
  ASSUME TickTyped
  PROVE  /\ MemoryFits(memory) /\ (memory' = memory => MemoryFits(memory'))
         /\ Sizeable(returnData) /\ (returnData' = returnData => Sizeable(returnData'))
  BY DEF TickTyped, TickTypeOK, MemoryFits, Sizeable, Bytes

LEMMA ProceedTyped ==
  ASSUME TickTyped, Running, Proceed,
         StackFits(stack'), MemoryFits(memory'), Sizeable(returnData')
  PROVE  TickTyped'
<1>1. pc \in Nat /\ pc < Len(code) /\ Len(code) \in Nat /\ WordBytes \in Nat
  BY OpcodeIsByte, WordAssumption
<1>2. pc' = pc + 1 /\ UNCHANGED <<code, calldata, outcome, output>>
  BY DEF Proceed
<1>3. pc' \in 0 .. (Len(code) + WordBytes)
  BY <1>1, <1>2
<1>4. QED
  BY <1>2, <1>3, MovesTyped

LEMMA ProceedKeepsTyped ==
  ASSUME TickTyped, Running, Proceed, StackFits(stack'), KeepBytes
  PROVE  TickTyped'
<1>1. MemoryFits(memory') /\ Sizeable(returnData')
  BY MemoryStaysTyped DEF KeepBytes
<1>2. QED
  BY <1>1, ProceedTyped

LEMMA FetchedRuns == \A ops : Fetched(ops) => Running /\ Opcode \in ops
  BY DEF Fetched

LEMMA StopTyped == ASSUME TickTyped, Stop PROVE TickTyped'
<1>1. <<>> \in Seq(Byte) /\ "returned" \in Outcomes
  BY DEF Outcomes
<1>2. QED
  BY <1>1, EndTyped DEF Stop

LEMMA WordInstructionTyped == ASSUME TickTyped, WordInstruction PROVE TickTyped'
<1> DEFINE w == IF Opcode \in ArithmeticOps
                THEN ArithmeticResult(Opcode, Arg(0), Arg(1), Arg(2))
                ELSE LogicResult(Opcode, Arg(0), Arg(1))
<1>1. Fetched(WordOps) /\ Push(w) /\ Proceed /\ KeepBytes
  BY DEF WordInstruction
<1>2. Arg(0) \in Word /\ Arg(1) \in Word /\ Arg(2) \in Word
  BY ArgType
<1>3. Opcode \in ArithmeticOps \/ Opcode \in LogicOps
  BY <1>1, FetchedRuns DEF WordOps
<1>4. w \in Word
  <2>1. CASE Opcode \in ArithmeticOps
    <3>1. ArithmeticResult(Opcode, Arg(0), Arg(1), Arg(2)) \in Word
      BY <1>2, <2>1, ArithmeticTyped
    <3>2. QED
      BY <2>1, <3>1
  <2>2. CASE Opcode \notin ArithmeticOps
    <3>1. LogicResult(Opcode, Arg(0), Arg(1)) \in Word
      BY <1>2, <1>3, <2>2, LogicTyped
    <3>2. QED
      BY <2>2, <3>1
  <2>3. QED
    BY <2>1, <2>2
<1> HIDE DEF w
<1>5. StackFits(stack')
  BY <1>1, <1>4, PushFits
<1>6. QED
  BY <1>1, <1>5, FetchedRuns, ProceedKeepsTyped

LEMMA EnvironmentType == Environment \subseteq Word /\ Unknown \subseteq Byte
  BY TickAssumption DEF TickAssumption

LEMMA OutsideBytes ==
  /\ \A bytes \in ForeignCodes : Sizeable(bytes) /\ bytes \in Seq(Byte) /\ Len(bytes) \in Word
  /\ \A answer \in Answers : Sizeable(answer.data) /\ answer.data \in Seq(Byte)
<1>1. \A bytes \in ForeignCodes : Sizeable(bytes)
  BY TickAssumption DEF TickAssumption
<1>2. \A answer \in Answers : Sizeable(answer.data)
  BY TickAssumption DEF TickAssumption
<1>3. QED
  BY <1>1, <1>2, SizesAreWords DEF Sizeable

LEMMA SourceTyped == ASSUME TickTyped, Source PROVE TickTyped'
<1>1. PICK w \in Environment : Push(w)
  BY DEF Source
<1>2. Fetched(SourceOps) /\ Proceed /\ KeepBytes
  BY DEF Source
<1>3. StackFits(stack')
  BY <1>1, <1>2, EnvironmentType, PushFits
<1>4. QED
  BY <1>2, <1>3, FetchedRuns, ProceedKeepsTyped

LEMMA ExpandedFits == ASSUME TickTyped, Opcode \in Touching, Granted PROVE MemoryFits(Expanded)
  BY ExpandedType DEF MemoryFits

LEMMA QueryTyped == ASSUME TickTyped, Query PROVE TickTyped'
<1>1. Fetched(QueryOps) /\ Granted /\ Proceed /\ returnData' = returnData
  BY DEF Query
<1>2. PICK w \in Word : Push(w)
  <2>1. CASE Opcode = 59
    BY <2>1, OutsideBytes DEF Query
  <2>2. CASE Opcode # 59
    BY <2>2, EnvironmentType DEF Query
  <2>3. QED
    BY <2>1, <2>2
<1>3. MemoryFits(memory')
  <2>1. CASE Opcode = 32
    <3>1. MemoryFits(Expanded)
      BY <1>1, <2>1, ExpandedFits DEF Touching
    <3>2. memory' = Expanded
      BY <2>1 DEF Query
    <3>3. QED
      BY <3>1, <3>2
  <2>2. CASE Opcode # 32
    BY <2>2, MemoryStaysTyped DEF Query
  <2>3. QED
    BY <2>1, <2>2
<1>4. StackFits(stack')
  BY <1>1, <1>2, PushFits
<1>5. Sizeable(returnData')
  BY <1>1, MemoryStaysTyped
<1>6. QED
  BY <1>1, <1>3, <1>4, <1>5, FetchedRuns, ProceedTyped

LEMMA MeasureTyped == ASSUME TickTyped, Measure PROVE TickTyped'
<1> DEFINE w == CASE Opcode = 54 -> Len(calldata)
                  [] Opcode = 56 -> Len(code)
                  [] Opcode = 61 -> Len(returnData)
                  [] Opcode = 88 -> pc
                  [] Opcode = 89 -> Len(memory)
<1>1. Fetched({54, 56, 61, 88, 89}) /\ Push(w) /\ Proceed /\ KeepBytes
  BY DEF Measure
<1>2. Running /\ Opcode \in {54, 56, 61, 88, 89}
  BY <1>1, FetchedRuns
<1>3. Len(calldata) \in Word /\ Len(code) \in Word /\ Len(returnData) \in Word
  BY SizesAreWords DEF TickTyped
<1>4. pc \in Word
  BY <1>2, <1>3, OpcodeIsByte, WordModType DEF Word
<1>5. Len(memory) \in Word
  <2>1. Len(memory) \in Nat /\ Len(memory) <= MaxMemory
    BY MemoryStaysTyped DEF MemoryFits
  <2>2. QED
    BY <2>1, SizesType, WordModType DEF Word
<1>6. w \in Word
  <2> DEFINE op == Opcode
  <2>1. op \in {54, 56, 61, 88, 89}
    BY <1>2
  <2> HIDE DEF op
  <2>2. QED
    BY <1>3, <1>4, <1>5, <2>1 DEF op
<1> HIDE DEF w
<1>7. StackFits(stack')
  BY <1>1, <1>6, PushFits
<1>8. QED
  BY <1>1, <1>2, <1>7, ProceedKeepsTyped

LEMMA PaddedType ==
  ASSUME NEW bytes \in Seq(Byte), NEW offset \in Nat, NEW n \in Nat
  PROVE  Padded(bytes, offset, n) \in Seq(Byte) /\ Len(Padded(bytes, offset, n)) = n
<1>1. 0 \in Byte
  BY DEF Byte
<1>2. \A i \in 1 .. n : (IF offset + i <= Len(bytes) THEN bytes[offset + i] ELSE 0) \in Byte
  BY <1>1
<1>3. QED
  BY <1>2 DEF Padded

LEMMA CalldataLoadTyped == ASSUME TickTyped, CalldataLoad PROVE TickTyped'
<1> DEFINE w == IF Arg(0) >= Len(calldata) THEN 0
                ELSE WordOf(Padded(calldata, Arg(0), WordBytes))
<1>1. Fetched({53}) /\ Push(w) /\ Proceed /\ KeepBytes
  BY DEF CalldataLoad
<1>2. w \in Word
  <2>1. calldata \in Seq(Byte)
    BY DEF TickTyped, TickTypeOK, Bytes
  <2>2. Arg(0) \in Nat
    BY ArgType, WordInts
  <2>3. WordBytes \in Nat
    BY WordAssumption
  <2>4. WordOf(Padded(calldata, Arg(0), WordBytes)) \in Word
    BY <2>1, <2>2, <2>3, PaddedType, WordOfType
  <2>5. 0 \in Word
    BY WordModType DEF Word
  <2>6. QED
    BY <2>4, <2>5
<1> HIDE DEF w
<1>3. StackFits(stack')
  BY <1>1, <1>2, PushFits
<1>4. QED
  BY <1>1, <1>3, FetchedRuns, ProceedKeepsTyped

LEMMA DiscardTyped == ASSUME TickTyped, Discard PROVE TickTyped'
<1>1. Fetched({80, 85, 91, 93}) /\ PopOnly /\ Proceed /\ KeepBytes
  BY DEF Discard
<1>2. StackFits(stack')
  BY <1>1, PopFits
<1>3. QED
  BY <1>1, <1>2, FetchedRuns, ProceedKeepsTyped

LEMMA PushDataTyped == ASSUME TickTyped, PushData PROVE TickTyped'
<1> DEFINE n == Opcode - 95
           missing == n - Lesser(n, Len(code) - pc - 1)
           known == Part(code, pc + 1, n - missing)
<1>1. Fetched(PushOps) /\ pc' = pc + 1 + n
      /\ UNCHANGED <<code, calldata, outcome, output>> /\ KeepBytes
  BY DEF PushData
<1>2. PICK tail \in [1 .. missing -> Unknown] : Push(WordOf(known \o tail))
  BY DEF PushData
<1>3. pc \in Nat /\ pc < Len(code) /\ Len(code) \in Nat /\ code \in Seq(Byte)
      /\ WordBytes \in Nat /\ n \in 0 .. WordBytes
  BY SMTT(30), <1>1, FetchedRuns, OpcodeIsByte, WordBytesType
     DEF PushOps, TickTyped, TickTypeOK, Bytes
<1> HIDE DEF n
<1>4. missing \in 0 .. n /\ pc + 1 + (n - missing) <= Len(code)
  <2> DEFINE x == Len(code) - pc - 1
  <2>1. x \in Nat /\ n \in Nat /\ pc + 1 + x = Len(code)
    BY <1>3
  <2> HIDE DEF x
  <2>2. Lesser(n, x) \in Nat /\ Lesser(n, x) <= n /\ Lesser(n, x) <= x
    BY <2>1 DEF Lesser
  <2>3. missing = n - Lesser(n, x)
    BY DEF x
  <2> HIDE DEF missing
  <2>4. QED
    BY <1>3, <2>1, <2>2, <2>3
<1> HIDE DEF missing
<1>5. tail \in Seq(Byte) /\ Len(tail) = missing
  <2>1. \A i \in 1 .. missing : tail[i] \in Byte
    BY EnvironmentType
  <2>2. missing \in Nat /\ tail = [i \in 1 .. missing |-> tail[i]]
    BY <1>3, <1>4
  <2>3. QED
    BY <2>1, <2>2
<1>6. known \in Seq(Byte) /\ Len(known) = n - missing
  <2>1. pc + 1 \in Nat /\ n - missing \in Nat
    BY <1>3, <1>4
  <2>2. QED
    BY <1>3, <1>4, <2>1, PartType
<1>7. WordOf(known \o tail) \in Word
  <2>1. known \o tail \in Seq(Byte) /\ Len(known \o tail) = Len(known) + Len(tail)
    BY <1>5, <1>6, ConcatIsSeq
  <2>2. Len(known \o tail) <= WordBytes
    BY <1>3, <1>4, <1>5, <1>6, <2>1
  <2>3. QED
    BY <2>1, <2>2, WordOfType
<1>8. StackFits(stack')
  BY <1>1, <1>2, <1>7, PushFits
<1>9. pc' \in 0 .. (Len(code) + WordBytes)
  BY <1>1, <1>3
<1>10. MemoryFits(memory') /\ Sizeable(returnData')
  BY <1>1, MemoryStaysTyped DEF KeepBytes
<1>11. QED
  BY <1>1, <1>8, <1>9, <1>10, MovesTyped

LEMMA DuplicateTyped == ASSUME TickTyped, Duplicate PROVE TickTyped'
<1> DEFINE k == Opcode - 127
<1>1. Fetched(DupOps) /\ Len(stack) >= k /\ stack' = <<stack[k]>> \o stack
      /\ Proceed /\ KeepBytes
  BY DEF Duplicate
<1>2. stack \in Seq(Word) /\ Len(stack) \in Nat /\ Len(stack) <= MaxStack
  BY <1>1, StackIsTyped DEF Fetched, Running
<1>3. k \in 1 .. Len(stack)
  BY SMTT(30), <1>1, <1>2, FetchedRuns DEF DupOps
<1> HIDE DEF k
<1>4. stack[k] \in Word
  BY <1>2, <1>3
<1>5. stack' \in Seq(Word) /\ Len(stack') = 1 + Len(stack)
  BY <1>1, <1>2, <1>4
<1>6. StackFits(stack')
  BY <1>2, <1>5, SizesType DEF StackFits
<1>7. QED
  BY <1>1, <1>6, FetchedRuns, ProceedKeepsTyped

LEMMA SwapNeeds == Opcode \in SwapOps => Needs(Opcode) = Opcode - 142
  BY DEF SwapOps, LogOps, Needs, WordOps, ArithmeticOps, LogicOps

LEMMA SwapTyped == ASSUME TickTyped, Swap PROVE TickTyped'
<1> DEFINE k == Opcode - 142
<1>1. Fetched(SwapOps) /\ stack' = [stack EXCEPT ![1] = stack[k], ![k] = stack[1]]
      /\ Proceed /\ KeepBytes
  BY DEF Swap
<1>2. stack \in Seq(Word) /\ Len(stack) \in Nat /\ Len(stack) <= MaxStack
  BY <1>1, StackIsTyped DEF Fetched, Running
<1>3. k \in 1 .. Len(stack) /\ 1 \in 1 .. Len(stack)
  <2>1. Opcode \in 144 .. 159
    BY <1>1, FetchedRuns DEF SwapOps
  <2>2. Len(stack) >= k
    BY <1>1, SwapNeeds, FetchedRuns DEF Fetched
  <2>3. QED
    BY <1>2, <2>1, <2>2
<1> HIDE DEF k
<1>4. stack[k] \in Word /\ stack[1] \in Word
  BY <1>2, <1>3
<1>5. stack' \in Seq(Word) /\ Len(stack') = Len(stack)
  <2>1. stack' = [i \in 1 .. Len(stack) |-> IF i = k THEN stack[1]
                                            ELSE IF i = 1 THEN stack[k] ELSE stack[i]]
    <3>1. stack = [i \in 1 .. Len(stack) |-> stack[i]]
      BY <1>2
    <3>2. QED
      BY <1>1, <1>3, <3>1
  <2>2. \A i \in 1 .. Len(stack) : stack'[i] \in Word
    BY <1>2, <1>4, <2>1
  <2>3. QED
    BY <1>2, <2>1, <2>2
<1>6. StackFits(stack')
  BY <1>2, <1>5, SizesType DEF StackFits
<1>7. QED
  BY <1>1, <1>6, FetchedRuns, ProceedKeepsTyped

LEMMA JumpTyped == ASSUME TickTyped, Jump PROVE TickTyped'
<1>1. Fetched({86, 87}) /\ PopOnly /\ KeepBytes /\ UNCHANGED <<code, calldata, outcome, output>>
  BY DEF Jump
<1>2. StackFits(stack')
  BY <1>1, PopFits
<1>3. pc \in Nat /\ pc < Len(code) /\ Len(code) \in Nat /\ WordBytes \in Nat
  BY <1>1, FetchedRuns, OpcodeIsByte, WordAssumption
<1>4. pc' = pc + 1 \/ pc' \in 0 .. (Len(code) - 1)
  BY DEF Jump, Destination
<1>5. pc' \in 0 .. (Len(code) + WordBytes)
  BY <1>3, <1>4
<1>6. MemoryFits(memory') /\ Sizeable(returnData')
  BY <1>1, MemoryStaysTyped DEF KeepBytes
<1>7. QED
  BY <1>1, <1>2, <1>5, <1>6, MovesTyped

-----------------------------------------------------------------------------
(* Instructions that write memory *)

\* The ranges that an instruction has in memory.
LEMMA TouchedRange ==
  ASSUME TickTyped, Opcode \in Touching, Granted, NEW o, NEW n, <<o, n>> \in Touched
  PROVE  ToInt(o) \in Nat /\ ToInt(n) \in Nat /\ ToInt(o) + ToInt(n) <= Len(Expanded)
<1> DEFINE r == <<o, n>>
<1>1. r \in Touched /\ r[1] = o /\ r[2] = n
  OBVIOUS
<1> HIDE DEF r
<1>2. /\ ToInt(r[1]) \in Nat /\ ToInt(r[2]) \in Nat
      /\ ToInt(r[1]) + ToInt(r[2]) <= Len(Expanded)
  BY <1>1, ExpandedType
<1>3. QED
  BY <1>1, <1>2

LEMMA CopyRange ==
  ASSUME TickTyped, Opcode \in CopyOps, Granted
  PROVE  /\ ToInt(CopyArg(0)) \in Nat /\ ToInt(CopyArg(2)) \in Nat
         /\ ToInt(CopyArg(0)) + ToInt(CopyArg(2)) <= Len(Expanded)
<1>1. <<CopyArg(0), CopyArg(2)>> \in Touched
  BY DEF Touched, CopyOps, LogOps, CallOps
<1>2. Opcode \in Touching
  BY DEF Touching
<1>3. QED
  BY <1>1, <1>2, TouchedRange

LEMMA CallRanges ==
  ASSUME TickTyped, Opcode \in CallOps, Granted
  PROVE  /\ ArgsOffset \in Nat /\ ArgsSize \in Nat /\ ArgsOffset + ArgsSize <= Len(Expanded)
         /\ RetOffset \in Nat /\ RetSize \in Nat /\ RetOffset + RetSize <= Len(Expanded)
<1>1. <<CallArg(2), CallArg(3)>> \in Touched /\ <<CallArg(4), CallArg(5)>> \in Touched
  BY DEF Touched, CopyOps, LogOps, CallOps
<1>2. Opcode \in Touching
  BY DEF Touching
<1>3. QED
  BY <1>1, <1>2, TouchedRange DEF ArgsOffset, ArgsSize, RetOffset, RetSize

\* Memory as an instruction leaves it that writes bytes to it.
LEMMA WrittenFits ==
  ASSUME TickTyped, Opcode \in Touching, Granted, NEW offset \in Int, NEW what \in Seq(Byte)
  PROVE  LET m == Written(Expanded, offset, what)
         IN  /\ MemoryFits(m) /\ Len(m) = Len(Expanded)
             /\ \A i \in 1 .. Len(m) :
                  m[i] = IF i - offset \in 1 .. Len(what) THEN what[i - offset] ELSE At(memory, i)
<1> DEFINE e == Expanded
           m == Written(e, offset, what)
<1>1. /\ e \in Seq(Byte) /\ Len(e) \in Nat /\ Len(e) <= MaxMemory
      /\ \A i \in 1 .. Len(e) : e[i] = At(memory, i)
  BY ExpandedType
<1> HIDE DEF e
<1>2. /\ m \in Seq(Byte) /\ Len(m) = Len(e)
      /\ \A i \in 1 .. Len(e) :
           m[i] = IF i - offset \in 1 .. Len(what) THEN what[i - offset] ELSE e[i]
  BY <1>1, WrittenType
<1> HIDE DEF m
<1>3. /\ MemoryFits(m) /\ Len(m) = Len(e)
      /\ \A i \in 1 .. Len(m) :
           m[i] = IF i - offset \in 1 .. Len(what) THEN what[i - offset] ELSE At(memory, i)
  BY <1>1, <1>2 DEF MemoryFits
<1>4. QED
  BY <1>3 DEF m, e

LEMMA MemoryAccessTyped == ASSUME TickTyped, MemoryAccess PROVE TickTyped'
<1>1. Fetched({81, 82, 83}) /\ Granted /\ Proceed /\ returnData' = returnData
  BY DEF MemoryAccess
<1>2. Opcode \in {81, 82, 83} /\ Opcode \in Touching
  BY <1>1, FetchedRuns DEF Touching
<1>3. Arg(0) \in Word /\ Arg(1) \in Word
  BY ArgType
<1>4. ToInt(Arg(0)) \in Int
  BY <1>3, ToIntType
<1>5. MemoryFits(memory')
  <2>1. CASE Opcode = 81
    <3>1. memory' = Expanded
      BY <2>1 DEF MemoryAccess
    <3>2. QED
      BY <1>1, <1>2, <3>1, ExpandedFits
  <2>2. CASE Opcode = 82
    <3>1. memory' = Written(Expanded, ToInt(Arg(0)), BytesOf(Arg(1)))
      BY <2>2 DEF MemoryAccess
    <3>2. BytesOf(Arg(1)) \in Seq(Byte)
      BY <1>3, BytesOfType
    <3>3. QED
      BY <1>1, <1>2, <1>4, <3>1, <3>2, WrittenFits
  <2>3. CASE Opcode = 83
    <3>1. memory' = Written(Expanded, ToInt(Arg(0)), <<Arg(1) % 256>>)
      BY <2>3 DEF MemoryAccess
    <3>2. Arg(1) % 256 \in Byte
      BY <1>3, WordInts DEF Byte
    <3>3. <<Arg(1) % 256>> \in Seq(Byte)
      BY <3>2
    <3>4. QED
      BY <1>1, <1>2, <1>4, <3>1, <3>3, WrittenFits
  <2>4. QED
    BY <1>2, <2>1, <2>2, <2>3
<1>6. StackFits(stack')
  <2>1. CASE Opcode = 81
    <3>1. memory' = Expanded /\ Push(WordOf(Part(memory', ToInt(Arg(0)), WordBytes)))
      BY <2>1 DEF MemoryAccess
    <3>2. <<Arg(0), WordBytes>> \in Touched
      BY <2>1 DEF Touched, CopyOps, LogOps, CallOps
    <3>3. ToInt(WordBytes) = WordBytes
      <4>1. WordBytes \in Word /\ 2 * WordBytes < IntMod
        <5>1. WordBytes \in Nat /\ WordBytes <= MaxMemory
          BY WordAssumption, TickAssumption DEF TickAssumption
        <5>2. QED
          BY <5>1, SizesType, WordModType DEF Word
      <4>2. QED
        BY <4>1, ToIntOfFit
    <3>4. /\ ToInt(Arg(0)) \in Nat /\ WordBytes \in Nat
          /\ ToInt(Arg(0)) + WordBytes <= Len(Expanded) /\ Expanded \in Seq(Byte)
      BY <1>1, <1>2, <3>2, <3>3, TouchedRange, ExpandedType
    <3>5. /\ Part(Expanded, ToInt(Arg(0)), WordBytes) \in Seq(Byte)
          /\ Len(Part(Expanded, ToInt(Arg(0)), WordBytes)) = WordBytes
      BY <3>4, PartType
    <3>6. WordOf(Part(Expanded, ToInt(Arg(0)), WordBytes)) \in Word
      BY <3>4, <3>5, WordOfType
    <3>7. QED
      BY <1>1, <3>1, <3>6, PushFits
  <2>2. CASE Opcode # 81
    BY <1>1, <2>2, PopFits DEF MemoryAccess
  <2>3. QED
    BY <2>1, <2>2
<1>7. Sizeable(returnData')
  BY <1>1, MemoryStaysTyped
<1>8. QED
  BY <1>1, <1>5, <1>6, <1>7, FetchedRuns, ProceedTyped

LEMMA LogEventTyped == ASSUME TickTyped, LogEvent PROVE TickTyped'
<1>1. Fetched(LogOps) /\ Granted /\ PopOnly /\ Proceed /\ memory' = Expanded
      /\ returnData' = returnData
  BY DEF LogEvent
<1>2. Opcode \in Touching
  BY <1>1, FetchedRuns DEF Touching
<1>3. MemoryFits(memory') /\ Sizeable(returnData')
  BY <1>1, <1>2, ExpandedFits, MemoryStaysTyped
<1>4. StackFits(stack')
  BY <1>1, PopFits
<1>5. QED
  BY <1>1, <1>3, <1>4, FetchedRuns, ProceedTyped

\* What a copy yields, byte by byte where the ranges are apart.
LEMMA CopiedWithinType ==
  ASSUME NEW bytes \in Seq(Byte), NEW to \in Int, NEW from \in Nat, NEW n \in Nat,
         from + n <= Len(bytes), NEW what \in CopiedWithin(bytes, to, from, n)
  PROVE  /\ what \in Seq(Byte) /\ Len(what) = n
         /\ Apart(from, to, n) => \A i \in 1 .. n : what[i] = bytes[from + i]
<1> DEFINE gap == to - from
           up == [i \in 1 .. n |-> bytes[from + 1 + ((i - 1) % gap)]]
           down == [i \in 1 .. n |-> bytes[from + n - ((n - i) % (-gap))]]
<1>1. gap \in Int
  OBVIOUS
<1>2. CASE what = Part(bytes, from, n)
  BY <1>2, PartType
<1>3. CASE gap \in 1 .. (n - 1) /\ what = up
  <2>1. \A i \in 1 .. n : bytes[from + 1 + ((i - 1) % gap)] \in Byte
    <3> SUFFICES ASSUME NEW i \in 1 .. n
                 PROVE  bytes[from + 1 + ((i - 1) % gap)] \in Byte
      OBVIOUS
    <3>1. (i - 1) % gap \in 0 .. (gap - 1)
      <4>1. i - 1 \in Int /\ gap \in Nat \ {0}
        BY <1>3
      <4> HIDE DEF gap
      <4>2. QED
        BY <4>1, DivMod
    <3> HIDE DEF gap
    <3>2. from + 1 + ((i - 1) % gap) \in 1 .. Len(bytes)
      BY <1>3, <3>1
    <3>3. QED
      BY <3>2
  <2>2. ~Apart(from, to, n)
    BY <1>3 DEF Apart
  <2>3. what = [i \in 1 .. n |-> bytes[from + 1 + ((i - 1) % gap)]]
    BY <1>3
  <2> HIDE DEF gap
  <2>4. what \in Seq(Byte) /\ Len(what) = n
    BY SMTT(30), <2>1, <2>3
  <2>5. QED
    BY <2>2, <2>4
<1>4. CASE -gap \in 1 .. (n - 1) /\ what = down
  <2> DEFINE back == -gap
  <2>1. \A i \in 1 .. n : bytes[from + n - ((n - i) % back)] \in Byte
    <3> SUFFICES ASSUME NEW i \in 1 .. n
                 PROVE  bytes[from + n - ((n - i) % back)] \in Byte
      OBVIOUS
    <3>1. (n - i) % back \in 0 .. (back - 1)
      <4>1. n - i \in Int /\ back \in Nat \ {0}
        BY <1>4
      <4> HIDE DEF back
      <4>2. QED
        BY <4>1, DivMod
    <3>2. back \in 1 .. (n - 1)
      BY <1>4
    <3> HIDE DEF back
    <3>3. from + n - ((n - i) % back) \in 1 .. Len(bytes)
      BY <3>1, <3>2
    <3>4. QED
      BY <3>3
  <2>2. ~Apart(from, to, n)
    BY <1>4 DEF Apart
  <2>3. what = [i \in 1 .. n |-> bytes[from + n - ((n - i) % back)]]
    BY <1>4
  <2> HIDE DEF gap, back
  <2>4. what \in Seq(Byte) /\ Len(what) = n
    BY <2>1, <2>3
  <2>5. QED
    BY <2>2, <2>4
<1>5. QED
  BY <1>2, <1>3, <1>4 DEF CopiedWithin

LEMMA CutoffType ==
  ASSUME NEW source \in Seq(Byte), NEW from \in Nat, NEW size \in Nat
  PROVE  LET cutoff == Cutoff(source, from, size)
         IN  /\ cutoff \in 0 .. size
             /\ cutoff > 0 => from + cutoff <= Len(source)
             /\ cutoff < size => from + cutoff >= Len(source)
<1>1. Len(source) \in Nat
  OBVIOUS
<1>2. QED
  BY <1>1 DEF Cutoff, Lesser

\* The bytes a copy writes: as many as asked for, the source's and then zeros.
LEMMA CopiedBytesType ==
  ASSUME NEW source \in Seq(Byte), NEW to \in Int, NEW from \in Nat, NEW size \in Nat,
         NEW what \in CopiedBytes(source, to, from, size)
  PROVE  /\ what \in Seq(Byte) /\ Len(what) = size
         /\ (Opcode = 94 => Apart(from, to, size))
            => \A i \in 1 .. size : what[i] = At(source, from + i)
<1> DEFINE cutoff == Cutoff(source, from, size)
           z == Zeros(size - cutoff)
<1>1. /\ cutoff \in 0 .. size
      /\ cutoff > 0 => from + cutoff <= Len(source)
      /\ cutoff < size => from + cutoff >= Len(source)
  BY CutoffType
<1>2. PICK c : /\ what = c \o z
               /\ c \in IF Opcode = 94 THEN CopiedWithin(source, to, from, cutoff)
                        ELSE {Part(source, from, cutoff)}
  BY DEF CopiedBytes
<1> HIDE DEF cutoff
<1>3. Apart(from, to, size) => Apart(from, to, cutoff)
  BY <1>1 DEF Apart
<1>4. /\ c \in Seq(Byte) /\ Len(c) = cutoff
      /\ (Opcode = 94 => Apart(from, to, size)) => \A i \in 1 .. cutoff : c[i] = source[from + i]
  <2>1. CASE cutoff > 0
    <3>1. cutoff \in Nat /\ from + cutoff <= Len(source)
      BY <1>1, <2>1
    <3>2. CASE Opcode = 94
      <4>1. c \in CopiedWithin(source, to, from, cutoff)
        BY <1>2, <3>2
      <4>2. /\ c \in Seq(Byte) /\ Len(c) = cutoff
            /\ Apart(from, to, cutoff) => \A i \in 1 .. cutoff : c[i] = source[from + i]
        BY <3>1, <4>1, CopiedWithinType
      <4>3. QED
        BY <1>3, <3>2, <4>2
    <3>3. CASE Opcode # 94
      <4>1. c = Part(source, from, cutoff)
        BY <1>2, <3>3
      <4>2. /\ Part(source, from, cutoff) \in Seq(Byte)
            /\ Len(Part(source, from, cutoff)) = cutoff
            /\ \A i \in 1 .. cutoff : Part(source, from, cutoff)[i] = source[from + i]
        BY <3>1, PartType
      <4>3. QED
        BY <4>1, <4>2
    <3>4. QED
      BY <3>2, <3>3
  <2>2. CASE cutoff = 0
    <3>1. Part(source, from, cutoff) = <<>>
      BY <2>2 DEF Part
    <3>2. 1 .. (cutoff - 1) = {}
      BY <2>2
    <3>3. c = <<>>
      BY <1>2, <3>1, <3>2 DEF CopiedWithin
    <3>4. QED
      BY <2>2, <3>3
  <2>3. QED
    BY <1>1, <2>1, <2>2
<1>5. z \in Seq(Byte) /\ Len(z) = size - cutoff /\ \A i \in 1 .. Len(z) : z[i] = 0
  <2> DEFINE k == size - cutoff
  <2>1. k \in Nat
    BY <1>1
  <2> HIDE DEF k
  <2>2. Zeros(k) \in Seq(Byte) /\ Len(Zeros(k)) = k
    <3>1. k \in Int /\ (k > 0 \/ k = 0)
      BY <2>1
    <3>2. Zeros(k) \in Seq(Byte) /\ Len(Zeros(k)) = IF k > 0 THEN k ELSE 0
      BY <3>1, ZerosType
    <3>3. QED
      BY <3>1, <3>2
  <2>3. \A i \in 1 .. k : Zeros(k)[i] = 0
    BY DEF Zeros
  <2>4. QED
    BY <2>2, <2>3 DEF k
<1> HIDE DEF z
<1>6. /\ c \o z \in Seq(Byte) /\ Len(c \o z) = Len(c) + Len(z)
      /\ \A i \in 1 .. (Len(c) + Len(z)) : (c \o z)[i] = IF i <= Len(c) THEN c[i] ELSE z[i - Len(c)]
  BY <1>4, <1>5, ConcatType
<1>7. ASSUME Opcode = 94 => Apart(from, to, size), NEW i \in 1 .. size
      PROVE  what[i] = At(source, from + i)
  <2>1. what[i] = IF i <= cutoff THEN c[i] ELSE z[i - cutoff]
    BY SMTT(30), <1>1, <1>2, <1>4, <1>5, <1>6
  <2>2. CASE i <= cutoff
    <3>1. i \in 1 .. cutoff /\ cutoff > 0
      BY <1>1, <2>2
    <3>2. c[i] = source[from + i] /\ from + i \in 1 .. Len(source)
      BY <1>1, <1>4, <1>7, <3>1
    <3>3. QED
      BY <2>1, <2>2, <3>2 DEF At
  <2>3. CASE ~(i <= cutoff)
    <3>1. i - cutoff \in 1 .. Len(z) /\ from + i \notin 1 .. Len(source)
      BY <1>1, <1>5, <2>3
    <3>2. QED
      BY <1>5, <2>1, <2>3, <3>1 DEF At
  <2>4. QED
    BY <2>2, <2>3
<1>8. what \in Seq(Byte) /\ Len(what) = size
  <2>1. what = c \o z /\ Len(c) + Len(z) = size
    BY <1>1, <1>2, <1>4, <1>5
  <2>2. QED
    BY <1>6, <2>1
<1>9. QED
  BY <1>7, <1>8

LEMMA CopySourceType ==
  ASSUME TickTyped, Opcode \in CopyOps, Granted, NEW source \in CopySources
  PROVE  source \in Seq(Byte)
<1>1. calldata \in Seq(Byte) /\ code \in Seq(Byte) /\ returnData \in Seq(Byte)
  BY DEF TickTyped, TickTypeOK, Bytes
<1>2. Opcode \in Touching
  BY DEF Touching
<1>3. Expanded \in Seq(Byte)
  BY <1>2, ExpandedType
<1>4. \A bytes \in ForeignCodes : bytes \in Seq(Byte)
  BY OutsideBytes
<1>5. Opcode \in {55, 57, 60, 62, 94}
  BY DEF CopyOps
<1>6. QED
  BY <1>1, <1>3, <1>4, <1>5 DEF CopySources

\* A copy that is defined writes as many bytes as it was asked for.
LEMMA CopySteps ==
  ASSUME TickTyped, Copy, ~Undefined
  PROVE  /\ PopOnly /\ Proceed /\ returnData' = returnData
         /\ \E source \in CopySources : \E what \in Seq(Byte) :
              /\ memory' = Written(Expanded, ToInt(CopyArg(0)), what)
              /\ Len(what) = ToInt(CopyArg(2))
              /\ (/\ ToInt(CopyArg(1)) >= 0
                  /\ Opcode = 94 => Apart(ToInt(CopyArg(1)), ToInt(CopyArg(0)), ToInt(CopyArg(2))))
                 => \A i \in 1 .. Len(what) : what[i] = At(source, ToInt(CopyArg(1)) + i)
<1> DEFINE to   == ToInt(CopyArg(0))
           from == ToInt(CopyArg(1))
           size == ToInt(CopyArg(2))
<1>1. Fetched(CopyOps) /\ Granted /\ Opcode \in CopyOps
  BY FetchedRuns DEF Copy
<1>2. PICK source \in CopySources :
        /\ ~(from < 0 /\ size > 0)
        /\ \E what \in IF size = 0 THEN {<<>>} ELSE CopiedBytes(source, to, from, size) :
             memory' = Written(Expanded, to, what)
        /\ PopOnly /\ Proceed /\ UNCHANGED returnData
  BY DEF Copy
<1>3. PICK what : /\ what \in IF size = 0 THEN {<<>>} ELSE CopiedBytes(source, to, from, size)
                  /\ memory' = Written(Expanded, to, what)
  BY <1>2
<1>4. to \in Int /\ from \in Int /\ size \in Nat
  BY <1>1, CopyRange, ShiftedArgs, ToIntType
<1>5. source \in Seq(Byte)
  BY <1>1, CopySourceType
<1> HIDE DEF to, from, size
<1>6. /\ what \in Seq(Byte) /\ Len(what) = size
      /\ (from >= 0 /\ (Opcode = 94 => Apart(from, to, size)))
         => \A i \in 1 .. Len(what) : what[i] = At(source, from + i)
  <2>1. CASE size = 0
    <3>1. what = <<>>
      BY <1>3, <2>1
    <3>2. what \in Seq(Byte) /\ Len(what) = 0
      BY <3>1
    <3>3. 1 .. Len(what) = {}
      BY <3>2
    <3>4. QED
      BY <2>1, <3>2, <3>3
  <2>2. CASE size # 0
    <3>1. from \in Nat /\ what \in CopiedBytes(source, to, from, size)
      BY <1>2, <1>3, <1>4, <2>2
    <3>2. /\ what \in Seq(Byte) /\ Len(what) = size
          /\ (Opcode = 94 => Apart(from, to, size))
             => \A i \in 1 .. size : what[i] = At(source, from + i)
      BY <1>4, <1>5, <3>1, CopiedBytesType
    <3>3. QED
      BY <3>2
  <2>3. QED
    BY <2>1, <2>2
<1>7. QED
  BY <1>2, <1>3, <1>6 DEF to, from, size

LEMMA CopyTyped == ASSUME TickTyped, Copy PROVE TickTyped'
<1>1. CASE Undefined
  BY <1>1, UndefinedTyped
<1>2. CASE ~Undefined
  <2>1. Fetched(CopyOps) /\ Granted /\ Opcode \in CopyOps /\ Opcode \in Touching
    BY FetchedRuns DEF Copy, Touching
  <2>2. PopOnly /\ Proceed /\ returnData' = returnData
    BY <1>2, CopySteps
  <2>3. PICK what \in Seq(Byte) : memory' = Written(Expanded, ToInt(CopyArg(0)), what)
    BY <1>2, CopySteps
  <2>4. ToInt(CopyArg(0)) \in Int
    BY ShiftedArgs, ToIntType
  <2>5. MemoryFits(memory')
    BY <2>1, <2>3, <2>4, WrittenFits
  <2>6. Sizeable(returnData')
    BY <2>2, MemoryStaysTyped
  <2>7. StackFits(stack')
    BY <2>1, <2>2, PopFits
  <2>8. QED
    BY <2>1, <2>2, <2>5, <2>6, <2>7, FetchedRuns, ProceedTyped
<1>3. QED
  BY <1>1, <1>2

\* The ranges of a copy whose operands fit are the operands.
LEMMA CopyIsExact ==
  ASSUME TickTyped, Copy, outcome' = "running",
         \A i \in 0 .. 2 : Fits(CopyArg(i)),
         Opcode = 94 => Apart(Arg(0), Arg(1), Arg(2))
  PROVE  \E source \in IF Opcode = 94 THEN {memory} ELSE CopySources :
           \A i \in 1 .. Len(memory') :
             memory'[i] = IF i - CopyArg(0) \in 1 .. CopyArg(2)
                          THEN At(source, CopyArg(1) + i - CopyArg(0))
                          ELSE At(memory, i)
<1> DEFINE to   == CopyArg(0)
           from == CopyArg(1)
           size == CopyArg(2)
<1>1. Opcode \in CopyOps /\ Granted /\ Opcode \in Touching
  BY FetchedRuns DEF Copy, Touching
<1>2. ~Undefined
  BY DEF Undefined, End
<1>3. to \in Word /\ from \in Word /\ size \in Word
  BY ShiftedArgs
<1>4. ToInt(to) = to /\ ToInt(from) = from /\ ToInt(size) = size
  <2>1. Fits(to) /\ Fits(from) /\ Fits(size)
    OBVIOUS
  <2> HIDE DEF to, from, size
  <2>2. QED
    BY <1>3, <2>1, ToIntOfFit DEF Fits
<1>5. to \in Nat /\ from \in Nat /\ size \in Nat
  BY <1>3, WordInts
<1>6. Opcode = 94 => Apart(from, to, size)
  <2>1. CASE Opcode = 94
    <3>1. Flag(Opcode = 60) = 0
      BY <2>1 DEF Flag
    <3>2. to = Arg(0) /\ from = Arg(1) /\ size = Arg(2)
      BY <3>1 DEF CopyArg
    <3>3. Apart(to, from, size)
      BY <2>1, <3>2
    <3> HIDE DEF to, from, size
    <3>4. QED
      BY <3>3 DEF Apart
  <2>2. QED
    BY <2>1
<1>7. PICK source \in CopySources : \E what \in Seq(Byte) :
        /\ memory' = Written(Expanded, to, what)
        /\ Len(what) = size
        /\ \A i \in 1 .. Len(what) : what[i] = At(source, from + i)
  <2>1. PICK source \in CopySources : \E what \in Seq(Byte) :
          /\ memory' = Written(Expanded, ToInt(to), what)
          /\ Len(what) = ToInt(size)
          /\ (/\ ToInt(from) >= 0
              /\ Opcode = 94 => Apart(ToInt(from), ToInt(to), ToInt(size)))
             => \A i \in 1 .. Len(what) : what[i] = At(source, ToInt(from) + i)
    BY <1>2, CopySteps
  <2>2. ToInt(from) >= 0
    BY <1>4, <1>5
  <2> HIDE DEF to, from, size
  <2>3. QED
    BY <1>4, <1>6, <2>1, <2>2
<1>8. PICK what \in Seq(Byte) :
        /\ memory' = Written(Expanded, to, what)
        /\ Len(what) = size
        /\ \A i \in 1 .. Len(what) : what[i] = At(source, from + i)
  BY <1>7
<1> HIDE DEF to, from, size
<1>9. \A i \in 1 .. Len(memory') :
        memory'[i] = IF i - to \in 1 .. Len(what) THEN what[i - to] ELSE At(memory, i)
  <2> DEFINE m == Written(Expanded, to, what)
  <2>1. to \in Int
    BY <1>5
  <2>2. \A i \in 1 .. Len(m) :
          m[i] = IF i - to \in 1 .. Len(what) THEN what[i - to] ELSE At(memory, i)
    BY <1>1, <1>8, <2>1, WrittenFits
  <2>3. memory' = m
    BY <1>8
  <2> HIDE DEF m
  <2>4. QED
    BY <2>2, <2>3
<1>10. Len(memory') \in Nat
  <2>1. to \in Int
    BY <1>5
  <2>2. QED
    BY <1>1, <1>8, <2>1, WrittenFits DEF MemoryFits
<1>11. \A i \in 1 .. Len(memory') :
         memory'[i] = IF i - to \in 1 .. size THEN At(source, from + i - to) ELSE At(memory, i)
  <2> SUFFICES ASSUME NEW i \in 1 .. Len(memory')
               PROVE  memory'[i] = IF i - to \in 1 .. size THEN At(source, from + i - to)
                                   ELSE At(memory, i)
    OBVIOUS
  <2>1. from + (i - to) = from + i - to
    BY <1>5, <1>10
  <2>2. CASE i - to \in 1 .. size
    <3>1. memory'[i] = what[i - to]
      BY <1>8, <1>9, <2>2
    <3>2. what[i - to] = At(source, from + (i - to))
      BY <1>8, <2>2
    <3>3. QED
      BY <2>1, <2>2, <3>1, <3>2
  <2>3. CASE i - to \notin 1 .. size
    BY <1>8, <1>9, <2>3
  <2>4. QED
    BY <2>2, <2>3
<1>12. CASE Opcode # 94
  BY <1>11, <1>12 DEF to, from, size
<1>13. CASE Opcode = 94
  <2>1. source = Expanded
    BY <1>13 DEF CopySources
  <2>2. \A j \in Int : At(Expanded, j) = At(memory, j)
    <3> SUFFICES ASSUME NEW j \in Int PROVE At(Expanded, j) = At(memory, j)
      OBVIOUS
    <3>1. /\ \A i \in 1 .. Len(Expanded) : Expanded[i] = At(memory, i)
          /\ Len(Expanded) \in Nat /\ Len(memory) <= Len(Expanded)
      BY <1>1, ExpandedType
    <3>2. CASE j \in 1 .. Len(Expanded)
      BY <3>1, <3>2 DEF At
    <3>3. CASE j \notin 1 .. Len(Expanded)
      <4>1. Len(memory) \in Nat
        BY MemoryStaysTyped DEF MemoryFits
      <4>2. j \notin 1 .. Len(memory)
        BY <3>1, <3>3, <4>1
      <4>3. QED
        BY <3>3, <4>2 DEF At
    <3>4. QED
      BY <3>2, <3>3
  <2>3. \A i \in 1 .. Len(memory') : At(source, from + i - to) = At(memory, from + i - to)
    <3>1. \A i \in 1 .. Len(memory') : from + i - to \in Int
      BY <1>5, <1>10
    <3>2. QED
      BY <2>1, <2>2, <3>1
  <2>4. \A i \in 1 .. Len(memory') :
          memory'[i] = IF i - to \in 1 .. size THEN At(memory, from + i - to) ELSE At(memory, i)
    BY <1>11, <2>3
  <2>5. QED
    BY <1>13, <2>4 DEF to, from, size
<1>14. QED
  BY <1>12, <1>13

-----------------------------------------------------------------------------
(* Calls *)

LEMMA AnswerBytesType ==
  ASSUME NEW data \in Seq(Byte), NEW size \in Nat
  PROVE  LET n == Lesser(Len(data), size)
         IN  /\ n \in Nat /\ AnswerBytes(data, size) \in Seq(Byte)
             /\ Len(AnswerBytes(data, size)) = n
             /\ \A i \in 1 .. n : AnswerBytes(data, size)[i] = data[i]
<1> DEFINE n == Lesser(Len(data), size)
<1>1. n \in Nat /\ n <= Len(data) /\ 0 + n <= Len(data)
  BY DEF Lesser
<1>2. AnswerBytes(data, size) = Part(data, 0, n)
  BY DEF AnswerBytes
<1> HIDE DEF n
<1>3. 0 \in Nat
  OBVIOUS
<1>4. /\ Part(data, 0, n) \in Seq(Byte) /\ Len(Part(data, 0, n)) = n
      /\ \A i \in 1 .. n : Part(data, 0, n)[i] = data[0 + i]
  BY <1>1, <1>3, PartType
<1>5. \A i \in 1 .. n : 0 + i = i
  BY <1>1
<1>6. QED
  BY <1>1, <1>2, <1>4, <1>5 DEF n

LEMMA CallContractTyped == ASSUME TickTyped, CallContract PROVE TickTyped'
<1>1. Fetched(CallOps) /\ Granted /\ Proceed /\ Opcode \in CallOps /\ Opcode \in Touching
  BY FetchedRuns DEF CallContract, Touching
<1>2. PICK answer \in Answers :
        /\ memory' = Written(Expanded, RetOffset, AnswerBytes(answer.data, RetSize))
        /\ returnData' = answer.data
        /\ Push(Flag(answer.success))
  BY DEF CallContract, RetOffset, RetSize
<1>3. answer.data \in Seq(Byte) /\ Sizeable(answer.data)
  BY OutsideBytes
<1>4. AnswerBytes(answer.data, RetSize) \in Seq(Byte) /\ RetOffset \in Int
  BY <1>1, <1>3, CallRanges, AnswerBytesType
<1>5. MemoryFits(memory')
  BY <1>1, <1>2, <1>4, WrittenFits
<1>6. StackFits(stack')
  BY <1>1, <1>2, FlagsAreWords, PushFits
<1>7. Sizeable(returnData')
  BY <1>2, <1>3
<1>8. QED
  BY <1>1, <1>5, <1>6, <1>7, FetchedRuns, ProceedTyped

LEMMA CallAnswers ==
  ASSUME TickTyped, CallContract
  PROVE  \A i \in 1 .. Len(memory') :
           memory'[i] = IF i - RetOffset \in 1 .. RetSize /\ i - RetOffset <= Len(returnData')
                        THEN returnData'[i - RetOffset]
                        ELSE At(memory, i)
<1>1. Granted /\ Opcode \in CallOps /\ Opcode \in Touching
  BY FetchedRuns DEF CallContract, Touching
<1>2. PICK answer \in Answers :
        /\ memory' = Written(Expanded, RetOffset, AnswerBytes(answer.data, RetSize))
        /\ returnData' = answer.data
  BY DEF CallContract, RetOffset, RetSize
<1> DEFINE data == answer.data
           to == RetOffset
           size == RetSize
           what == AnswerBytes(data, size)
           n == Lesser(Len(data), size)
<1>3. data \in Seq(Byte) /\ Len(data) \in Nat
  BY OutsideBytes
<1>4. to \in Nat /\ size \in Nat
  BY <1>1, CallRanges
<1>5. what \in Seq(Byte) /\ Len(what) = n /\ \A i \in 1 .. n : what[i] = data[i]
  <2> HIDE DEF data, size
  <2>1. QED
    BY <1>3, <1>4, AnswerBytesType
<1> HIDE DEF what, to
<1>6. /\ \A i \in 1 .. Len(memory') :
           memory'[i] = IF i - to \in 1 .. Len(what) THEN what[i - to] ELSE At(memory, i)
      /\ Len(memory') \in Nat
  BY <1>1, <1>2, <1>4, <1>5, WrittenFits DEF MemoryFits, what, to
<1> HIDE DEF data, size
<1>7. \A i \in Int : i - to \in 1 .. n <=> (i - to \in 1 .. size /\ i - to <= Len(data))
  BY <1>3, <1>4 DEF Lesser
<1>8. \A i \in 1 .. Len(memory') :
        memory'[i] = IF i - to \in 1 .. size /\ i - to <= Len(data)
                     THEN data[i - to] ELSE At(memory, i)
  <2> HIDE DEF n
  <2>1. QED
    BY <1>5, <1>6, <1>7
<1>9. QED
  BY <1>2, <1>8 DEF data, size, to

\* What a precompile writes, if it is bytes that are there.
LEMMA AnsweredTyped ==
  ASSUME TickTyped, Fetched(CallOps), Granted, NEW what \in Seq(Byte), Answered(what)
  PROVE  TickTyped'
<1>1. CASE Undefined
  BY <1>1, UndefinedTyped
<1>2. CASE ~Undefined
  <2>1. /\ memory' = Written(Expanded, RetOffset, what)
        /\ Push(1) /\ Proceed /\ returnData' = returnData
    BY <1>2 DEF Answered
  <2>2. Opcode \in CallOps /\ Opcode \in Touching
    BY FetchedRuns DEF Touching
  <2>3. RetOffset \in Int
    BY <2>2, CallRanges
  <2>4. MemoryFits(memory')
    BY <2>1, <2>2, <2>3, WrittenFits
  <2>5. 1 \in Word
    BY WordModType DEF Word
  <2>6. StackFits(stack')
    BY <2>1, <2>5, PushFits
  <2>7. Sizeable(returnData')
    BY <2>1, MemoryStaysTyped
  <2>8. QED
    BY <2>1, <2>4, <2>6, <2>7, FetchedRuns, ProceedTyped
<1>3. QED
  BY <1>1, <1>2

\* ... keeps memory outside of them.
LEMMA AnsweredInPlace ==
  ASSUME TickTyped, Fetched(CallOps), Granted, NEW what \in Seq(Byte), Answered(what),
         outcome' = "running"
  PROVE  /\ \A i \in 1 .. Len(memory') :
              memory'[i] = IF i - RetOffset \in 1 .. Len(what) THEN what[i - RetOffset]
                           ELSE At(memory, i)
         /\ Len(memory') = Len(Expanded)
<1>1. ~Undefined
  BY DEF Undefined, End
<1>2. memory' = Written(Expanded, RetOffset, what)
  BY <1>1 DEF Answered
<1>3. Opcode \in CallOps /\ Opcode \in Touching
  BY FetchedRuns DEF Touching
<1>4. RetOffset \in Int
  BY <1>3, CallRanges
<1>5. QED
  BY <1>2, <1>3, <1>4, WrittenFits

\* Zeros after a word, in a return area that may be smaller.
LEMMA WordAndZeros ==
  ASSUME NEW w \in Seq(Byte), Len(w) = WordBytes, NEW size \in Nat
  PROVE  /\ w \o Zeros(size - WordBytes) \in Seq(Byte)
         /\ size >= WordBytes => Len(w \o Zeros(size - WordBytes)) = size
<1> DEFINE k == size - WordBytes
<1>1. k \in Int /\ WordBytes \in Nat /\ size = WordBytes + k
  BY WordAssumption
<1> HIDE DEF k
<1>2. Zeros(k) \in Seq(Byte) /\ Len(Zeros(k)) = IF k > 0 THEN k ELSE 0
  BY <1>1, ZerosType
<1>3. w \o Zeros(k) \in Seq(Byte) /\ Len(w \o Zeros(k)) = WordBytes + Len(Zeros(k))
  BY <1>2, ConcatIsSeq
<1>4. size >= WordBytes => Len(w \o Zeros(k)) = size
  BY <1>1, <1>2, <1>3
<1>5. QED
  BY <1>3, <1>4 DEF k

\* A precompile that is defined answers with bytes that fit a return area of a
\* word or more, the identity with its arguments as far as they fit any.
LEMMA PrecompileAnswers ==
  ASSUME TickTyped, EcRecover \/ Sha256 \/ Identity, ~Undefined
  PROVE  /\ Fetched(CallOps) /\ Granted /\ Opcode \in CallOps
         /\ \E what \in Seq(Byte) :
              /\ Answered(what)
              /\ Target = 4 \/ RetSize >= WordBytes => Len(what) <= RetSize
              /\ Target = 4 =>
                   /\ Len(what) = Lesser(ArgsSize, RetSize)
                   /\ Apart(ArgsOffset, RetOffset, Len(what)) =>
                        \A i \in 1 .. Len(what) : what[i] = Expanded[ArgsOffset + i]
<1>1. Fetched(CallOps) /\ Granted /\ Opcode \in CallOps /\ Opcode \in Touching
  BY FetchedRuns DEF EcRecover, Sha256, Identity, CallsPrecompile, Touching
<1>2. /\ ArgsOffset \in Nat /\ ArgsSize \in Nat /\ ArgsOffset + ArgsSize <= Len(Expanded)
      /\ RetOffset \in Nat /\ RetSize \in Nat /\ Len(Expanded) \in Nat
  BY <1>1, CallRanges, ExpandedType
<1>3. CASE EcRecover
  <2>1. Target = 1
    BY <1>3 DEF EcRecover, CallsPrecompile
  <2>2. CASE Answered(Zeros(RetSize))
    <3>1. Zeros(RetSize) \in Seq(Byte) /\ Len(Zeros(RetSize)) <= RetSize
      <4> DEFINE size == RetSize
      <4>1. size \in Nat /\ size \in Int
        BY <1>2
      <4> HIDE DEF size
      <4>2. Zeros(size) \in Seq(Byte) /\ Len(Zeros(size)) = IF size > 0 THEN size ELSE 0
        BY <4>1, ZerosType
      <4>3. Zeros(size) \in Seq(Byte) /\ Len(Zeros(size)) <= size
        BY <4>1, <4>2
      <4>4. QED
        BY <4>3 DEF size
    <3>2. QED
      BY <1>1, <2>1, <2>2, <3>1
  <2>3. CASE ~Answered(Zeros(RetSize))
    <3> DEFINE Address(w) == [i \in 1 .. WordBytes |->
                                IF i > WordBytes - AddressBytes THEN BytesOf(w)[i]
                                ELSE IF i <= RetSize THEN 0
                                ELSE At(memory, RetOffset + i)]
    <3>1. PICK w \in Environment : Answered(Address(w) \o Zeros(RetSize - WordBytes))
      BY <1>3, <2>3 DEF EcRecover
    <3>2. Address(w) \in Seq(Byte) /\ Len(Address(w)) = WordBytes
      <4>1. BytesOf(w) \in Seq(Byte) /\ Len(BytesOf(w)) = WordBytes
        BY EnvironmentType, BytesOfType
      <4>2. 0 \in Byte
        BY DEF Byte
      <4>3. \A i \in 1 .. WordBytes : BytesOf(w)[i] \in Byte
        BY <4>1
      <4>4. WordBytes \in Nat
        BY WordAssumption
      <4>5. memory \in Seq(Byte)
        BY DEF TickTyped, TickTypeOK, Bytes
      <4>6. \A i \in Int : At(memory, i) \in Byte
        BY <4>2, <4>5 DEF At
      <4>7. \A i \in 1 .. WordBytes : At(memory, RetOffset + i) \in Byte
        BY <1>2, <4>4, <4>6
      <4>8. QED
        BY <4>2, <4>3, <4>4, <4>7
    <3> HIDE DEF Address
    <3> DEFINE what == Address(w) \o Zeros(RetSize - WordBytes)
    <3>3. what \in Seq(Byte) /\ (RetSize >= WordBytes => Len(what) = RetSize)
      BY <1>2, <3>2, WordAndZeros
    <3> HIDE DEF what
    <3>4. Answered(what)
      BY <3>1 DEF what
    <3>5. QED
      BY <1>1, <1>2, <2>1, <3>3, <3>4
  <2>4. QED
    BY <2>2, <2>3
<1>4. CASE Sha256
  <2>1. Target = 2
    BY <1>4 DEF Sha256, CallsPrecompile
  <2>2. PICK w \in Environment : Answered(BytesOf(w) \o Zeros(RetSize - WordBytes))
    BY <1>4 DEF Sha256
  <2>3. BytesOf(w) \in Seq(Byte) /\ Len(BytesOf(w)) = WordBytes
    BY EnvironmentType, BytesOfType
  <2> DEFINE what == BytesOf(w) \o Zeros(RetSize - WordBytes)
  <2>4. what \in Seq(Byte) /\ (RetSize >= WordBytes => Len(what) = RetSize)
    BY <1>2, <2>3, WordAndZeros
  <2> HIDE DEF what
  <2>5. Answered(what)
    BY <2>2 DEF what
  <2>6. QED
    BY <1>1, <1>2, <2>1, <2>4, <2>5
<1>5. CASE Identity
  <2> DEFINE n == IdentitySize(ArgsSize, RetSize)
  <2>1. PICK what \in CopiedWithin(Expanded, RetOffset, ArgsOffset, n) : Answered(what)
    BY <1>5 DEF Identity
  <2>2. n \in Nat /\ n = Lesser(ArgsSize, RetSize) /\ n <= RetSize /\ ArgsOffset + n <= Len(Expanded)
    BY <1>2 DEF IdentitySize, Lesser
  <2> HIDE DEF n
  <2>3. Expanded \in Seq(Byte) /\ RetOffset \in Int
    BY <1>1, <1>2, ExpandedType
  <2>4. /\ what \in Seq(Byte) /\ Len(what) = n
        /\ Apart(ArgsOffset, RetOffset, n) => \A i \in 1 .. n : what[i] = Expanded[ArgsOffset + i]
    BY <1>2, <2>2, <2>3, CopiedWithinType
  <2>5. QED
    BY <1>1, <2>1, <2>2, <2>4
<1>6. QED
  BY <1>3, <1>4, <1>5

LEMMA PrecompileTyped ==
  ASSUME TickTyped, EcRecover \/ Sha256 \/ Identity PROVE TickTyped'
<1>1. CASE Undefined
  BY <1>1, UndefinedTyped
<1>2. CASE ~Undefined
  <2>1. Fetched(CallOps) /\ Granted /\ \E what \in Seq(Byte) : Answered(what)
    BY <1>2, PrecompileAnswers
  <2>2. QED
    BY <2>1, AnsweredTyped
<1>3. QED
  BY <1>1, <1>2

\* The identity's bytes come from memory as it was, zeros where it has yet to grow.
LEMMA PrecompileIsExact ==
  ASSUME TickTyped, EcRecover \/ Sha256 \/ Identity, outcome' = "running",
         Target = 4 \/ RetSize >= WordBytes
  PROVE  /\ \A i \in 1 .. Len(memory') :
              i - RetOffset \notin 1 .. RetSize => memory'[i] = At(memory, i)
         /\ Target = 4 /\ Apart(ArgsOffset, RetOffset, Lesser(ArgsSize, RetSize))
            => \A i \in 1 .. Lesser(ArgsSize, RetSize) :
                 memory'[RetOffset + i] = At(memory, ArgsOffset + i)
<1>1. ~Undefined
  BY DEF Undefined, End
<1>2. Fetched(CallOps) /\ Granted /\ Opcode \in CallOps /\ Opcode \in Touching
  BY <1>1, PrecompileAnswers DEF Touching
<1>3. PICK what \in Seq(Byte) :
        /\ Answered(what)
        /\ Len(what) <= RetSize
        /\ Target = 4 =>
             /\ Len(what) = Lesser(ArgsSize, RetSize)
             /\ Apart(ArgsOffset, RetOffset, Len(what)) =>
                  \A i \in 1 .. Len(what) : what[i] = Expanded[ArgsOffset + i]
  BY <1>1, PrecompileAnswers
<1>4. /\ \A i \in 1 .. Len(memory') :
           memory'[i] = IF i - RetOffset \in 1 .. Len(what) THEN what[i - RetOffset]
                        ELSE At(memory, i)
      /\ Len(memory') = Len(Expanded)
  BY <1>2, <1>3, AnsweredInPlace
<1>5. /\ ArgsOffset \in Nat /\ ArgsSize \in Nat /\ ArgsOffset + ArgsSize <= Len(Expanded)
      /\ RetOffset \in Nat /\ RetSize \in Nat /\ RetOffset + RetSize <= Len(Expanded)
      /\ Len(Expanded) \in Nat
      /\ \A i \in 1 .. Len(Expanded) : Expanded[i] = At(memory, i)
  BY <1>2, CallRanges, ExpandedType
<1>6. Len(what) \in Nat
  OBVIOUS
<1> DEFINE to == RetOffset
           from == ArgsOffset
           size == RetSize
           n == Len(what)
           e == Expanded
<1> HIDE DEF to, from, size, n, e
<1>7. \A i \in 1 .. Len(memory') : i - to \notin 1 .. size => memory'[i] = At(memory, i)
  <2>1. \A i \in 1 .. Len(memory') :
          memory'[i] = IF i - to \in 1 .. n THEN what[i - to] ELSE At(memory, i)
    BY <1>4 DEF to, n
  <2>2. n \in Nat /\ size \in Nat /\ n <= size
    BY <1>3, <1>5, <1>6 DEF n, size
  <2>3. QED
    BY <2>1, <2>2
<1>8. ASSUME Target = 4, Apart(from, to, n)
      PROVE  \A i \in 1 .. n : memory'[to + i] = At(memory, from + i)
  <2> SUFFICES ASSUME NEW i \in 1 .. n PROVE memory'[to + i] = At(memory, from + i)
    OBVIOUS
  <2>1. n \in Nat /\ to \in Nat /\ from \in Nat /\ n <= size /\ size \in Nat /\ i \in Nat
    BY <1>3, <1>5, <1>6 DEF n, size, to, from
  <2>2. Target = 4 => n = Lesser(ArgsSize, size)
    BY <1>3 DEF n, size
  <2>3. n <= ArgsSize
    BY <1>5, <1>8, <2>1, <2>2 DEF Lesser
  <2>4. /\ Len(e) \in Nat /\ to + size <= Len(e) /\ from + ArgsSize <= Len(e)
        /\ Len(memory') = Len(e) /\ ArgsSize \in Nat
    BY <1>4, <1>5 DEF to, from, size, e
  <2>5. to + i \in 1 .. Len(memory') /\ from + i \in 1 .. Len(e) /\ (to + i) - to = i
    BY <2>1, <2>3, <2>4
  <2>6. memory'[to + i] = what[i]
    <3>1. memory'[to + i] = IF (to + i) - to \in 1 .. n THEN what[(to + i) - to]
                            ELSE At(memory, to + i)
      BY <1>4, <2>5 DEF to, n
    <3>2. QED
      BY <2>5, <3>1
  <2>7. what[i] = e[from + i]
    BY <1>3, <1>8 DEF to, from, n, e
  <2>8. e[from + i] = At(memory, from + i)
    BY <1>5, <2>5 DEF e
  <2>9. QED
    BY <2>6, <2>7, <2>8
<1>9. Target = 4 => n = Lesser(ArgsSize, size)
  BY <1>3 DEF n, size
<1>10. QED
  <2>1. Target = 4 /\ Apart(ArgsOffset, RetOffset, Lesser(ArgsSize, RetSize))
        => \A i \in 1 .. Lesser(ArgsSize, RetSize) :
             memory'[RetOffset + i] = At(memory, ArgsOffset + i)
    BY <1>8, <1>9 DEF to, from, size
  <2>2. \A i \in 1 .. Len(memory') :
          i - RetOffset \notin 1 .. RetSize => memory'[i] = At(memory, i)
    BY <1>7 DEF to, size
  <2>3. QED
    BY <1>4, <2>1, <2>2

-----------------------------------------------------------------------------
(* Ends *)

\* A size cut to 16 bits is no more than the same size cut to 32.
LEMMA ShortSize ==
  ASSUME NEW w \in Word, ToInt(w) \in Nat
  PROVE  w % ShortMod \in Nat /\ w % ShortMod <= ToInt(w)
<1> DEFINE k == IntMod \div ShortMod
<1>1. /\ w \in Int /\ IntMod \in Nat \ {0} /\ ShortMod \in Nat \ {0} /\ IntMod % ShortMod = 0
  BY WordInts, SizesType, TickAssumption DEF TickAssumption
<1>2. IntMod = ShortMod * k /\ k \in Int
  <2>1. IntMod = ShortMod * k + (IntMod % ShortMod) /\ k \in Int
    BY <1>1, DivMod
  <2> HIDE DEF k
  <2>2. QED
    BY <1>1, <2>1
<1> HIDE DEF k
<1>3. k \in Nat \ {0}
  BY <1>1, <1>2
<1> DEFINE low == w % IntMod
<1>4. low % ShortMod = w % ShortMod
  <2>1. (w % (ShortMod * k)) % ShortMod = w % ShortMod
    BY <1>1, <1>3, DivModProduct
  <2>2. QED
    BY <1>2, <2>1
<1>5. ToInt(w) = low
  BY ToIntType
<1>6. low \in Nat
  BY <1>5
<1>7. w % ShortMod \in Nat
  BY <1>1, DivMod
<1>8. low % ShortMod <= low
  <2> HIDE DEF low
  <2>1. low = ShortMod * (low \div ShortMod) + (low % ShortMod) /\ low \div ShortMod \in Nat
    BY <1>1, <1>6
  <2>2. ShortMod * (low \div ShortMod) \in Nat
    BY <1>1, <2>1
  <2>3. QED
    BY <1>6, <1>7, <1>4, <2>1, <2>2
<1>9. QED
  BY <1>4, <1>5, <1>7, <1>8

LEMMA ResultType ==
  ASSUME TickTyped, Opcode \in {243, 253}, Granted
  PROVE  Part(Expanded, ToInt(Arg(0)), Arg(1) % ShortMod) \in Seq(Byte)
<1> DEFINE o == ToInt(Arg(0))
           s == ToInt(Arg(1))
           n == Arg(1) % ShortMod
<1>1. Opcode \in Touching /\ <<Arg(0), Arg(1)>> \in Touched
  BY DEF Touching, Touched, CopyOps, LogOps, CallOps
<1>2. o \in Nat /\ s \in Nat /\ o + s <= Len(Expanded)
  BY <1>1, TouchedRange
<1>3. n \in Nat /\ n <= s
  BY <1>2, ArgType, ShortSize
<1>4. Expanded \in Seq(Byte) /\ Len(Expanded) \in Nat
  BY <1>1, ExpandedType
<1> HIDE DEF o, s, n
<1>5. o + n <= Len(Expanded)
  BY <1>2, <1>3, <1>4
<1>6. Part(Expanded, o, n) \in Seq(Byte)
  BY <1>2, <1>3, <1>4, <1>5, PartType
<1>7. QED
  BY <1>6 DEF o, n

LEMMA ReturnTyped == ASSUME TickTyped, Return PROVE TickTyped'
<1>1. Opcode = 243 /\ Granted
  BY FetchedRuns DEF Return
<1>2. Part(Expanded, ToInt(Arg(0)), Arg(1) % ShortMod) \in Seq(Byte)
  BY <1>1, ResultType
<1>3. "returned" \in Outcomes
  BY DEF Outcomes
<1>4. QED
  BY <1>2, <1>3, EndTyped DEF Return

LEMMA ReturnRefusedTyped == ASSUME TickTyped, ReturnRefused PROVE TickTyped'
<1>1. Fetched({243}) /\ PopOnly /\ Proceed /\ KeepBytes
  BY DEF ReturnRefused
<1>2. StackFits(stack')
  BY <1>1, PopFits
<1>3. QED
  BY <1>1, <1>2, FetchedRuns, ProceedKeepsTyped

\* Memory is granted to a REVERT of operands that are small enough.
LEMMA RevertIsGranted ==
  ASSUME TickTyped, Opcode = 253, Arg(0) <= RevertLimit, Arg(1) <= RevertLimit
  PROVE  Granted
<1>1. Touched = {<<Arg(0), Arg(1)>>}
  BY DEF Touched, CopyOps, LogOps, CallOps
<1>2. Arg(0) \in Word /\ Arg(1) \in Word
  BY ArgType
<1>3. CanExpand(Arg(0), Arg(1))
  <2> DEFINE o == Arg(0)
             s == Arg(1)
  <2>1. o \in Nat /\ s \in Nat /\ WordMod \in Nat \ {0}
    BY <1>2, WordInts, WordModType
  <2>2. o <= RevertLimit /\ s <= RevertLimit
    OBVIOUS
  <2> HIDE DEF o, s
  <2>3. /\ o + s <= MaxMemory /\ 2 * o < IntMod /\ 2 * s < IntMod
        /\ o + s \in 0 .. (WordMod - 1)
    BY <2>1, <2>2, SizesType
  <2>4. (o + s) % WordMod = o + s
    BY <2>1, <2>3, ModOfSmall
  <2>5. ToInt(o) = o /\ ToInt(s) = s
    BY <1>2, <2>3, ToIntOfFit DEF o, s
  <2>6. CanExpand(o, s)
    BY <2>1, <2>3, <2>4, <2>5 DEF CanExpand
  <2>7. QED
    BY <2>6 DEF o, s
<1>4. QED
  BY <1>1, <1>3 DEF Granted

LEMMA RevertTyped == ASSUME TickTyped, Revert PROVE TickTyped'
<1>1. Opcode = 253
  BY FetchedRuns DEF Revert
<1>2. "reverted" \in Outcomes /\ Arg(0) \in Word /\ Arg(1) \in Word
  BY ArgType DEF Outcomes
<1>3. CASE Arg(0) > RevertLimit \/ Arg(1) > RevertLimit
  <2>1. BytesOf(Arg(0)) \o BytesOf(Arg(1)) \in Seq(Byte)
    BY <1>2, BytesOfType, ConcatIsSeq
  <2>2. QED
    BY <1>2, <1>3, <2>1, EndTyped DEF Revert
<1>4. CASE ~(Arg(0) > RevertLimit \/ Arg(1) > RevertLimit)
  <2>1. Arg(0) <= RevertLimit /\ Arg(1) <= RevertLimit
    BY <1>2, <1>4, WordInts, SizesType
  <2>2. Part(Expanded, ToInt(Arg(0)), Arg(1) % ShortMod) \in Seq(Byte)
    BY <1>1, <2>1, RevertIsGranted, ResultType
  <2>3. QED
    BY <1>2, <1>4, <2>2, EndTyped, UndefinedTyped DEF Revert
<1>5. QED
  BY <1>3, <1>4

LEMMA FailsTyped ==
  ASSUME TickTyped, PrecompileFails \/ Invalid \/ Abort \/ Underflow \/ OutOfGas
  PROVE  TickTyped'
<1>1. <<>> \in Seq(Byte) /\ {"failed", "reverted", "undefined"} \subseteq Outcomes
  BY DEF Outcomes
<1>2. \E how \in Outcomes : End(how, <<>>)
  BY <1>1 DEF PrecompileFails, Invalid, Abort, Underflow, OutOfGas, Undefined
<1>3. QED
  BY <1>1, <1>2, EndTyped

-----------------------------------------------------------------------------
(* The specification *)

LEMMA InitTyped == ASSUME TickInit PROVE TickTyped
<1>1. Sizeable(code) /\ Sizeable(calldata)
  BY TickAssumption DEF TickAssumption, TickInit
<1>2. <<>> \in Seq(Byte) /\ <<>> \in Seq(Word) /\ Len(<<>>) = 0
  OBVIOUS
<1>3. Sizeable(<<>>)
  BY <1>2, SizesType DEF Sizeable
<1>4. 0 \in 0 .. (Len(code) + WordBytes)
  BY <1>1, WordAssumption DEF Sizeable
<1>5. QED
  BY <1>1, <1>2, <1>3, <1>4, SizesType DEF TickTyped, TickTypeOK, TickInit, Bytes, Sizeable

\* Every instruction keeps the context's state typed.
LEMMA NextTyped == ASSUME TickTyped, TickNext PROVE TickTyped'
<1>1. CASE Stop \/ WordInstruction \/ Source \/ Query \/ Measure \/ CalldataLoad
  BY <1>1, StopTyped, WordInstructionTyped, SourceTyped, QueryTyped, MeasureTyped,
     CalldataLoadTyped
<1>2. CASE Discard \/ PushData \/ Duplicate \/ Swap \/ Jump
  BY <1>2, DiscardTyped, PushDataTyped, DuplicateTyped, SwapTyped, JumpTyped
<1>3. CASE MemoryAccess \/ Copy \/ LogEvent
  BY <1>3, MemoryAccessTyped, CopyTyped, LogEventTyped
<1>4. CASE CallContract \/ EcRecover \/ Sha256 \/ Identity
  BY <1>4, CallContractTyped, PrecompileTyped
<1>5. CASE Return \/ ReturnRefused \/ Revert
  BY <1>5, ReturnTyped, ReturnRefusedTyped, RevertTyped
<1>6. CASE PrecompileFails \/ Invalid \/ Abort \/ Underflow \/ OutOfGas
  BY <1>6, FailsTyped
<1>7. QED
  BY <1>1, <1>2, <1>3, <1>4, <1>5, <1>6 DEF TickNext

LEMMA AlwaysTickTyped == TickSpec => []TickTyped
<1>1. TickInit => TickTyped
  BY InitTyped
<1>2. TickTyped /\ [TickNext]_tickVars => TickTyped'
  <2>1. ASSUME TickTyped, UNCHANGED tickVars PROVE TickTyped'
    BY <2>1 DEF tickVars, TickTyped, TickTypeOK, Sizeable, Bytes
  <2>2. QED
    BY <2>1, NextTyped
<1>3. QED
  BY <1>1, <1>2, PTL DEF TickSpec

\* Whatever the code, its calldata and what comes from outside, a context's
\* stack holds words, its memory stays within its limit and nothing it reads or
\* writes of memory lies outside of it.
THEOREM ContextsStayTyped == TickSpec => []TickTypeOK
<1>1. TickTyped => TickTypeOK
  BY DEF TickTyped
<1>2. QED
  BY <1>1, AlwaysTickTyped, PTL

LEMMA ExactWords ==
  ASSUME TickTyped, WordInstruction, Opcode \in {10, 11, 26, 27, 28, 29}
  PROVE  stack'[1] = Meaning(Opcode, Arg(0), Arg(1))
<1> DEFINE w == IF Opcode \in ArithmeticOps
                THEN ArithmeticResult(Opcode, Arg(0), Arg(1), Arg(2))
                ELSE LogicResult(Opcode, Arg(0), Arg(1))
<1>1. stack' = <<w>> \o Rest(Needs(Opcode)) /\ Fetched(WordOps)
  BY DEF WordInstruction, Push
<1>2. Arg(0) \in Word /\ Arg(1) \in Word
  BY ArgType
<1>3. w = Meaning(Opcode, Arg(0), Arg(1))
  <2>1. CASE Opcode = 10
    BY <1>2, <2>1, ResultsAreExact DEF ArithmeticOps
  <2>2. CASE Opcode = 11
    BY <1>2, <2>2, ResultsAreExact DEF ArithmeticOps
  <2>3. CASE Opcode \in 26 .. 29
    <3>1. Opcode \notin ArithmeticOps
      BY <2>3 DEF ArithmeticOps
    <3>2. QED
      BY <1>2, <2>3, <3>1, ResultsAreExact
  <2>4. QED
    BY <2>1, <2>2, <2>3
<1> HIDE DEF w
<1>4. Rest(Needs(Opcode)) \in Seq(Word)
  <2>1. Running /\ Opcode \in Byte /\ Len(stack) >= Needs(Opcode)
    BY <1>1, OpcodeIsByte DEF Fetched
  <2>2. Needs(Opcode) \in Nat /\ Needs(Opcode) <= Len(stack)
    BY <2>1, NeedsType, StackIsTyped
  <2>3. QED
    BY <2>2, RestType
<1>5. \A rest \in Seq(Word) : (<<w>> \o rest)[1] = w
  OBVIOUS
<1>6. QED
  BY <1>1, <1>3, <1>4, <1>5

\* EXP, SIGNEXTEND, BYTE and the shifts of evmMath yield what arithmetic says,
\* for words of any number of bytes and every operand.
THEOREM WordInstructionsStayExact == TickSpec => WordInstructionsAreExact
<1>1. TickTyped => [ WordInstruction /\ Opcode \in {10, 11, 26, 27, 28, 29}
                     => stack'[1] = Meaning(Opcode, Arg(0), Arg(1)) ]_tickVars
  BY ExactWords
<1>2. QED
  BY <1>1, AlwaysTickTyped, PTL DEF WordInstructionsAreExact

\* CALLDATACOPY, CODECOPY, EXTCODECOPY, RETURNDATACOPY and MCOPY fill their
\* range of memory as specified and nothing else.
THEOREM CopiesStayExact == TickSpec => CopiesAreExact
<1> DEFINE A == (/\ Copy /\ outcome' = "running"
                 /\ \A i \in 0 .. 2 : Fits(CopyArg(i))
                 /\ Opcode = 94 => Apart(Arg(0), Arg(1), Arg(2)))
                => \E source \in IF Opcode = 94 THEN {memory} ELSE CopySources :
                     \A i \in 1 .. Len(memory') :
                       memory'[i] = IF i - CopyArg(0) \in 1 .. CopyArg(2)
                                    THEN At(source, CopyArg(1) + i - CopyArg(0))
                                    ELSE At(memory, i)
<1>1. TickTyped => [A]_tickVars
  BY CopyIsExact
<1>2. [][A]_tickVars => CopiesAreExact
  BY DEF CopiesAreExact
<1> HIDE DEF A
<1>3. QED
  BY <1>1, <1>2, AlwaysTickTyped, PTL

\* A call leaves the callee's data in its return area, as far as they fit, and
\* the rest of memory as it was.
THEOREM CallsAlwaysAnswerInMemory == TickSpec => CallsAnswerInMemory
<1> DEFINE A == CallContract
                => \A i \in 1 .. Len(memory') :
                     memory'[i] = IF i - RetOffset \in 1 .. RetSize /\ i - RetOffset <= Len(returnData')
                                  THEN returnData'[i - RetOffset]
                                  ELSE At(memory, i)
<1>1. TickTyped => [A]_tickVars
  BY CallAnswers
<1>2. [][A]_tickVars => CallsAnswerInMemory
  BY DEF CallsAnswerInMemory
<1> HIDE DEF A
<1>3. QED
  BY <1>1, <1>2, AlwaysTickTyped, PTL

\* Precompiles write inside of their return area, given one of a word or more.
THEOREM PrecompilesAlwaysAnswerInPlace == TickSpec => PrecompilesAnswerInPlace
<1> DEFINE A == (/\ EcRecover \/ Sha256 \/ Identity
                 /\ outcome' = "running"
                 /\ Target = 4 \/ RetSize >= WordBytes)
                => /\ \A i \in 1 .. Len(memory') :
                        i - RetOffset \notin 1 .. RetSize => memory'[i] = At(memory, i)
                   /\ Target = 4 /\ Apart(ArgsOffset, RetOffset, Lesser(ArgsSize, RetSize))
                      => \A i \in 1 .. Lesser(ArgsSize, RetSize) :
                           memory'[RetOffset + i] = At(memory, ArgsOffset + i)
<1>1. TickTyped => [A]_tickVars
  BY PrecompileIsExact
<1>2. [][A]_tickVars => PrecompilesAnswerInPlace
  BY DEF PrecompilesAnswerInPlace
<1> HIDE DEF A
<1>3. QED
  BY <1>1, <1>2, AlwaysTickTyped, PTL
================================================================================

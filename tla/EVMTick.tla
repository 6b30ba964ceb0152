-------------------------------- MODULE EVMTick --------------------------------
(***************************************************************************)
(* tickEVMRaw and the loop around it: one context runs bytecode, one       *)
(* instruction a step.  What gas, accounts, storage and hashes yield comes *)
(* from outside (EVMGas and EVMFrames have them): a frame may run out of   *)
(* gas at any instruction, and a callee gives any answer.                  *)
(***************************************************************************)
EXTENDS EVMWords

CONSTANTS
  Programs,      \* code to run, sequences of bytes
  Listing,       \* where the instructions of each program start
  Calldatas,     \* calldata to run it with
  ForeignCodes,  \* code that another account may have
  Answers,       \* what a call to a contract may come to
  Environment,   \* words that accounts, blocks, storage and hashes yield
  Unknown,       \* bytes that lie behind the code in memory
  AddressBytes,  \* 20 in the code
  IntMod,        \* 2^32, int
  ShortMod,      \* 2^16, uint16_t
  MaxMemory,     \* 1482849 bytes
  RevertLimit,   \* 14000
  MaxStack       \* bound: programs stop here, the code has no limit

\* Smaller words go with fewer of these.
PushOps == 95 .. (95 + WordBytes)

\* Where the instruction at i leaves the program counter if it does not jump.
After(program, i) ==
  i + 1 + IF program[i + 1] \in PushOps THEN program[i + 1] - 95 ELSE 0

\* The code keeps the sizes of byte strings in an int.
Sizeable(bytes) == bytes \in Seq(Byte) /\ 2 * Len(bytes) < IntMod

ASSUME TickAssumption ==
  /\ \A bytes \in Programs \cup Calldatas \cup ForeignCodes : Sizeable(bytes)
  /\ \A program \in Programs :
       /\ 0 \in Listing[program]
       /\ \A i \in Listing[program] : i < Len(program) => After(program, i) \in Listing[program]
  /\ \A answer \in Answers : answer.success \in BOOLEAN /\ Sizeable(answer.data)
  /\ Environment \subseteq Word
  /\ Unknown \subseteq Byte
  /\ {AddressBytes, IntMod, ShortMod, MaxMemory, RevertLimit, MaxStack} \subseteq Nat
  /\ AddressBytes <= WordBytes /\ WordBytes <= 32 /\ WordBytes <= MaxMemory
  /\ 2 * RevertLimit <= MaxMemory /\ 2 * MaxMemory < IntMod
  /\ ShortMod > 0 /\ IntMod % ShortMod = 0 /\ WordMod % IntMod = 0

VARIABLES
  code,        \* the context's runcode
  calldata,
  pc,          \* index of the next byte of code, from 0
  stack,       \* top first, last in the code
  memory,
  returnData,  \* what the last contract called returned
  outcome,     \* "running", how the frame ended, or "undefined"
  output       \* what it returned or reverted with

tickVars == <<code, calldata, pc, stack, memory, returnData, outcome, output>>

Bytes == Seq(Byte)

TickTypeOK ==
  /\ code \in Bytes /\ calldata \in Bytes
  /\ pc \in 0 .. (Len(code) + WordBytes)
  /\ stack \in Seq(Word) /\ Len(stack) <= MaxStack + 1
  /\ memory \in Bytes /\ Len(memory) <= MaxMemory
  /\ returnData \in Bytes /\ output \in Bytes
  /\ outcome \in {"running", "returned", "reverted", "failed", "undefined"}

-----------------------------------------------------------------------------
(* Fetching, popping and ending *)

DupOps  == 128 .. 143
SwapOps == 144 .. 159
LogOps  == 160 .. 164
CopyOps == {55, 57, 60, 62, 94}   \* CALLDATA, CODE, EXTCODE, RETURNDATA, M
CallOps == {241, 242, 244, 250}   \* CALL, CALLCODE, DELEGATECALL, STATICCALL

\* Words of the environment that are pushed, and that replace an argument.
SourceOps == {48, 50, 51, 52, 58, 90} \cup 65 .. 72
QueryOps  == {32, 49, 59, 84, 92}

Implemented ==
  {0, 53, 54, 56, 61, 80, 81, 82, 83, 85, 86, 87, 88, 89, 91, 93, 243, 253, 254}
    \cup WordOps \cup PushOps \cup DupOps \cup SwapOps \cup LogOps
    \cup CopyOps \cup CallOps \cup SourceOps \cup QueryOps

Running == outcome = "running" /\ pc < Len(code) /\ Len(stack) <= MaxStack
Opcode  == code[pc + 1]

Arg(i)  == IF i < Len(stack) THEN stack[i + 1] ELSE 0
Rest(n) == SubSeq(stack, n + 1, Len(stack))

\* How many values an instruction takes off the stack, or exchanges.
Needs(op) ==
  CASE op \in WordOps -> Arity(op)
    [] op \in {49, 53, 59, 80, 81, 84, 86, 92} -> 1
    [] op \in {32, 82, 83, 85, 87, 93, 243, 253} -> 2
    [] op \in {55, 57, 62, 94} -> 3
    [] op = 60 -> 4
    [] op \in SwapOps -> op - 142
    [] op \in LogOps -> 2 + (op - 160)
    [] op \in {241, 242} -> 7
    [] op \in {244, 250} -> 6
    [] OTHER -> 0

Fetched(ops) == Running /\ Opcode \in ops /\ Len(stack) >= Needs(Opcode)

Proceed   == pc' = pc + 1 /\ UNCHANGED <<code, calldata, outcome, output>>
Push(w)   == stack' = <<w>> \o Rest(Needs(Opcode))
PopOnly   == stack' = Rest(Needs(Opcode))
KeepBytes == UNCHANGED <<memory, returnData>>

\* A context is dropped when it ends, and keeps here what it had.
End(how, data) ==
  /\ outcome' = how /\ output' = data
  /\ UNCHANGED <<code, calldata, pc, stack, memory, returnData>>

\* Nothing is claimed after a pop of an empty list, or an access outside of one.
Undefined == End("undefined", <<>>)

-----------------------------------------------------------------------------
(* Memory *)

\* The conversion of a word to int, and back.
ToInt(w) ==
  LET low == w % IntMod IN IF 2 * low >= IntMod THEN low - IntMod ELSE low

\* Mutant of CanExpand: offset and size are limited one by one.
CanExpandEach(offset, size) ==
  offset <= MaxMemory /\ size <= MaxMemory

CanExpand(offset, size) ==
  /\ (offset + size) % WordMod <= MaxMemory
  /\ ToInt(offset) >= 0 /\ ToInt(size) >= 0

CopyArg(i) == Arg(i + Flag(Opcode = 60))
CallArg(i) == Arg(i + Flag(Opcode \in {241, 242}))

\* The ranges of memory that an instruction expands to, as offsets and sizes.
Touched ==
  CASE Opcode = 32 -> {<<Arg(0), ToInt(Arg(1)) % WordMod>>}
    [] Opcode \in {81, 82} -> {<<Arg(0), WordBytes>>}
    [] Opcode = 83 -> {<<Arg(0), 1>>}
    [] Opcode \in CopyOps ->
         {<<CopyArg(0), CopyArg(2)>>}
           \cup IF Opcode = 94 /\ Arg(1) > Arg(0) THEN {<<Arg(1), Arg(2)>>} ELSE {}
    [] Opcode \in LogOps \cup {243, 253} -> {<<Arg(0), Arg(1)>>}
    [] Opcode \in CallOps -> {<<CallArg(2), CallArg(3)>>, <<CallArg(4), CallArg(5)>>}
    [] OTHER -> {}

Granted == \A r \in Touched : CanExpand(r[1], r[2])

Expanded ==
  memory \o Zeros(Max({ToInt(r[1]) + ToInt(r[2]) : r \in Touched}) - Len(memory))

\* A byte, zero where memory has yet to grow.
At(bytes, i) == IF i \in 1 .. Len(bytes) THEN bytes[i] ELSE 0

Part(bytes, offset, n) == SubSeq(bytes, offset + 1, offset + n)

Written(bytes, offset, what) ==
  [i \in 1 .. Len(bytes) |->
     IF i - offset \in 1 .. Len(what) THEN what[i - offset] ELSE bytes[i]]

\* What memcpy may write between two places of one memory: ranges that overlap
\* come out as they were, or smeared by a copy that starts at either end.
CopiedWithin(bytes, to, from, n) ==
  LET gap == to - from IN
  {Part(bytes, from, n)} \cup
  IF gap \in 1 .. (n - 1)
  THEN {[i \in 1 .. n |-> bytes[from + 1 + ((i - 1) % gap)]]}
  ELSE IF -gap \in 1 .. (n - 1)
       THEN {[i \in 1 .. n |-> bytes[from + n - ((n - i) % (-gap))]]}
       ELSE {}

-----------------------------------------------------------------------------
(* The stack, the program counter and the environment *)

Stop ==
  /\ outcome = "running"
  /\ pc < Len(code) => Opcode = 0
  /\ End("returned", <<>>)

WordInstruction ==
  /\ Fetched(WordOps)
  /\ Push(IF Opcode \in ArithmeticOps
          THEN ArithmeticResult(Opcode, Arg(0), Arg(1), Arg(2))
          ELSE LogicResult(Opcode, Arg(0), Arg(1)))
  /\ Proceed /\ KeepBytes

Source ==
  /\ Fetched(SourceOps)
  /\ \E w \in Environment : Push(w)
  /\ Proceed /\ KeepBytes

\* SHA3 expands memory; the others are BALANCE, EXTCODESIZE, SLOAD and TLOAD.
Query ==
  /\ Fetched(QueryOps) /\ Granted
  /\ memory' = IF Opcode = 32 THEN Expanded ELSE memory
  /\ IF Opcode = 59 THEN \E foreign \in ForeignCodes : Push(Len(foreign))
     ELSE \E w \in Environment : Push(w)
  /\ Proceed /\ UNCHANGED returnData

Measure ==
  /\ Fetched({54, 56, 61, 88, 89})
  /\ Push(CASE Opcode = 54 -> Len(calldata)
            [] Opcode = 56 -> Len(code)
            [] Opcode = 61 -> Len(returnData)
            [] Opcode = 88 -> pc
            [] Opcode = 89 -> Len(memory))
  /\ Proceed /\ KeepBytes

\* Bytes from an offset on, zeros past the end.
Padded(bytes, offset, n) ==
  [i \in 1 .. n |-> IF offset + i <= Len(bytes) THEN bytes[offset + i] ELSE 0]

CalldataLoad ==
  /\ Fetched({53})
  /\ Push(IF Arg(0) >= Len(calldata) THEN 0
          ELSE WordOf(Padded(calldata, Arg(0), WordBytes)))
  /\ Proceed /\ KeepBytes

\* POP, SSTORE, TSTORE and JUMPDEST.
Discard ==
  /\ Fetched({80, 85, 91, 93})
  /\ PopOnly /\ Proceed /\ KeepBytes

\* Bytes past the end of the code are whatever memory holds there.
PushData ==
  /\ Fetched(PushOps)
  /\ LET n == Opcode - 95
         missing == n - Lesser(n, Len(code) - pc - 1)
     IN  /\ \E tail \in [1 .. missing -> Unknown] :
              Push(WordOf(Part(code, pc + 1, n - missing) \o tail))
         /\ pc' = pc + 1 + n
  /\ UNCHANGED <<code, calldata, outcome, output>> /\ KeepBytes

Duplicate ==
  /\ Fetched(DupOps)
  /\ Len(stack) >= Opcode - 127
  /\ stack' = <<stack[Opcode - 127]>> \o stack
  /\ Proceed /\ KeepBytes

Swap ==
  /\ Fetched(SwapOps)
  /\ stack' = [stack EXCEPT ![1] = stack[Opcode - 142], ![Opcode - 142] = stack[1]]
  /\ Proceed /\ KeepBytes

\* Mutant of Destination: a jump checks that it stays within the code only.
DestinationWithin(a) == a \in 0 .. (Len(code) - 1)

Destination(a) == a \in 0 .. (Len(code) - 1) /\ code[a + 1] = 91

\* Only the byte at the target is looked at, not whether it is an instruction.
Jump ==
  /\ Fetched({86, 87})
  /\ IF Opcode = 87 /\ Arg(1) = 0 THEN pc' = pc + 1
     ELSE Destination(Arg(0)) /\ pc' = Arg(0)
  /\ PopOnly /\ KeepBytes /\ UNCHANGED <<code, calldata, outcome, output>>

-----------------------------------------------------------------------------
(* Memory and copies *)

MemoryAccess ==
  /\ Fetched({81, 82, 83}) /\ Granted
  /\ memory' = CASE Opcode = 81 -> Expanded
                 [] Opcode = 82 -> Written(Expanded, ToInt(Arg(0)), BytesOf(Arg(1)))
                 [] Opcode = 83 -> Written(Expanded, ToInt(Arg(0)), <<Arg(1) % 256>>)
  /\ IF Opcode = 81 THEN Push(WordOf(Part(memory', ToInt(Arg(0)), WordBytes)))
     ELSE PopOnly
  /\ Proceed /\ UNCHANGED returnData

\* Where a copy may read from.
CopySources ==
  CASE Opcode = 55 -> {calldata}
    [] Opcode = 57 -> {code}
    [] Opcode = 60 -> ForeignCodes
    [] Opcode = 62 -> {returnData}
    [] Opcode = 94 -> {Expanded}

\* Bytes that are copied rather than zeroed.
Cutoff(source, from, size) ==
  IF from < Len(source) THEN Lesser(Len(source) - from, size) ELSE 0

\* Mutant of CopiedBytes: what lies behind the source's end is left alone.
CopiedBytesOnly(source, to, from, size) ==
  {Part(source, from, Cutoff(source, from, size))}

CopiedBytes(source, to, from, size) ==
  LET cutoff == Cutoff(source, from, size)
      copied == IF Opcode = 94 THEN CopiedWithin(source, to, from, cutoff)
                ELSE {Part(source, from, cutoff)}
  IN  {c \o Zeros(size - cutoff) : c \in copied}

Copy ==
  /\ Fetched(CopyOps) /\ Granted
  /\ LET to   == ToInt(CopyArg(0))
         from == ToInt(CopyArg(1))
         size == ToInt(CopyArg(2))
     IN  \E source \in CopySources :
           IF from < 0 /\ size > 0 THEN Undefined
           ELSE /\ \E what \in IF size = 0 THEN {<<>>}
                               ELSE CopiedBytes(source, to, from, size) :
                     memory' = Written(Expanded, to, what)
                /\ PopOnly /\ Proceed /\ UNCHANGED returnData

\* The topics come off the stack after memory has been expanded.
LogEvent ==
  /\ Fetched(LogOps) /\ Granted
  /\ memory' = Expanded
  /\ PopOnly /\ Proceed /\ UNCHANGED returnData

-----------------------------------------------------------------------------
(* Calls *)

Target == Arg(1) % 256 ^ AddressBytes

\* Mutant of AnswerBytes: the callee's data goes to memory whole.
AnswerBytesWhole(data, size) == data

AnswerBytes(data, size) == Part(data, 0, Lesser(Len(data), size))

CallContract ==
  /\ Fetched(CallOps) /\ Granted /\ Target >= 16
  /\ \E answer \in Answers :
       /\ memory' = Written(Expanded, ToInt(CallArg(4)),
                            AnswerBytes(answer.data, ToInt(CallArg(5))))
       /\ returnData' = answer.data
       /\ Push(Flag(answer.success))
  /\ Proceed

\* Arguments of a precompile, and a step of one.
ArgsOffset == ToInt(CallArg(2))
ArgsSize   == ToInt(CallArg(3))
RetOffset  == ToInt(CallArg(4))
RetSize    == ToInt(CallArg(5))

CallsPrecompile(index) == Fetched(CallOps) /\ Granted /\ Target = index

\* Bytes written from the start of the return area on, whatever its size is.
Answered(what) ==
  IF RetOffset + Len(what) > Len(Expanded) THEN Undefined
  ELSE /\ memory' = Written(Expanded, RetOffset, what)
       /\ Push(1) /\ Proceed /\ UNCHANGED returnData

\* v is read beyond the arguments if they end before it, and only the return area
\* is zeroed before the address is written behind its first bytes.
EcRecover ==
  /\ CallsPrecompile(1)
  /\ IF ArgsOffset + 4 * WordBytes > Len(Expanded) THEN Undefined
     ELSE \/ Answered(Zeros(RetSize))
          \/ /\ WordOf(Part(Expanded, ArgsOffset + WordBytes, WordBytes)) \in {27, 28}
             /\ \E w \in Environment :
                  LET address == [i \in 1 .. WordBytes |->
                                    IF i > WordBytes - AddressBytes THEN BytesOf(w)[i]
                                    ELSE IF i <= RetSize THEN 0
                                    ELSE At(memory, RetOffset + i)]
                  IN  Answered(address \o Zeros(RetSize - WordBytes))

Sha256 ==
  /\ CallsPrecompile(2)
  /\ \E w \in Environment : Answered(BytesOf(w) \o Zeros(RetSize - WordBytes))

\* Mutant of IdentitySize: the size of the return area is forgotten.
IdentitySizeOfArgs(args, ret) == args

IdentitySize(args, ret) == IF args > ret THEN ret ELSE args

Identity ==
  /\ CallsPrecompile(4)
  /\ \E what \in CopiedWithin(Expanded, RetOffset, ArgsOffset, IdentitySize(ArgsSize, RetSize)) :
       Answered(what)

\* Without a precompile, or gas for it, all the gas that is left is charged.
PrecompileFails ==
  /\ Fetched(CallOps) /\ Granted /\ Target < 16
  /\ End("failed", <<>>)

-----------------------------------------------------------------------------
(* Ends *)

Return ==
  /\ Fetched({243}) /\ Granted
  /\ End("returned", Part(Expanded, ToInt(Arg(0)), Arg(1) % ShortMod))

\* Without memory for it there is no pointer to return, and execution goes on.
ReturnRefused ==
  /\ Fetched({243}) /\ ~Granted
  /\ PopOnly /\ Proceed /\ KeepBytes

Revert ==
  /\ Fetched({253})
  /\ IF Arg(0) > RevertLimit \/ Arg(1) > RevertLimit
     THEN End("reverted", BytesOf(Arg(0)) \o BytesOf(Arg(1)))
     ELSE \/ End("reverted", Part(Expanded, ToInt(Arg(0)), Arg(1) % ShortMod))
          \/ /\ Len(Expanded) > Len(memory)   \* no gas for memory
             /\ Arg(1) % ShortMod > 0
             /\ Undefined

Invalid ==
  /\ Fetched({254})
  /\ End("reverted", <<>>)

\* Memory is refused, a jump goes nowhere, DUP finds too little, the opcode is
\* not implemented.
Abort ==
  /\ Running
  /\ \/ Fetched((0 .. 255) \ {243, 253}) /\ ~Granted
     \/ Opcode \in LogOps /\ Len(stack) >= 2 /\ ~Granted
     \/ Fetched({86, 87}) /\ (Opcode = 87 => Arg(1) # 0) /\ ~Destination(Arg(0))
     \/ Opcode \in DupOps /\ Len(stack) < Opcode - 127
     \/ Opcode \notin Implemented
  /\ End("failed", <<>>)

Underflow ==
  /\ Running
  /\ Len(stack) < Needs(Opcode)
  /\ Opcode \in LogOps /\ Len(stack) >= 2 => Granted
  /\ Undefined

\* Any step may find no gas left; a store may find the frame static.
OutOfGas ==
  /\ Running
  /\ End("failed", <<>>)

-----------------------------------------------------------------------------

TickInit ==
  /\ code \in Programs /\ calldata \in Calldatas
  /\ pc = 0 /\ stack = <<>> /\ memory = <<>> /\ returnData = <<>>
  /\ outcome = "running" /\ output = <<>>

TickNext ==
  \/ Stop \/ WordInstruction \/ Source \/ Query \/ Measure \/ CalldataLoad
  \/ Discard \/ PushData \/ Duplicate \/ Swap \/ Jump
  \/ MemoryAccess \/ Copy \/ LogEvent
  \/ CallContract \/ EcRecover \/ Sha256 \/ Identity \/ PrecompileFails
  \/ Return \/ ReturnRefused \/ Revert \/ Invalid \/ Abort \/ Underflow \/ OutOfGas

TickSpec == TickInit /\ [][TickNext]_tickVars

-----------------------------------------------------------------------------
(* Properties *)

\* No PUSH of the code has the byte of a JUMPDEST among its data.
NoHiddenDestination ==
  \A i \in 0 .. (Len(code) - 1) : code[i + 1] = 91 => i \in Listing[code]

\* Code whose PUSH data hide no destination is never executed out of step: pc
\* stays at an instruction of its listing, although jumps look at one byte only
\* and a PUSH at the end of the code takes pc past it (JUMP, JUMPI, PUSHn).
JumpsStayAligned == outcome = "running" /\ NoHiddenDestination => pc \in Listing[code]

\* EXP by squaring and SIGNEXTEND, BYTE and shifts by byte positions yield what
\* arithmetic says, for every operand, those past the word's size included.
WordInstructionsAreExact ==
  [][ WordInstruction /\ Opcode \in {10, 11, 26, 27, 28, 29}
      => stack'[1] = Meaning(Opcode, Arg(0), Arg(1)) ]_tickVars

Fits(w) == 2 * w < IntMod

Apart(a, b, n) == a + n <= b \/ b + n <= a

\* Copies whose operands fit an int fill their range with the source and zeros
\* past its end, and change nothing else; for MCOPY the source is memory as it
\* was before, of which the copy may read a part that has yet to grow, and the
\* ranges must not overlap.
CopiesAreExact ==
  [][ (/\ Copy /\ outcome' = "running"
       /\ \A i \in 0 .. 2 : Fits(CopyArg(i))
       /\ Opcode = 94 => Apart(Arg(0), Arg(1), Arg(2)))
      => \E source \in IF Opcode = 94 THEN {memory} ELSE CopySources :
           \A i \in 1 .. Len(memory') :
             memory'[i] = IF i - CopyArg(0) \in 1 .. CopyArg(2)
                          THEN At(source, CopyArg(1) + i - CopyArg(0))
                          ELSE At(memory, i) ]_tickVars

\* After a call to a contract the return area starts with as much of the
\* callee's data as fits, returnData is all of it, and the rest of memory, the
\* end of a return area larger than the data included, is what it was.
CallsAnswerInMemory ==
  [][ CallContract
      => \A i \in 1 .. Len(memory') :
           memory'[i] = IF i - RetOffset \in 1 .. RetSize /\ i - RetOffset <= Len(returnData')
                        THEN returnData'[i - RetOffset]
                        ELSE At(memory, i) ]_tickVars

\* A precompile that succeeds writes inside of its return area, given one of at
\* least a word, and the identity copies its arguments as far as they fit when the
\* areas do not overlap.  What becomes of returnData is left open: the code does
\* not set it yet.
PrecompilesAnswerInPlace ==
  [][ (/\ EcRecover \/ Sha256 \/ Identity
       /\ outcome' = "running"
       /\ Target = 4 \/ RetSize >= WordBytes)
      => /\ \A i \in 1 .. Len(memory') :
              i - RetOffset \notin 1 .. RetSize => memory'[i] = At(memory, i)
         /\ Target = 4 /\ Apart(ArgsOffset, RetOffset, Lesser(ArgsSize, RetSize))
            => \A i \in 1 .. Lesser(ArgsSize, RetSize) :
                 memory'[RetOffset + i] = At(memory, ArgsOffset + i) ]_tickVars
=============================================================================

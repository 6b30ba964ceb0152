# Formal models of komozoievm

komozoievm simulates and executes Ethereum transactions against a state
provider ("as if they had been mined", `README.md:5-6`), and brings its own
secp256k1, RLP, Fibonacci heap, byte buffers and Python bindings. This directory
holds TLA+ models of its logic, the TLC configurations that check them on small
instances, and proofs that TLAPS checks for every instance. Paths below are
relative to the repository's root; the C++ sources are under `src/`.

`PROJECT.json` maps each definition to the lines it models, and lists runs,
mutants (a plausible bug for each property, which its run finds), findings,
hazards and theorems.

    tlc -workers 2 -config EVMFrames_storage.cfg MCEVMFrames.tla
    tlapm EVMFrames_proofs.tla

## 1. Inventory

| Component | State | Operations | Talks to | Hard because | Correct when | Module |
|---|---|---|---|---|---|---|
| Call frames, world state (`EVM.cpp`, `EVMSimulationContext.*`) | one context per running call: accounts, storage, transient maps, flags | state instructions, CALL family, runEVMRaw, simulate, execute, writeChangesTo | reads through the chain of contexts to the provider; writes back whole overlays | an overlay is a write set and a read cache at once; calls fail at any point; a provider may answer short | contexts behave as private copies; outcomes decide what survives; static calls never write; value conserved | EVMFrames, NestedState |
| Gas, memory size, access lists (same files) | gasUsed, limit, pc, memory size, warm accounts, code cache | every instruction's charge, expandMemory, callRaw's allowance, the run loop | callees take from and charge their callers; code requests charge suspended callers | 32-bit counts wrap, `int` conversions, early returns | memory paid once, gas never forgotten, transactions end | EVMGas |
| Decoding, stack, control flow (`EVM.cpp`, tickEVMRaw) | stack, pc, returnData | every opcode | contexts, for words and answers | no stack checks on pop and SWAP, jumps into data, refused RETURN | code without embedded JUMPDESTs runs as listed | EVMTick |
| 256-bit word instructions (same) | top of the stack | 0x01-0x0B, 0x10-0x1D | komozoilib's uint256 | byte positions, shifts past the width, EXP's loops | they equal integer arithmetic | EVMWords |
| Memory and copy instructions (same) | bytes of memory | MLOAD, MSTORE*, copies, LOG, SHA3, RETURN, REVERT | returnData, foreign code | truncation to `int`, overlap, cut-offs | copies equal a reference; answers stay in the return area | EVMTick |
| Precompiled contracts (`precompiledContracts.cpp`) | the caller's memory | identity, SHA-256, ECRECOVER | Secp256k1, picosha2 | write without the area's size | identity answers in place | EVMTick, EVMGas (gas) |
| Fibonacci heap (`util/FibbonacciHeap.cpp`) | trees in rings, array of roots, min | insert, deleteMin, consolidate | none | rings spliced while walked, array sized by a logarithm | a forest, a priority queue, no overrun | FibonacciHeap, PriorityQueue |
| Bytes, EthereumTransaction (`util/Bytes.*`, `EthereumTransaction.h`) | blocks with counts, handles | construct, copy, move, assign, destroy | every component; threads of the bindings, which share them in objects of Python's | threads interleave at each atomic operation, and any may drop the last handle; 16-bit count | counts match handles, no use after free, no leak of Bytes | SharedHandles |
| secp256k1 field (`crypto/Secp256k1.*`) | four limbs | + - * / int* | group law | carries, borrows, folding, wrapped coefficients | exact modulo P | FieldArithmetic |
| Group, ECDSA (`crypto/Secp256k1.*`, `modbigint.h`) | nonce, r, s, recovery id | sign, recover, isValid | field, random bytes | two retry loops, unreduced scalars, recovery by trial | signatures verify and recover the signer; signing ends | Secp256k1 |
| RLP (`RLPEncoder.*`) | output buffer | encode, lengths, list headers | builder | lengths from 56 on, headers written backwards | equals RLP's definition | TransactionBuilder |
| Transaction builder (`EthereumTransactionBuilder.cpp`) | fields, buffer with a gap | signAndExport | RLP, ECDSA | the header is written twice, at different places | signs and exports the same transaction | TransactionBuilder |
| Python bindings (`python.cpp`) | interpreter lock, contexts of calls, the provider's data | simulate, execute, update_* | contexts, callbacks into Python | lock given up in calls, callbacks that raise, write-back in pieces | executes serialise but for conflicts; calls return | ParallelExecute, SerialChain |
| ChainProvider (`interface/ChainProvider.h`) | the chain | reads, updates | contexts | short answers, exceptions | | EVMFrames, ParallelExecute |
| secrandom, keccak, picosha2, tracer, value types, utilities, programs | | | | | | not modelled (7) |

## 2. Plan

Done, in this order: NestedState and EVMFrames (the system's core) and their proofs;
EVMGas and its proofs; FibonacciHeap; SharedHandles; FieldArithmetic and Secp256k1;
EVMWords and EVMTick; SerialChain and ParallelExecute with the refinement proved;
TransactionBuilder; the proofs of SharedHandles; DataLemmas, the conservation of
value and all of EVMTick's properties; the arithmetic of the field; signing and
recovery; the builder; the heap, with the refinement of the queue.

What could follow: a decoder for RLP, a composition of EVMTick
with EVMFrames in which the code that contexts run is decoded rather than arbitrary.

## 3. Modules and code

**NestedState** is what the simulator promises: each call owns a private copy of
the world; success hands it to the caller, failure forgets it, a successful
`execute` commits it. It knows no caches.

**EVMFrames** has the contexts. `chain` is the provider's world; `frames` the
EVMSimulationContexts of running calls, outermost first; a cell is an account's
balance or a storage slot. `Holder`/`ReadThrough` are getAccountInfo,
getStorageSlots and their copies in each context passed; `PayAccount` and
`DeductAccount` act in the code's order, credit first; `WriteChangesTo` pushes a
whole overlay. `Call`, `CallAccount` and `CallRefused` are generateCall with
callRaw and the start of runEVMRaw (code at the target; none; a refused
transfer). `Return` and `Fail` are the end of runEVMRaw with the rest of
callRaw. Contract code is arbitrary: any instruction may be next, and any frame
may fail at any time, which covers out of gas, REVERT, bad jumps and unknown
opcodes. `View(i)` is the refinement mapping: the world as context i sees it.

**EVMGas** has the counters: `gasUsed` and limits modulo `UintMod`, memory
sizes, warm accounts and cached code. Any instruction may come next; jumps go
anywhere, so loops are included. `paid` is a history variable. Prices are
constants.

**EVMTick** runs bytecode: one instruction of one context a step, decoded from
`code` at `pc`, on the stack and the bytes of memory. Every opcode of
tickEVMRaw is in an action; words that come from accounts, storage, blocks or
hashes are any of `Environment`, a called contract gives any of `Answers`, and
`OutOfGas` may end a frame anywhere. `ToInt` is the conversion of a word to int,
`CanExpand` what expandMemory refuses, `CopiedWithin` the outcomes memcpy may
have on ranges that overlap. A frame ends as `undefined`, and nothing is claimed
of it from there, where the code pops an empty stack, swaps below it, reads
before a buffer or writes behind memory. **EVMWords** has the words: `BytesOf`
and `WordOf`, the instructions with loops and byte positions (EXP, SIGNEXTEND,
BYTE, shifts) as the code computes them, and `Meaning`, which says by integer
arithmetic what they should yield.

**FibonacciHeap** has nodes at addresses with the code's five pointers, the
roots array, `min` and `count`; each operation is one step with its loops as
recursive functions and folds: `Siblings` walks a ring, `AddChild` splices one,
`Settle` is one round of consolidate's loop over the roots, `LeastRoot` its search for
min. `Children` and `Below`, which the properties use, follow a memory's pointers down.
**PriorityQueue** is the bag it implements. `HeapAssumption` says that addresses are
finitely many positive numbers, priorities integers, and that Null is neither an
address nor a tree.

**SharedHandles**: an operation on a handle is one step that moves pointers and
queues the atomic operations it makes; each atomic operation is a step of its
own, so threads interleave between them. `owner` changes: a thread puts a handle of
its own into an object that Python sees (`Share`: the traced calls and events of
`python.cpp:365-378` hold handles, and so does a transaction), every thread may copy
a shared handle, and whichever drops the object takes the handle as its own (`Take`)
to destroy it, assign to it or move from it. Python counts the references to its own
objects: it drops one only when no thread uses it, which is why `Take` waits for
those that are copying from the handle (`source`). Bytes themselves have no such
care, and two threads may drop the last two handles of a block at once.
Transactions' counts are `uint16_t` (`RefMod`).

**FieldArithmetic** computes on `Limbs` limbs of `Base` values: `AddRaw`, `SubRaw`,
`Plus`, `Minus` (with its own borrow rule), `Product`, `FoldHalf` and `FoldLimb`
(2^256 is `Fold` modulo P), `TimesInt`, Euclid's algorithm with coefficients that
wrap. A calculator feeds each result into the next operation, so numbers past P left
by one reach another. `FieldAssumption` asks for what the code's constants have: at
least two limbs of at least three values (four of 64 bits), a `Fold` that fits a
limb (33 bits of 64), and a prime P, which division needs. It says nothing of how
large they are.

**Secp256k1** is sign as a machine: try a nonce until r is not 0 (`TryNonce`),
compute s or start again with k + 1 (`ComputeS`), mirror s by its top bit
(`LowS`), try recovery ids 0 and 1 (`TryRecovery`); a random nonce is any number
below 2^256, unreduced as in the code. `RecoverSignature` recovers from
signatures of any origin. `signature` is the Secp256k1Signature being made or
given. Coordinates are exact modulo P here; what limbs make of them is
FieldArithmetic's subject. `Secp256k1Assumption` says how P, N and the words lie;
`GroupAssumption` says that the curve's points are a group of order N that the
generator generates, which is known of secp256k1 and which TLC evaluates of the
run's curve.

**TransactionBuilder** is signAndExport in three steps: the fields behind a gap
of six bytes, type and list header written backwards into the gap and signed
from there, the signature appended and the header written again. `Header`,
`StringOf`, `EntryOf`, `ListHeader` are RLPEncoder's functions with their sizes;
`PlainString` and `PlainList` are RLP as it is defined. `RequestsAssumption` says what
the types say: numbers are of at most 32 bytes, an address has 20, a signature's r and
s have at most 32.

**SerialChain** is what threads may rely on that execute on one chain: a call's
changes take effect at one moment, at which everything it read still holds; a
provider that raises undoes a rest of them, storage before accounts.
**ParallelExecute** is what the bindings do: `gil` is the interpreter lock,
given up when a call enters C++ and taken for each callback; `ReadCell` and
`WriteBack` are single callbacks, `Throw` one that raises, `Finish` the end of
the code. An overlay is the union of all contexts of a call (EVMFrames has how
they nest). The refinement commits at `Finish`: `World` is the chain with what
remains to be written, `Unsettled` what that would replace. Any thread may read and
write any cell, so threads do break the serial order, as they do in the code:
`SerialButForConflicts` names the four steps at which it happens. A call reads a cell
that another is yet to store (`ReadsBehind`); an execute ends whose reads are out of
date, or that is to store a cell together with another (`EndsBehind`); a cell changes
that another is yet to store (`Undermines`); a cell that two were to store is stored or
given up (`SettlesContested`). Every other step is a step of the serial chain, before
and after a conflict.

MC modules give constants their values and hold what only TLC needs
(the constant `Supply` is the total of the small instance). `MCSecp256k1` explores field
and signing in one run, `MCLibrary` heap and builder, each while the other rests,
since neither calls the other.

## 4. Runs

| Run | Shows | Bounds, and why they suffice |
|---|---|---|
| frames_storage | `CachesNest`, `StaticFramesOnlyCache`, `ImplementsNestedState`, `OutcomesDecide`, `SuspendedTransientStable` | two contracts, one storage and one transient slot, values 0 and 1, three deep, two transactions: an outer writer, a reader in between and a failing inner writer need three frames; what a transaction leaves behind needs two |
| frames_value | `TypeOK`, `SupplyConserved`, `ImplementsNestedState` | three accounts, one without code, balances modulo 4, amounts 0, 2, 3 with a supply of 2: covered, uncovered and wrapping transfers, self-calls |
| gas | `TypeOK`, `MemoryPaidOnce`, `AccessListsNest`, `GasIsNeverForgotten`, `EndsIfLimitsShrink` | limit 7, costs 1 and 2, memory of four bytes in words of two, a delegating contract, all four call kinds, two deep: a call with a cold target goes past the limit, memory grows within and across words |
| tick | `TickTypeOK`, `JumpsStayAligned`, `WordInstructionsAreExact`, `CopiesAreExact`, `CallsAnswerInMemory`, `PrecompilesAnswerInPlace` | words of 16 bits, int of 8 and uint16_t of 4, ten bytes of memory: every conversion truncates, and turns negative, within a word. Programs: each opcode on seven words, one and none; each word instruction on operands around every byte and sign boundary; jumps to every place of every short mix of JUMP, JUMPI, PUSH, JUMPDEST; copies with every overlap, cut-off and refused range; calls with return areas smaller and larger than the data |
| library | heap: `TypeOK`, `Forest`, `BinomialTrees`, `ArrayNeverOverrun`, `IsPriorityQueue`; builder: `SignedIsTheRequest`, `ExportIsTheTransaction` | five nodes, two priorities: a node of degree two with siblings, ties, and every ring size from one to four. Requests with numbers of no, one and more bytes around 128, calldata around one byte and just below 56, contents around 56, where the header grows by a byte between signing and exporting |
| handles | `TypeOK`, `NeverUsedAfterFree`, `BytesCountHandles`, `TransactionsCountEnough` | two threads, three handles of Bytes and two of transactions, any of them shared at any time, two blocks of each, two move assignments of transactions: both threads hold one block, one of them copies a shared handle of it while the other drops its own, and either is the last; symmetry of the threads and of the handles of a class |
| signing | `FieldTypeOK`, `FieldOperationsAreExact`, `ProductsAreReduced`, `SignaturesRecoverTheSigner`, `FailsOnlyPastN`, `RecoveredKeysVerify`, `SigningEnds` | the curve y^2 = x^3 + 7 over P = 79 = 3^4 - 2: four limbs as in the code, a group of prime order 67 between half of 2^256's stand-in (81) and P, so reductions, x past N, unreduced hashes and nonces and high s all occur; every nonce, four keys, hashes 0, 1, N and the largest |
| parallel | `ParallelTypeOK`, `SerialButForConflicts`, `EveryCallReturns` | two threads, an account and a slot that both read and write, values 0 and 1: a write-back of two pieces in order with another thread's callbacks in between, an exception at each, every conflict (without any one of the four the property fails) |
| frames_overdraft | a self-call with value passes uncovered | finding 1 |
| frames_transient_leak | TLOAD reads another account's slot | finding 2 |
| gas_overrun | a callee with as much gas as its caller | finding 3 |
| builder_long | bytes that are not RLP | finding 4 |

Named bounds: `MaxDepth`, `MaxTransactions`, `MaxMoves`, `CodeLength`,
`MaxMemory`, `MaxStack` and the sets of amounts, values, limits, hashes, programs
and requests. `MaxDepth` and `MaxStack` stand for the machine's memory (the code
has no limit of its own for either). EVMFrames' runs say `CHECK_DEADLOCK FALSE`:
after the last transaction nothing is left to do; so does EVMTick's, where a frame
that has ended stays.

Fairness. EVMGas assumes weak fairness of its instructions: runEVMRaw is a loop
in one thread that executes instruction after instruction until the call ends.
Secp256k1 assumes it of the steps inside sign, for the same reason.
ParallelExecute assumes that code ends (`Ends`: gas sees to it, as far as the gas
run's hypothesis holds), that Python lets go of the lock at its switch interval
(`Yield`), and strong fairness of `Acquire` and `Callback`: a thread that asks
for the lock time and again gets it at some time, and the switch interval does not
always pass right before it uses it. The other modules assume none.
`EndsIfLimitsShrink` has the hypothesis that callees get less gas than their
callers, which finding 3 shows the code does not guarantee; that is why the
implication is the property.

## 5. Findings

1. `EVM.cpp:1017`: runEVMRaw credits before it checks; a contract that calls
   itself may send more than it has.
2. `EVMSimulationContext.cpp:63`: tload falls back to the caller's own account.
3. `EVM.cpp:219`: the remaining gas is unsigned and wraps past the limit.
4. `RLPEncoder.cpp:67`: lengths from 56 on lose their bytes, and access list
   entries are counted by their header; long calldata and access lists are
   exported as bytes that do not decode.

Seen while modelling, without a run:

- Contexts: ORIGIN is the immediate caller's address from depth three on
  (`EVMSimulationContext.h:68`); a zero stays behind when the provider answers too
  few slots, and is written back (`EVMSimulationContext.cpp:224`); updates that
  return false are ignored.
- Instructions: EXP's gas counts the low bytes of the exponent up to the first zero
  one (`EVM.cpp:442`), not its length, so 256 costs as little as 0; and its loop multiplies once per unit of the odd part of the
  exponent (449); there is no limit of 1024 words; `offset + size` of a memory
  range wraps, so that a huge offset with a large size passes; a huge source
  offset of a copy is truncated (195); RETURN without gas for memory goes on with
  the next instruction (975), and returned sizes are cut to 16 bits; jumps into
  the data of a PUSH are taken (793), which is why `JumpsStayAligned` excludes code
  with such a byte in its data.
- Precompiles: one that is unknown or fails ends the caller's frame; ECRECOVER and
  SHA-256 write a word although the return area is smaller, and ECRECOVER reads
  past its arguments; the returnData of the call before stays, which the code's own
  comments admit (`EVM.cpp:282`, `precompiledContracts.cpp:76-77`) and no property here
  calls right.
- Curve and field: a difference loses a borrow if a limb of the subtrahend is all
  ones (`Secp256k1.h:94`, `modbigint.h:81`; `FieldOperationsAreExact` states the
  exception), very rare for 64-bit limbs; "Enforce low-s rule" (`Secp256k1.cpp:181`)
  tests bit 255 only, so s between N/2 and 2^255 stays; `sign` compares x only, so a
  hash of 0 modulo N can get the other recovery id, and for a nonce whose point has
  an x past N, whose point recover cannot find, another point may give the signer's
  x by chance (`SignaturesRecoverTheSigner` excludes both: the signature verifies
  all the same); the negation of a number past P is off by `Fold`.
- Builder: the Python binding hands the six bytes of the gap to its caller
  (`python.cpp:722-731`), where the first byte was meant to say what to skip
  (`EthereumTransactionBuilder.cpp:53`).
- Bindings: execute stores every cell it has read, changed or not, so even two
  threads that write different cells lose updates if one reads what the other
  writes: these are the conflicts of `SerialButForConflicts`. MockChain's maps have no
  lock, so two threads that execute on one MockChain race.
  `docs/python/README.md:191-193` says that threads make progress in parallel, and
  nothing of what they may share or of locks; nobody is promised isolation, so this is
  no finding.

## 6. Proofs

**DataLemmas** has what the other proofs need about data: induction over numbers
and over the subsets of a finite set; that the recursive functions of folds and
iterations exist, a fold's uniquely; sums; division with remainder; powers of
two. An induction principle of the library takes a predicate as a parameter;
these take the set of the good values instead, and any definition can be given
for it. The exponents of powers are defined by nothing the provers know: 2^n is
counted as the number of subsets of n elements, and its laws follow.

**EVMFrames_proofs**, for any accounts, keys, word size, depth and number of
transactions. `CachesNest` is not inductive: which context a read stops at
depends on all of them. The invariant `Inv` is `TypeOK` with `Sound`: `Nests`
(every cell is held by the contexts up to some height and by none above),
`OnlyCaches` (under a static context every held cell equals its caller's),
`Inherits` (a context over a static one is static) and `Rooted` (the outermost
is not static). From `Inv`: `TypeCorrect`, `CachesAlwaysNest`,
`StaticFramesNeverWrite`, `OutcomesAlwaysDecide`, and
`ContextsImplementNestedState`, the refinement, step by step with lemmas on what
reading through, putting and pushing do to every `View`. The refinement assumes
`~ProviderMayFail`: a zero left by a short answer is what happens otherwise; the
other theorems hold with failing providers too.

`SupplyIsConserved` adds up balances: with what DataLemmas proves about
sums, a transfer of NestedState keeps the total modulo the word size, so every
step that refines one of its steps does; the reads and writes of storage, which
refine nothing when the provider fails, are shown to leave every view of the
balances alone.

There also: `SuspendedTransientAlwaysStable`. What a context
reads by TLOAD depends on the slots that it and its callers have for their own
accounts (`NearestSlot`, `Loaded`). Every step but TLOAD and a return leaves
those of suspended calls alone; a TLOAD enters the value of the nearest slot
into contexts that would have found it there anyway; and a return of a static
callee merges nothing, which needs one more invariant,
`StaticAlwaysHasCause`: a context is static because of its own kind or because
its caller is.

**EVMGas_proofs**, for any gas schedule. `MemoryPaidOnce` alone is not
inductive: a caller that is past its limit may run again and expand. The
invariant says that suspended contexts have paid for exactly their memory, and
only the running one may have stopped short of it past its limit, with the
nesting of warm accounts and cached code. It gives `TypeCorrect`,
`AccessListsAlwaysNest` and `MemoryAlwaysPaidOnce`.

`GasIsNeverForgotten` is false where an addition of gas wraps, so its theorem
`GasIsAlwaysCharged` supposes room for counts, `Roomy`: limits and the cost of an
instruction have bounds, and MaxDepth times what one context can owe of these and
of cold accounts is below UintMod. The instances of the runs have it
(`InstanceHasRoom`, which TLC evaluates). So have the code's numbers, 1482849 bytes
of memory at most and a callee's share of at most 2^32 / 64 gas, for transactions
with limits up to 2^32 / 64, a hundred accounts and some 58 levels of calls. Room
is kept (`CountsHaveRoom`) although a callee may use more than its caller has left
(finding 3) and is charged to it whole: a context
owes, `Due`, what it used and what cold accounts may still cost it, since requests
of its callees charge it while it waits; it owes at most a limit, the accounts and
one instruction when it calls, and so the context at level n never has used more
than `Ceiling(n)`, what the levels from n up may owe together. Then no addition
wraps, and sums over the contexts, before and after the top one leaves, give the
property; a context past its limit counts only up to the limit.

**EVMTick_proofs**, for any programs, calldata, answers and environment, words of
1 to 32 bytes, and memories and ints of any size that `TickAssumption` allows.
`JumpsAlwaysStayAligned`: every action but `Jump` and `PushData` moves pc to the
next byte or not at all; a jump lands on a JUMPDEST, which is not data by the
property's hypothesis. `ContextsStayTyped`: the invariant `TickTyped` adds to
`TickTypeOK` that code, calldata and returnData have sizes that fit an int. What
has to be shown is that memory is never accessed outside of what it was expanded
to. `GrantedSums` is the heart of it: `CanExpand` adds offset and size modulo the
word size and compares them as ints one by one, and yet what it grants has
offset and size that are no negative ints and whose sum as ints stays within the
limit, because an int's range divides the words'. From it `ExpandedType`,
`CopyRange`, `CallRanges` and `ResultType`, for a RETURN whose size is cut to 16
bits. The action properties follow from `TickTyped` and one lemma about each
instruction: `CopiesStayExact`, `CallsAlwaysAnswerInMemory`,
`PrecompilesAlwaysAnswerInPlace` and, with the arithmetic of DataLemmas,
`WordInstructionsStayExact`: halving an exponent and squaring the base keeps the
power (`HalvedKeepsPower`, on an associative product modulo the word size), the
top bit of the top byte is the sign, and `SignExtend`'s two parts add up to the
remainder that a signed number has.

**ParallelExecute_proofs**, for any threads, cells and pieces, and whatever they
share: `OverlaysAreTyped`, and `ParallelIsSerialButForConflicts`, in which each action
maps to one step of SerialChain or to a stutter unless a conflict happens at it. No
invariant beyond the types is needed, as each conflict is told from the step alone.
What carries the proof is that all that is yet to be stored of a cell that is not
`Contested` is what the world has there (`WorldIsOverlay`), and that the world is the
chain where what is to be stored is there already (`WorldOfSettled`): an execute that
ends without a conflict changes the world to its overlay, and storing a piece moves the
chain under a world that stands still. `ParallelIsSerialWithoutConflicts`: if no
conflict ever happens, the calls are serial from the first step on.

**SharedHandles_proofs**, for any threads, handles and blocks, with handles shared,
taken and dropped by any thread.
`BytesCountHandles` is not inductive: it does not say that a count cannot reach
zero while a copy has still to add its one. `AddersHold` does: a thread that has
still to add one to a block holds a handle of its own to it, and another handle, the
`source` it copies from, points there too and is not taken away before, so adders are
fewer than handles.
With `CountsHold` (the balance of count, handles and waiting operations, and one
release at zero) and `Typed` (which says also that a thread's queued operations
are on different blocks, an addition last) it gives `BytesAlwaysCountHandles` and
`BytesNeverUsedAfterFree`. A transaction's count is of 16 bits and a move
assignment adds to it without need, so its theorems have a hypothesis,
`CountsAreWide`: handles and moves together stay below the count's modulus (the run
has 2 + 2 below 5; the code 65536, which only a program that leaks tens of thousands
of moves reaches). `TransactionInv` then bounds the count from both sides: from
below, with the copies under way, by handles and waiting subtractions; from above,
with the additions under way, by these and the moves so far. As each waiting
subtraction has a handle that let go, the count never wraps:
`TransactionsAlwaysCountEnough`, `NothingIsUsedAfterFree`, `AlwaysTyped`.

**Secp256k1_proofs**, the field first, for any width of limbs, any number of them and any prime
P that a limb's worth separates from what they hold; in particular for the code's
four limbs of 64 bits. `FieldTypeOK` is inductive, and from it every operation is
right (`Sound`), so the work is in lemmas about the operators. The limbs up to n
stand for a number, `Upto`. `Carried`: terms with carries out of each into the next
stand for what the terms do, less the last carry; sums, rows of the schoolbook
product, foldings and products with an int are instances, once it is shown that
their carries fit a limb (`CarriesAreExact`). The rule by which AddRaw sees a carry,
a sum below the summand, is right for any limb; the one of operator- is right unless
the subtrahend's limb plus the borrow wraps (`MinusBorrows`), which is
`LosesBorrow`. A folding keeps the number modulo P (`FoldedIsExact`), as 2^256 is
`Fold` modulo P, and shrinks what is above the limbs, so FoldLimb ends and is what
its recursion describes (`FoldLimbDefined`). The invariant of Euclid's algorithm is
`Combines`: both remainders are combinations of P and v, the coefficients of v
change their sign at every step, and cross-multiplied with the remainders they add
up to P. The last is why they stay at most P / 2, and so why the top bit of a
wrapped coefficient tells its sign (`Corrected`); that a prime P ends at 1 then
gives the inverse (`ModInverseIsExact`). That TLA+'s recursive functions exist at
all has to be proved of each: `RangeIterationExists` and `TailRecursionExists` of
DataLemmas do.

Then signing and recovery, for any such field, any curve of a prime order over it, and any
keys, hashes and nonces. `Same` is equality modulo m, with what sums, products and
inverses do to it. On the curve: repeated addition is associative and has period N
(`SumsAdd`, `SumsZero`), so every point is `Element(k)` for a k that is unique modulo
N (`ElementsEqual`); points with the same x are opposite (`SameXOnCurve`, as P is
prime); double and add from the top bit is repeated addition (`MultipleIsExact`).
Scalars of sums, products and inverses are exact modulo N, although a sum is not
reduced (`ScalarSumIsExact`, of sums below 2^256 + N, which is what sign makes), and
the low-s rule keeps s or gives its opposite. `SquareRootIsExact`: a^((P + 1) / 4) is a root
if there is one, from Fermat's theorem (`Fermat`, by comparing the product of all
residues with the product of their multiples), so recover finds every point of the
curve by one of its two recovery ids (`CandidateIsFound`). The machine's invariant
`SignInvariant` then says which equations hold: r is the x of the nonce's point
modulo N and not 0, j * s = hash + key * r modulo N for j the nonce or its opposite
(`SSolves`), and ids passed over do not recover the signer (`IdsAreTried`). It gives
`SignaturesRecover`, `FailuresArePastN` and `RecoveredKeys`.

**Library_proofs**, the heap first, for any nodes and integer priorities.
`Forest` and `BinomialTrees` are not inductive: they follow pointers down to any depth,
and say nothing of the order in rings, on which the room in rings depends. The heap's own
rule of linking makes the shape local: a node of degree d has one child of each degree
below d, and going right round their ring the degrees descend, from the least round to
the greatest. `Binomial` says this of each node with `Kids`, the nodes whose parent it
is, and no recursion. The invariant `HeapInv` is `Binomial`, with an array of roots that
`Lists` the nodes without a parent once each, min a least of them, and an exact count.
One link (`LinkKeepsTrees`), one insert (`InsertKeepsTrees`) and taking a root away
(`FreeKeepsTrees`) keep it. The folds of consolidate are taken one root at a time
(`FoldInTurn`): after each, `SettledTrees` says that the roots still loose and those in the
array are all the roots there are, each in the place of its degree (`SettleKeeps`).
Nothing in that says that the array is long enough. A tree of degree d has 2^d
elements: the part of it below its first e children has 2^e (`PartSize`), so degrees are
at most the logarithm of count (`DegreesAreLogarithms`), which is the room there is
(`Log2Bounds`). It gives `ArrayIsLongEnough`, `HeapTypes`, `TreesAreBinomial` and
`PointersAreAForest`, once walking a ring is shown to meet each child once
(`SiblingsAreKids`) and `Below` to be what parents lead up from (`BelowIs`, by `TopOf` and
`BelowUnique`: in a finite forest of descending degrees there is one such set).
`HeapIsAPriorityQueue` is the refinement: the bag that the pointers lead to is the bag
of the allocated (`BagCounts`), to which insert adds one and from which deleteMin takes
one, which is least among the roots and so, by the order down each tree
(`RootsAreLeast`), among all.

Then the builder, for any requests and signatures under
`RequestsAssumption`. `NumberBytes` is a recursion by division, whose existence is
proved first (`NumberBytesDefined`), as is FlattenSeq's (`FlattenDefined`,
`FlattenAppend`). Of the two header writers the first is right for strings below 56
bytes (`ShortStrings`), which numbers of 32 bytes are (`Numbers`); the second for
lists below 256 (`ListHeaders`). The properties alone are not inductive: they say
nothing of the buffer before it is signed. `BuilderInv` says that it `Carries` the
request's items behind the gap; appending adds to what it carries (`CarriesMore`),
and a header written into the gap leaves it alone and makes, from the type on, the
list as RLP has it (`HeaderInGap`): the two headers of one transaction are two uses of
one lemma. It gives `SignedRequests` and `ExportedTransactions`. Longer strings and
access lists, for which both properties fail, are finding 4.

Assumptions are the ASSUMEs of the modules (`ConstantsAssumption`,
`SupplyAssumption`, `GasAssumption`, `TickAssumption`, `WordAssumption`,
`HandleAssumption`, `ParallelAssumption`, `FieldAssumption`, `Secp256k1Assumption`,
`GroupAssumption`, `RequestsAssumption`, `HeapAssumption`), which TLC evaluates in the runs. That secp256k1 is a group of
prime order N (`GroupAssumption`) is not proved of the code's numbers, whose 2^256
points nobody can enumerate here: it is the standard's statement about the curve. `TickAssumption` asks of the code's constants what they have: 2^16 divides
2^32 divides 2^256, memory and the limit of REVERT fit an int, and the byte strings
a context is given have sizes that do.

Model-checked only: liveness (`EndsIfLimitsShrink`, `SigningEnds`,
`EveryCallReturns`): fairness is out of the prover's reach. Where counts have no
room, nothing is claimed of `GasIsNeverForgotten`.

## 7. Not modelled, and what is taken from outside

`setStorageOverride` and `simulate(context)` (how callers prepare a context),
SSTORE's gas and refunds, the tracer (it observes), hash functions and random bytes
(any value), value types, conversions, formatting, entry points and scripts.
`EthereumTransaction::encode` is a second RLP encoder whose output is only
hashed. In the bindings: a provider's callback that calls execute itself,
callbacks of tracers, and getters. MockChain under several threads is a data race,
of which nothing can be claimed. ECRECOVER's and SHA-256's results are any word;
Secp256k1 has the curve.

komozoilib is a submodule whose directory is empty. From how the code uses it:
`HashSet::add` tells whether the element was there, maps keep what is put,
`ArrayList::getMemory` is not null once memory was allocated, `uint256_t`
arithmetic wraps at 2^256 and `constrain` clamps. Memory allocation succeeds. The
coinbase, which every context takes as warm, is not among the accounts modelled.

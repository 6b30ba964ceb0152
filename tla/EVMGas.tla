-------------------------------- MODULE EVMGas --------------------------------
(***************************************************************************)
(* Gas, memory and account access of the running calls.  A context counts  *)
(* the gas it used in a uint32_t and is stopped after the first            *)
(* instruction that takes the count to its limit; a callee gets at most a  *)
(* fixed share of what its caller has left, and hands what it used to its  *)
(* caller however it ends.  The code is arbitrary: any instruction may be  *)
(* the next one, at any place, and jumps go anywhere.                      *)
(*                                                                         *)
(* The gas schedule is a parameter: TLC uses small numbers in place of     *)
(* 2^32, 63/64, 2500, 100, 512 and 1482849.                                *)
(***************************************************************************)
EXTENDS Naturals, Sequences, FiniteSets, Functions

CONSTANTS
  Address,           \* accounts
  Contract,          \* those with code
  Delegate,          \* those whose code only names another account: whose (EIP-7702)
  Sender,            \* sends the transactions
  UintMod,           \* number of values of a uint32_t
  ShareNum,          \* a callee gets at most ShareNum / ShareDen
  ShareDen,          \*   of the gas its caller has left
  AccessCost,        \* of any instruction that touches an account
  ColdCost,          \* on top, for an account that is not warm
  JumpCost,
  BaseCosts,         \* costs of the other instructions
  PrecompileCosts,
  WordBytes,         \* bytes of memory in a word
  LinearCost,        \* memory of w words costs
  QuadDivisor,       \*   w * w \div QuadDivisor + LinearCost * w
  MaxMemory,         \* bytes of memory a context may have
  InitialGas,        \* getInitialGasCost of the calldata
  GasLimits,         \* gas limits of transactions, EXTRA_GAS included
  GasArguments,      \* gas that calls ask for
  MemoryEnds,        \* ends of the memory ranges that instructions touch
  CodeLength,        \* instructions in a contract
  CallKinds,         \* the call instructions the contracts use
  MaxDepth           \* bound on the nesting of calls

ASSUME GasAssumption ==
  /\ UintMod \in Nat \ {0}
  /\ Contract \subseteq Address
  /\ Sender \in Address
  /\ DOMAIN Delegate \subseteq Contract
  /\ Range(Delegate) \subseteq Address
  /\ ShareNum \in Nat /\ ShareDen \in Nat \ {0} /\ ShareNum <= ShareDen
  /\ {AccessCost, ColdCost, JumpCost} \subseteq Nat
  /\ BaseCosts \cup PrecompileCosts \subseteq Nat
  /\ WordBytes \in Nat \ {0} /\ QuadDivisor \in Nat \ {0} /\ LinearCost \in Nat
  /\ MaxMemory \in Nat /\ MemoryEnds \subseteq Nat
  /\ InitialGas \in 0 .. (UintMod - 1)
  /\ GasLimits \subseteq 0 .. (UintMod - 1)
  /\ GasArguments \subseteq Nat
  /\ CodeLength \in Nat /\ MaxDepth \in Nat
  /\ CallKinds \subseteq {"call", "callcode", "delegatecall", "staticcall"}

VARIABLE frames   \* the contexts of the running calls, outermost first

vars == frames

Uint == 0 .. (UintMod - 1)

Frame == [kind     : CallKinds \cup {"transaction"},
          address  : Address,
          caller   : Address,
          gasUsed  : Uint,
          gasLimit : Uint,
          pc       : 0 .. CodeLength,
          ticked   : BOOLEAN,      \* has run an instruction
          memory   : 0 .. MaxMemory,
          warm     : SUBSET Address,
          codes    : SUBSET Address,
          paid     : Nat]          \* history: charged for memory so far

TypeOK == frames \in Seq(Frame)

Depth == Len(frames)
Top   == frames[Depth]

-----------------------------------------------------------------------------
(* What instructions charge *)

Plus(gas, cost) == (gas + cost) % UintMod

Charge(fs, cost) == [fs EXCEPT ![Len(fs)].gasUsed = Plus(@, cost)]

RemainingGas(f) == (f.gasLimit + UintMod - f.gasUsed) % UintMod

ColdCharge(f, account) == IF account \in f.warm THEN 0 ELSE ColdCost

WarmAccount(f, account) ==
  [f EXCEPT !.gasUsed = Plus(@, ColdCharge(f, account)),
            !.warm    = @ \cup {account}]

\* Mutant of GetContractCode: only the context that asks keeps the code.
GetContractCodeKeptOnTop(fs, account) ==
  LET top == fs[Len(fs)]
  IN  IF \E f \in Range(fs) : account \in f.codes THEN fs
      ELSE [fs EXCEPT ![Len(fs)] = [WarmAccount(top, account) EXCEPT !.codes = @ \cup {account}]]

\* Every context that the request for code passes through warms the account,
\* so pays for it, and keeps the code.
GetContractCode(fs, account) ==
  [i \in 1 .. Len(fs) |->
     IF \E j \in i .. Len(fs) : account \in fs[j].codes THEN fs[i]
     ELSE [WarmAccount(fs[i], account) EXCEPT !.codes = @ \cup {account}]]

MemoryCost(bytes) ==
  LET words == (bytes + WordBytes - 1) \div WordBytes
  IN  (words * words) \div QuadDivisor + LinearCost * words

\* Mutant of ExpansionCost: the words held before are rounded down.
ExpansionCostFromWholeWords(f, end) ==
  IF end > f.memory THEN MemoryCost(end) - MemoryCost(WordBytes * (f.memory \div WordBytes))
  ELSE 0

ExpansionCost(f, end) ==
  IF end > f.memory THEN MemoryCost(end) - MemoryCost(f.memory) ELSE 0

ChargedForMemory(f, end) ==
  [f EXCEPT !.gasUsed = Plus(@, ExpansionCost(f, end)),
            !.paid    = @ + ExpansionCost(f, end)]

\* expandMemory: does it succeed, and what it leaves.  The limit on the size
\* is tested before the charge, the gas after it.
CanExpand(f, end) ==
  /\ end <= MaxMemory
  /\ end > f.memory => ChargedForMemory(f, end).gasUsed <= f.gasLimit

\* Mutant of ExpandMemory: memory grows although it is refused.
ExpandMemoryUnlimited(f, end) ==
  IF end <= f.memory THEN f ELSE [ChargedForMemory(f, end) EXCEPT !.memory = end]

ExpandMemory(f, end) ==
  IF end > MaxMemory \/ end <= f.memory THEN f
  ELSE IF CanExpand(f, end) THEN [ChargedForMemory(f, end) EXCEPT !.memory = end]
  ELSE ChargedForMemory(f, end)

-----------------------------------------------------------------------------
(* Contexts *)

NewFrame(kind, caller, address, limit, used, warm, codes) ==
  [kind |-> kind, address |-> address, caller |-> caller,
   gasUsed |-> used, gasLimit |-> limit, pc |-> 0, ticked |-> FALSE,
   memory |-> 0, warm |-> warm \cup {caller, address}, codes |-> codes, paid |-> 0]

\* runEVMRaw replaces code that only names another account by that account's.
Enter(fs, account) ==
  IF account \in DOMAIN Delegate THEN GetContractCode(fs, Delegate[account]) ELSE fs

RunsCode(account) ==
  /\ account \in Contract
  /\ account \in DOMAIN Delegate => Delegate[account] \in Contract

\* Mutant of Ended: the gas of a call that failed is not charged.
EndedFreeOfCharge(fs, success) ==
  IF Len(fs) = 1 THEN <<>>
  ELSE LET callee == fs[Len(fs)]
       IN  [SubSeq(fs, 1, Len(fs) - 1) EXCEPT
              ![Len(fs) - 1].gasUsed = IF success THEN Plus(@, callee.gasUsed) ELSE @,
              ![Len(fs) - 1].warm    = IF success /\ callee.kind # "staticcall"
                                       THEN @ \cup callee.warm ELSE @]

\* The last context of fs is done; its caller pays for it in any case.
Ended(fs, success) ==
  IF Len(fs) = 1 THEN <<>>
  ELSE LET callee == fs[Len(fs)]
       IN  [SubSeq(fs, 1, Len(fs) - 1) EXCEPT
              ![Len(fs) - 1].gasUsed = Plus(@, callee.gasUsed),
              ![Len(fs) - 1].warm    = IF success /\ callee.kind # "staticcall"
                                       THEN @ \cup callee.warm ELSE @]

\* The loop of runEVMRaw: gas is compared with its limit after an instruction.
Ready   == Depth > 0 /\ (Top.ticked => Top.gasUsed < Top.gasLimit)
Running == Ready /\ Top.pc < CodeLength

\* Fetching an instruction moves past it.
Fetched == [frames EXCEPT ![Depth].pc = @ + 1, ![Depth].ticked = TRUE]

-----------------------------------------------------------------------------
(* Transactions and instructions *)

Begin(to, limit) ==
  /\ frames = <<>>
  /\ RunsCode(to)
  /\ frames' = Enter(<<NewFrame("transaction", Sender, to, limit, InitialGas, {}, {to})>>, to)

Execute(cost) == Running /\ frames' = Charge(Fetched, cost)

\* Mutant of Jump: no charge.
JumpForFree(target) ==
  /\ Running
  /\ frames' = [Fetched EXCEPT ![Depth].pc = target]

Jump(target) ==
  /\ Running
  /\ frames' = [Charge(Fetched, JumpCost) EXCEPT ![Depth].pc = target]

BalanceOf(account) ==
  /\ Running
  /\ frames' = Charge([Fetched EXCEPT ![Depth] = WarmAccount(@, account)], AccessCost)

ExtCodeSize(account) ==
  /\ Running
  /\ frames' = Charge(GetContractCode(Fetched, account), AccessCost)

\* Instructions that touch memory up to `end`.
Memory(cost, end) ==
  LET charged == Charge(Fetched, cost)
      after   == [charged EXCEPT ![Depth] = ExpandMemory(@, end)]
  IN  /\ Running
      /\ frames' = IF CanExpand(charged[Depth], end) THEN after ELSE Ended(after, FALSE)

\* Without the memory it names, RETURN does not return.
Return(end) ==
  LET after == [Fetched EXCEPT ![Depth] = ExpandMemory(@, end)]
  IN  /\ Running
      /\ frames' = IF CanExpand(Top, end) THEN Ended(after, TRUE) ELSE after

Revert(end) ==
  /\ Running
  /\ frames' = Ended([Fetched EXCEPT ![Depth] = ExpandMemory(@, end)], FALSE)

\* STOP, or the end of the code.
Stop == Ready /\ frames' = Ended(frames, TRUE)

Invalid ==
  /\ Running
  /\ frames' = Ended([Fetched EXCEPT ![Depth].gasUsed = Top.gasLimit], FALSE)

\* An unknown opcode, a bad jump, a write in a static context...
Abort == Running /\ frames' = Ended(frames, FALSE)

OutOfGas ==
  /\ Depth > 0
  /\ ~Ready
  /\ frames' = Ended(frames, FALSE)

-----------------------------------------------------------------------------
(* Calls: generateCall, generateStaticCall, callRaw *)

\* A call up to the point where it has its memory and the callee's code.
CallCharged(kind) == Charge(Fetched, IF kind = "callcode" THEN 0 ELSE AccessCost)

\* The memory of the arguments, then that of the answer.
CallExpanded(kind, args, ret) ==
  [CallCharged(kind) EXCEPT ![Depth] =
     IF CanExpand(@, args) THEN ExpandMemory(ExpandMemory(@, args), ret)
     ELSE ExpandMemory(@, args)]

CanExpandBoth(f, args, ret) ==
  CanExpand(f, args) /\ CanExpand(ExpandMemory(f, args), ret)

CallPrepared(kind, target, args, ret) ==
  GetContractCode(CallExpanded(kind, args, ret), target)

\* The product is a uint32_t too.
Allowance(f, gas) ==
  LET most == ((RemainingGas(f) * ShareNum) % UintMod) \div ShareDen
  IN  IF gas < most THEN gas ELSE most

WithCallee(fs, kind, target, gas) ==
  LET caller == fs[Len(fs)]
  IN  Append(fs,
        IF kind = "delegatecall"
        THEN NewFrame(kind, caller.caller, caller.address, Allowance(caller, gas), 0, caller.warm, {})
        ELSE NewFrame(kind, caller.address, target, Allowance(caller, gas), 0, caller.warm, {}))

Calling(kind, args, ret) ==
  /\ Running
  /\ Depth < MaxDepth
  /\ CanExpandBoth(CallCharged(kind)[Depth], args, ret)

Call(kind, target, gas, args, ret) ==
  LET prepared == CallPrepared(kind, target, args, ret)
  IN  /\ Calling(kind, args, ret)
      /\ RunsCode(target)
      /\ RemainingGas(prepared[Depth]) # 0
      /\ frames' = Enter(WithCallee(prepared, kind, target, gas), target)

\* No code to run: success at once.  A transfer of value that is refused:
\* failure at once.
CallReturns(kind, target, gas, args, ret, success) ==
  LET prepared == CallPrepared(kind, target, args, ret)
      entered  == WithCallee(prepared, kind, target, gas)
  IN  /\ Calling(kind, args, ret)
      /\ success => ~RunsCode(target)
      /\ ~success => kind \in {"call", "callcode"}
      /\ RemainingGas(prepared[Depth]) # 0
      /\ frames' = Ended(IF success THEN Enter(entered, target) ELSE entered, success)

\* No memory, or no gas left for a callee: the caller fails.
CallFails(kind, target, args, ret) ==
  LET expanded == CallExpanded(kind, args, ret)
      prepared == CallPrepared(kind, target, args, ret)
  IN  /\ Running
      /\ IF CanExpandBoth(CallCharged(kind)[Depth], args, ret)
         THEN RemainingGas(prepared[Depth]) = 0 /\ frames' = Ended(prepared, FALSE)
         ELSE frames' = Ended(expanded, FALSE)

\* A precompiled contract charges its price, an unknown one all that is left.
Precompile(kind, args, ret) ==
  LET expanded == CallExpanded(kind, args, ret)
  IN  /\ Running
      /\ CanExpandBoth(CallCharged(kind)[Depth], args, ret)
      /\ \E cost \in PrecompileCosts \cup {RemainingGas(expanded[Depth])} :
           frames' = Charge(expanded, cost)

-----------------------------------------------------------------------------

Init == frames = <<>>

Instruction ==
  \/ \E cost \in BaseCosts : Execute(cost) \/ \E end \in MemoryEnds : Memory(cost, end)
  \/ \E target \in 0 .. (CodeLength - 1) : Jump(target)
  \/ \E account \in Address : BalanceOf(account) \/ ExtCodeSize(account)
  \/ \E end \in MemoryEnds : Return(end) \/ Revert(end)
  \/ Stop
  \/ Invalid
  \/ Abort
  \/ OutOfGas

CallInstruction ==
  \E kind \in CallKinds, args, ret \in MemoryEnds :
    \/ Precompile(kind, args, ret)
    \/ \E target \in Address :
         \/ CallFails(kind, target, args, ret)
         \/ \E gas \in GasArguments :
              \/ Call(kind, target, gas, args, ret)
              \/ \E success \in BOOLEAN : CallReturns(kind, target, gas, args, ret, success)

Next ==
  \/ \E to \in Contract, limit \in GasLimits : Begin(to, limit)
  \/ Instruction
  \/ CallInstruction

\* One thread runs the loop of runEVMRaw: as long as a transaction is running,
\* it takes another instruction.
Spec == Init /\ [][Next]_vars /\ WF_vars(Instruction \/ CallInstruction)

-----------------------------------------------------------------------------
(* Properties *)

\* What is warm for a caller is warm for its callee, and code a callee has
\* fetched is with its caller: although warmAccount and getContractCode change
\* the contexts of suspended callers, neither cache ever lags behind.
AccessListsNest ==
  \A i \in 2 .. Depth :
    /\ frames[i - 1].warm \subseteq frames[i].warm
    /\ frames[i].codes \subseteq frames[i - 1].codes

\* A context has paid exactly once for the memory it holds, in however many
\* steps of expandMemory it got there, words shared by two steps included; only
\* one that expandMemory stopped for lack of gas has paid for more.
MemoryPaidOnce ==
  \A i \in 1 .. Depth :
    \/ frames[i].paid = MemoryCost(frames[i].memory)
    \/ frames[i].gasUsed > frames[i].gasLimit

TotalGas == SumFunction([i \in 1 .. Depth |-> frames[i].gasUsed])

Lesser(x, y) == IF x < y THEN x ELSE y

GasWithinLimits ==
  SumFunction([i \in 1 .. Depth |-> Lesser(frames[i].gasUsed, frames[i].gasLimit)])

\* What the contexts of a running transaction have used of their limits is never
\* forgotten, however calls end (callRaw adds the gas of failed calls too).
\* What a context used past its limit can be: INVALID sets gasUsed to the limit,
\* and so does an unknown precompiled contract, by adding a negative remainder.
GasIsNeverForgotten ==
  [][Depth > 0 /\ Len(frames') > 0 => TotalGas' >= GasWithinLimits]_vars

\* Counts have room: no context gets more than limit, no instruction charges more
\* than cost, and what MaxDepth contexts can use of that, with what their callees'
\* requests may charge for cold accounts, stays below UintMod.
RoomFor(limit, cost) ==
  /\ InitialGas <= limit /\ \A l \in GasLimits : l <= limit
  /\ \A gas \in GasArguments : gas <= limit \/ UintMod \div ShareDen <= limit
  /\ \A c \in BaseCosts \cup PrecompileCosts \cup {JumpCost} :
       c + AccessCost + MemoryCost(MaxMemory) <= cost
  /\ IsFiniteSet(Address) /\ MaxDepth > 0
  /\ MaxDepth * (limit + ColdCost * Cardinality(Address) + cost) < UintMod

Roomy == \E room \in Nat \X Nat : RoomFor(room[1], room[2])

\* A callee's gas limit is below its caller's, so calls cannot nest for ever
\* (there is no other limit on their depth).
LimitsShrink ==
  \A i \in 2 .. Depth : frames[i].gasLimit < frames[i - 1].gasLimit

\* Every transaction ends, provided that no callee gets as much gas as its
\* caller had: the gas check after each instruction stops every loop.
EndsIfLimitsShrink == []LimitsShrink => (Depth > 0 ~> Depth = 0)
=============================================================================

------------------------------ MODULE EVMFrames ------------------------------
(***************************************************************************)
(* World state during one transaction at a time: the chain behind the      *)
(* StateProvider interface, and one EVMSimulationContext per running call, *)
(* each an overlay over the context that called it (the outermost over the *)
(* chain).  An overlay is at once a write set and a read cache: reading a  *)
(* cell copies it into every context the read passes through, and a call   *)
(* that succeeds pushes its WHOLE overlay to its caller.                   *)
(*                                                                         *)
(* The contract code is arbitrary: any instruction that touches state may  *)
(* come next, and any frame may fail at any point (out of gas, REVERT, a   *)
(* bad jump, an unknown opcode).  Gas is modelled in EVMGas.               *)
(***************************************************************************)
EXTENDS Naturals, Sequences, FiniteSets, Functions

CONSTANTS
  Address,           \* accounts
  Contract,          \* those with code
  Sender,            \* those that send transactions
  Key,               \* storage keys
  TransientKey,      \* transient storage keys
  Balance,           \* the "key" under which an account's balance is kept
  WordMod,           \* number of values of a uint256_t
  Absent,            \* an overlay has no entry for the cell
  Genesis,           \* the worlds the chain may start from
  Supply,            \* what the accounts hold together in each of them
  CallKinds,         \* the call instructions the contracts use
  Amounts,           \* values that calls and transactions carry
  StoredValues,      \* values that SSTORE and TSTORE write
  Queried,           \* accounts whose BALANCE the contracts ask for
  ProviderMayFail,   \* may a provider return too few storage slots?
  MaxDepth,          \* bound on the nesting of calls
  MaxTransactions    \* bound on the number of transactions

Cell  == Address \X (Key \cup {Balance})
Word  == 0 .. (WordMod - 1)
World == [Cell -> Word]

ASSUME ConstantsAssumption ==
  /\ WordMod \in Nat \ {0}
  /\ Balance \notin Key
  /\ Absent \notin Word
  /\ Genesis \subseteq World
  /\ Contract \subseteq Address
  /\ Sender \subseteq Address
  /\ CallKinds \subseteq {"call", "callcode", "delegatecall", "staticcall"}
  /\ Amounts \subseteq Word
  /\ StoredValues \subseteq Word
  /\ Queried \subseteq Address
  /\ ProviderMayFail \in BOOLEAN
  /\ MaxDepth \in Nat
  /\ MaxTransactions \in Nat

\* What the accounts of a world hold together, in words that wrap.
TotalBalance(world) ==
  SumFunctionOnSet([x \in Address |-> world[<<x, Balance>>]], Address) % WordMod

ASSUME SupplyAssumption ==
  /\ IsFiniteSet(Address)
  /\ \A world \in Genesis : TotalBalance(world) = Supply

VARIABLES
  chain,         \* the provider's world
  frames,        \* the contexts of the running calls, outermost first
  mode,          \* "idle", "simulate" or "execute"
  sender,        \* tx.sender() of the latest transaction
  transactions   \* how many were started

vars == <<chain, frames, mode, sender, transactions>>

Overlay   == [Cell -> Word \cup {Absent}]
Transient == [Address \X TransientKey -> Word \cup {Absent}]

Frame == [kind      : CallKinds \cup {"transaction"},
          address   : Address,
          caller    : Address,
          origin    : Address,
          isStatic  : BOOLEAN,
          overlay   : Overlay,
          transient : Transient]

TypeOK ==
  /\ chain \in World
  /\ frames \in Seq(Frame)
  /\ mode \in {"idle", "simulate", "execute"}
  /\ mode = "idle" <=> frames = <<>>
  /\ sender \in Address
  /\ transactions \in 0 .. MaxTransactions

Depth == Len(frames)
Top   == frames[Depth]
Below == SubSeq(frames, 1, Depth - 1)

-----------------------------------------------------------------------------
(* Contexts and their caches *)

\* A context starts with empty overlays.  ORIGIN is the immediate caller.
NewFrame(kind, caller, address, isStatic) ==
  [kind      |-> kind,
   address   |-> address,
   caller    |-> caller,
   origin    |-> caller,
   isStatic  |-> isStatic,
   overlay   |-> [c \in Cell |-> Absent],
   transient |-> [c \in Address \X TransientKey |-> Absent]]

Has(frame, cell) == frame.overlay[cell] # Absent

\* The context a read that starts at context i finds the cell in; 0 is the
\* chain.
Holder(fs, i, cell) ==
  CHOOSE h \in 0 .. i :
    /\ h > 0 => Has(fs[h], cell)
    /\ \A j \in (h + 1) .. i : ~Has(fs[j], cell)

Lookup(fs, i, cell) ==
  LET h == Holder(fs, i, cell)
  IN  IF h = 0 THEN chain[cell] ELSE fs[h].overlay[cell]

\* Mutant of ReadThrough: only the context that asks keeps a copy.
ReadThroughTopOnly(fs, cell, value) == [fs EXCEPT ![Len(fs)].overlay[cell] = value]

\* getAccountInfo, getStorageSlots: every context passed on the way to the
\* holder keeps a copy.
ReadThrough(fs, cell, value) ==
  LET h == Holder(fs, Len(fs), cell)
  IN  [i \in 1 .. Len(fs) |->
         IF i > h THEN [fs[i] EXCEPT !.overlay[cell] = value] ELSE fs[i]]

\* Mutant of SlotValues: asks the provider and not the calling context.
SlotValuesOfProvider(fs, cell) == {chain[cell]}

\* getStorageSlot fails when the provider's list is short; each context has
\* put a zero in its cache by then, and the zero stays.
SlotValues(fs, cell) ==
  {Lookup(fs, Len(fs), cell)}
    \cup IF ProviderMayFail /\ Holder(fs, Len(fs), cell) = 0 THEN {0} ELSE {}

Put(fs, cell, value) == [fs EXCEPT ![Len(fs)].overlay[cell] = value]

AddWord(x, y) == IF x + y < WordMod THEN x + y ELSE x + y - WordMod

GetAccountInfo(fs, account) ==
  ReadThrough(fs, <<account, Balance>>, Lookup(fs, Len(fs), <<account, Balance>>))

BalanceIn(fs, account) == fs[Len(fs)].overlay[<<account, Balance>>]

\* payAccount: the addition wraps.
PayAccount(fs, account, amount) ==
  LET read == GetAccountInfo(fs, account)
  IN  Put(read, <<account, Balance>>, AddWord(BalanceIn(read, account), amount))

DeductAccount(fs, account, amount) ==
  LET read == GetAccountInfo(fs, account)
  IN  Put(read, <<account, Balance>>, BalanceIn(read, account) - amount)

CanDeduct(fs, account, amount) ==
  BalanceIn(GetAccountInfo(fs, account), account) >= amount

\* Mutant of WriteChangesTo: entries the receiver already has win.
WriteChangesToOlderWins(src, dst) ==
  IF dst.isStatic THEN dst
  ELSE [dst EXCEPT !.overlay = [c \in Cell |-> IF Has(dst, c) THEN @[c] ELSE src.overlay[c]]]

\* writeChangesTo another context: all entries, those that were only read
\* included; a static context refuses them.
WriteChangesTo(src, dst) ==
  IF dst.isStatic THEN dst
  ELSE [dst EXCEPT
          !.overlay   = [c \in Cell |->
                           IF Has(src, c) THEN src.overlay[c] ELSE @[c]],
          !.transient = [c \in Address \X TransientKey |->
                           IF src.transient[c] # Absent THEN src.transient[c] ELSE @[c]]]

\* writeChangesTo the provider.
WriteToChain(src) ==
  [c \in Cell |-> IF Has(src, c) THEN src.overlay[c] ELSE chain[c]]

\* The end of callRaw, for the last context of fs.
Succeeded(fs) ==
  LET child == fs[Len(fs)]
      rest  == SubSeq(fs, 1, Len(fs) - 1)
  IN  IF child.kind = "staticcall" THEN rest
      ELSE [rest EXCEPT ![Len(rest)] = WriteChangesTo(child, @)]

-----------------------------------------------------------------------------
(* The value transfer at the start of runEVMRaw, for the last context of fs: *)
(* the payee is credited first, then the payer is debited.                   *)

Credited(fs, amount) == PayAccount(fs, fs[Len(fs)].address, amount)

\* Mutant of Transferred: debits the balance that was read before the credit.
TransferredFromStaleBalance(fs, amount) ==
  LET payer == fs[Len(fs)].caller
      stale == BalanceIn(GetAccountInfo(fs, payer), payer)
  IN  IF amount = 0 THEN fs
      ELSE Put(GetAccountInfo(Credited(fs, amount), payer), <<payer, Balance>>, stale - amount)

Transferred(fs, amount) ==
  IF amount = 0 THEN fs
  ELSE DeductAccount(Credited(fs, amount), fs[Len(fs)].caller, amount)

\* Mutant of CanTransfer: the payer's balance is not checked.
CanTransferUnchecked(fs, amount) == amount = 0 \/ ~fs[Len(fs)].isStatic

CanTransfer(fs, amount) ==
  amount = 0 \/ ( /\ ~fs[Len(fs)].isStatic
                  /\ CanDeduct(Credited(fs, amount), fs[Len(fs)].caller, amount) )

\* Mutant of Refused: the failed call's context is merged all the same.
RefusedButMerged(fs, amount) ==
  IF fs[Len(fs)].isStatic THEN SubSeq(fs, 1, Len(fs) - 1)
  ELSE Succeeded(Credited(fs, amount))

\* What a refused transfer leaves in the calling contexts: copies of the two
\* balances it read.  A static context refuses before it reads any.
Refused(fs, amount) ==
  LET child == fs[Len(fs)]
      read  == IF child.isStatic THEN fs
               ELSE GetAccountInfo(GetAccountInfo(fs, child.address), child.caller)
  IN  SubSeq(read, 1, Len(fs) - 1)

-----------------------------------------------------------------------------
(* Transactions: EVM::simulate and EVM::execute *)

Opened(from, to) == <<NewFrame("transaction", from, to, FALSE)>>

Started(from) ==
  /\ mode = "idle"
  /\ transactions < MaxTransactions
  /\ transactions' = transactions + 1
  /\ sender' = from

Begin(m, from, to, amount) ==
  /\ Started(from)
  /\ to \in Contract
  /\ CanTransfer(Opened(from, to), amount)
  /\ mode' = m
  /\ frames' = Transferred(Opened(from, to), amount)
  /\ UNCHANGED chain

\* No code at the recipient: success once the value has moved.
TransferToAccount(m, from, to, amount) ==
  /\ Started(from)
  /\ to \notin Contract
  /\ CanTransfer(Opened(from, to), amount)
  /\ chain' = IF m = "execute" THEN WriteToChain(Transferred(Opened(from, to), amount)[1])
              ELSE chain
  /\ UNCHANGED <<frames, mode>>

InsufficientEth(from, to, amount) ==
  /\ Started(from)
  /\ ~CanTransfer(Opened(from, to), amount)
  /\ UNCHANGED <<chain, frames, mode>>

\* The outermost frame ends.
Finish(success) ==
  /\ Depth = 1
  /\ chain' = IF success /\ mode = "execute" THEN WriteToChain(Top) ELSE chain
  /\ frames' = <<>>
  /\ mode' = "idle"
  /\ UNCHANGED <<sender, transactions>>

-----------------------------------------------------------------------------
(* Instructions of the running frame *)

Step(fs) == /\ frames' = fs
            /\ UNCHANGED <<chain, mode, sender, transactions>>

SLoad(k) ==
  /\ Depth > 0
  /\ \E v \in SlotValues(frames, <<Top.address, k>>) :
       Step(ReadThrough(frames, <<Top.address, k>>, v))

\* The previous value is fetched, so cached by every caller, before the write.
SStore(k, value) ==
  /\ Depth > 0
  /\ ~Top.isStatic
  /\ \E v \in SlotValues(frames, <<Top.address, k>>) :
       Step(Put(ReadThrough(frames, <<Top.address, k>>, v), <<Top.address, k>>, value))

BalanceOf(account) == Depth > 0 /\ Step(GetAccountInfo(frames, account))

\* tload asks the calling context for ITS OWN account's slot when this one
\* has no entry, and every context but the outermost keeps the answer.
TransientHolder(i, k) ==
  CHOOSE h \in 0 .. i :
    /\ h > 0 => frames[h].transient[<<frames[h].address, k>>] # Absent
    /\ \A j \in (h + 1) .. i : frames[j].transient[<<frames[j].address, k>>] = Absent

TransientValue(i, k) ==
  LET h == TransientHolder(i, k)
  IN  IF h = 0 THEN 0 ELSE frames[h].transient[<<frames[h].address, k>>]

\* Mutant of TLoad: overwrites the entries of the callers as well.
TLoadOverwritesCallers(k) ==
  /\ Depth > 0
  /\ Step([i \in 1 .. Depth |->
             IF i > 1
             THEN [frames[i] EXCEPT !.transient[<<frames[i].address, k>>] = TransientValue(Depth, k)]
             ELSE frames[i]])

TLoad(k) ==
  /\ Depth > 0
  /\ Step([i \in 1 .. Depth |->
             IF i > 1 /\ i > TransientHolder(Depth, k)
             THEN [frames[i] EXCEPT !.transient[<<frames[i].address, k>>] = TransientValue(Depth, k)]
             ELSE frames[i]])

TStore(k, value) ==
  /\ Depth > 0
  /\ ~Top.isStatic
  /\ Step([frames EXCEPT ![Depth].transient[<<Top.address, k>>] = value])

-----------------------------------------------------------------------------
(* Calls: generateCall, generateStaticCall and callRaw *)

\* Mutant of Child: only STATICCALL makes a static context.
ChildNotInheriting(kind, target) ==
  IF kind = "delegatecall"
  THEN NewFrame(kind, Top.caller, Top.address, FALSE)
  ELSE NewFrame(kind, Top.address, target, kind = "staticcall")

\* CALLCODE is dispatched like CALL; DELEGATECALL keeps caller and address.
Child(kind, target) ==
  IF kind = "delegatecall"
  THEN NewFrame(kind, Top.caller, Top.address, Top.isStatic)
  ELSE NewFrame(kind, Top.address, target, Top.isStatic \/ kind = "staticcall")

WithChild(kind, target) == Append(frames, Child(kind, target))

\* DELEGATECALL and STATICCALL move no value.
Callable(kind, amount) ==
  /\ Depth \in 1 .. (MaxDepth - 1)
  /\ kind \in {"delegatecall", "staticcall"} => amount = 0

Call(kind, target, amount) ==
  /\ Callable(kind, amount)
  /\ target \in Contract
  /\ CanTransfer(WithChild(kind, target), amount)
  /\ Step(Transferred(WithChild(kind, target), amount))

\* The callee has no code: success once the value has moved.
CallAccount(kind, target, amount) ==
  /\ Callable(kind, amount)
  /\ target \notin Contract
  /\ CanTransfer(WithChild(kind, target), amount)
  /\ Step(Succeeded(Transferred(WithChild(kind, target), amount)))

\* The transfer is refused (static state, insufficient eth); the caller goes
\* on with 0 on its stack.
CallRefused(kind, target, amount) ==
  /\ Callable(kind, amount)
  /\ ~CanTransfer(WithChild(kind, target), amount)
  /\ Step(Refused(WithChild(kind, target), amount))

\* STOP, RETURN or the end of the code, in a nested frame.
Return == Depth > 1 /\ Step(Succeeded(frames))

\* REVERT, INVALID, out of gas, a write in a static frame..., in a nested frame.
Fail == Depth > 1 /\ Step(Below)

-----------------------------------------------------------------------------

Init ==
  /\ chain \in Genesis
  /\ frames = <<>>
  /\ mode = "idle"
  /\ sender \in Sender
  /\ transactions = 0

Transaction ==
  \E from \in Sender, to \in Address, amount \in Amounts :
    \/ \E m \in {"simulate", "execute"} :
         Begin(m, from, to, amount) \/ TransferToAccount(m, from, to, amount)
    \/ InsufficientEth(from, to, amount)

Instruction ==
  \/ \E k \in Key : SLoad(k)
  \/ \E k \in Key, v \in StoredValues : SStore(k, v)
  \/ \E account \in Queried : BalanceOf(account)
  \/ \E k \in TransientKey : TLoad(k)
  \/ \E k \in TransientKey, v \in StoredValues : TStore(k, v)

CallInstruction ==
  \E kind \in CallKinds, target \in Address, amount \in Amounts :
    \/ Call(kind, target, amount)
    \/ CallAccount(kind, target, amount)
    \/ CallRefused(kind, target, amount)

Next ==
  \/ Transaction
  \/ Instruction
  \/ CallInstruction
  \/ Return
  \/ Fail
  \/ \E success \in BOOLEAN : Finish(success)

Spec == Init /\ [][Next]_vars

-----------------------------------------------------------------------------
(* What a running call sees, and the properties *)

\* The world as context i sees it; View(0) is the chain.
View(i) == [c \in Cell |-> Lookup(frames, i, c)]

CallStack == [i \in 1 .. Depth |-> [world    |-> View(i),
                                    self     |-> frames[i].address,
                                    readOnly |-> frames[i].isStatic]]

Nested == INSTANCE NestedState WITH base <- chain, stack <- CallStack

\* Overlays, read-through caching and whole-overlay write-back together behave
\* as private copies: every step of the contexts (EVMSimulationContext, callRaw,
\* EVM::simulate, EVM::execute) is a step of NestedState or changes nothing a
\* contract or the chain's owner can see.  In particular simulate never changes
\* the chain, a failed call leaves no trace in its caller, and writing back
\* entries that were only read is harmless.
ImplementsNestedState == Nested!Spec

\* Value is neither made nor lost: every running call and the chain account
\* for the same total, though payAccount credits before deductAccount checks.
SupplyConserved == \A i \in 0 .. Depth : TotalBalance(View(i)) = Supply

\* The outcome of a call decides what becomes of its copy: its caller sees the
\* world of a call that succeeded exactly as that call left it, nothing at all
\* of one that failed, and the chain gets that of a successful execute
\* (callRaw, EVM::execute).  The refinement alone would not tell a success that
\* lost its writes from a failure.
OutcomesDecide ==
  [][/\ Return => Nested!Return
     /\ Fail => Nested!Fail
     /\ \A success \in BOOLEAN : Finish(success) => Nested!Finish(success)]_vars

\* The contexts that hold a cell are always the outermost ones without a gap:
\* sload, sstore, payAccount and deductAccount only ever enter a cell into a
\* context after every caller of that context has it.
CachesNest ==
  \A c \in Cell : \E h \in 0 .. Depth : \A i \in 1 .. Depth :
    Has(frames[i], c) <=> i <= h

\* Nothing that happens under a STATICCALL, however deep, changes state: whatever
\* a context under a static one holds, its caller holds with the same value.
StaticFramesOnlyCache ==
  \A i \in 2 .. Depth :
    (\E j \in 1 .. i : frames[j].isStatic) =>
      \A c \in Cell : Has(frames[i], c) => frames[i].overlay[c] = frames[i - 1].overlay[c]

\* TLOAD is repeatable across calls: what a suspended frame would read from
\* transient storage changes only when a callee of its own that may write
\* succeeds, although the TLOADs of deeper frames write into its transient map.
SuspendedTransientStable ==
  [][\A i \in 1 .. Depth - 1 : \A k \in TransientKey :
       \/ i > Len(frames')
       \/ i = Depth - 1 /\ ~Top.isStatic /\ Return
       \/ TransientValue(i, k)' = TransientValue(i, k)]_vars

\* TLOAD reads the account's own transient storage: the entry of the nearest
\* context that has one for this account, else zero.
OwnTransientValue(i, k) ==
  LET cell   == <<frames[i].address, k>>
      Holds(j) == frames[j].transient[cell] # Absent
  IN  IF \E j \in 1 .. i : Holds(j)
      THEN frames[CHOOSE j \in 1 .. i : Holds(j) /\ \A l \in j + 1 .. i : ~Holds(l)].transient[cell]
      ELSE 0

TransientIsPerAccount ==
  \A i \in 1 .. Depth : \A k \in TransientKey :
    TransientValue(i, k) = OwnTransientValue(i, k)

\* A call that carries value starts only if its caller could pay for it.
ValueIsCovered ==
  [][\A kind \in CallKinds, target \in Address, amount \in Amounts :
       Call(kind, target, amount) => View(Depth)[<<Top.address, Balance>>] >= amount]_vars
=============================================================================

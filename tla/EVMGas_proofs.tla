---------------------------- MODULE EVMGas_proofs ----------------------------
(***************************************************************************)
(* Proofs about EVMGas, for every set of accounts, every gas schedule and  *)
(* every depth of calls.                                                   *)
(***************************************************************************)
EXTENDS EVMGas, DataLemmas, SequenceTheorems, TLAPS

(***************************************************************************)
(* The inductive invariant.  Suspended contexts have paid for exactly the  *)
(* memory they hold; only the running one may have paid for memory it did  *)
(* not get, and then it is past its limit, so it never runs again.  That   *)
(* matters because gas wraps: a charge to a context that ran on could hide *)
(* that it is past its limit.                                              *)
(***************************************************************************)

Nests(fs) ==
  \A i \in 2 .. Len(fs) :
    /\ fs[i - 1].warm \subseteq fs[i].warm
    /\ fs[i].codes \subseteq fs[i - 1].codes

Settled(f) == f.paid = MemoryCost(f.memory)

SettledBelow(fs) == \A i \in 1 .. Len(fs) - 1 : Settled(fs[i])

Stopped(f) == f.ticked /\ f.gasUsed > f.gasLimit

Good(fs) ==
  /\ fs \in Seq(Frame)
  /\ Nests(fs)
  /\ SettledBelow(fs)

\* A stack that may go on.
AllSettled(fs) == Good(fs) /\ (Len(fs) > 0 => Settled(fs[Len(fs)]))

Inv == Good(frames) /\ (Depth > 0 => Settled(Top) \/ Stopped(Top))

-----------------------------------------------------------------------------
(* Arithmetic *)

LEMMA DivIsMonotone ==
  ASSUME NEW x \in Nat, NEW y \in Nat, x <= y, NEW d \in Nat \ {0}
  PROVE  x \div d \in Nat /\ x \div d <= y \div d
OBVIOUS

LEMMA SquareIsMonotone ==
  ASSUME NEW x \in Nat, NEW y \in Nat, x <= y
  PROVE  x * x \in Nat /\ x * x <= y * y
OBVIOUS

LEMMA ProductIsMonotone ==
  ASSUME NEW x \in Nat, NEW y \in Nat, x <= y, NEW c \in Nat
  PROVE  c * x \in Nat /\ c * x <= c * y
OBVIOUS

LEMMA MemoryCostIsMonotone ==
  ASSUME NEW x \in Nat, NEW y \in Nat, x <= y
  PROVE  MemoryCost(x) \in Nat /\ MemoryCost(x) <= MemoryCost(y)
<1> DEFINE wx == (x + WordBytes - 1) \div WordBytes
           wy == (y + WordBytes - 1) \div WordBytes
<1>1. x + WordBytes - 1 \in Nat /\ y + WordBytes - 1 \in Nat
      /\ x + WordBytes - 1 <= y + WordBytes - 1
  BY GasAssumption
<1>2. wx \in Nat /\ wy \in Nat /\ wx <= wy
  BY <1>1, DivIsMonotone, GasAssumption
<1> HIDE DEF wx, wy
<1>3. wx * wx \in Nat /\ wy * wy \in Nat /\ wx * wx <= wy * wy
  BY <1>2, SquareIsMonotone
<1>4. (wx * wx) \div QuadDivisor \in Nat /\ (wy * wy) \div QuadDivisor \in Nat
      /\ (wx * wx) \div QuadDivisor <= (wy * wy) \div QuadDivisor
  BY <1>3, DivIsMonotone, GasAssumption
<1>5. LinearCost * wx \in Nat /\ LinearCost * wy \in Nat /\ LinearCost * wx <= LinearCost * wy
  BY <1>2, ProductIsMonotone, GasAssumption
<1>6. MemoryCost(x) = (wx * wx) \div QuadDivisor + LinearCost * wx
      /\ MemoryCost(y) = (wy * wy) \div QuadDivisor + LinearCost * wy
  BY DEF MemoryCost, wx, wy
<1>7. QED
  BY <1>4, <1>5, <1>6

LEMMA NothingForNoMemory == MemoryCost(0) = 0
<1>1. (0 + WordBytes - 1) \div WordBytes = 0
  BY GasAssumption
<1>2. (0 * 0) \div QuadDivisor = 0 /\ LinearCost * 0 = 0
  BY GasAssumption
<1>3. QED
  BY <1>1, <1>2 DEF MemoryCost

LEMMA PlusIsUint ==
  ASSUME NEW gas \in Nat, NEW cost \in Nat
  PROVE  Plus(gas, cost) \in Uint
BY GasAssumption DEF Plus, Uint

LEMMA RemainingIsUint ==
  ASSUME NEW f \in Frame
  PROVE  RemainingGas(f) \in Uint
BY GasAssumption DEF RemainingGas, Uint, Frame

LEMMA AllowanceIsUint ==
  ASSUME NEW f \in Frame, NEW gas \in Nat
  PROVE  Allowance(f, gas) \in Uint
<1> DEFINE product == (RemainingGas(f) * ShareNum) % UintMod
<1>1. RemainingGas(f) * ShareNum \in Nat
  BY RemainingIsUint, GasAssumption DEF Uint
<1>2. product \in 0 .. UintMod - 1
  BY <1>1, GasAssumption
<1> HIDE DEF product
<1>3. product \div ShareDen \in 0 .. product
  BY <1>2, GasAssumption
<1>4. Allowance(f, gas) = IF gas < product \div ShareDen THEN gas ELSE product \div ShareDen
  BY DEF Allowance, product
<1>5. QED
  BY <1>2, <1>3, <1>4, GasAssumption DEF Uint
-----------------------------------------------------------------------------
(* One context *)

\* What the instructions of a context leave alone.
SameCall(f, g) ==
  /\ g.kind = f.kind /\ g.address = f.address /\ g.caller = f.caller
  /\ g.gasLimit = f.gasLimit

LEMMA FrameGas ==
  ASSUME NEW f \in Frame
  PROVE  f.gasUsed \in Nat /\ f.gasLimit \in Nat
BY GasAssumption DEF Frame, Uint

LEMMA ChargeFrame ==
  ASSUME NEW f \in Frame, NEW gas \in Uint
  PROVE  LET g == [f EXCEPT !.gasUsed = gas]
         IN  /\ g \in Frame /\ SameCall(f, g) /\ g.gasUsed = gas
             /\ g.memory = f.memory /\ g.paid = f.paid /\ g.ticked = f.ticked
             /\ g.warm = f.warm /\ g.codes = f.codes /\ g.pc = f.pc
BY DEF Frame, SameCall

LEMMA WarmFrame ==
  ASSUME NEW f \in Frame, NEW account \in Address
  PROVE  LET g == WarmAccount(f, account)
         IN  /\ g \in Frame /\ SameCall(f, g) /\ g.gasUsed \in Uint
             /\ g.memory = f.memory /\ g.paid = f.paid /\ g.ticked = f.ticked
             /\ g.warm = f.warm \cup {account} /\ g.codes = f.codes /\ g.pc = f.pc
<1>1. ColdCharge(f, account) \in Nat
  BY GasAssumption DEF ColdCharge
<1>2. f.gasUsed \in Nat /\ f.warm \in SUBSET Address
  BY GasAssumption DEF Frame, Uint
<1>3. Plus(f.gasUsed, ColdCharge(f, account)) \in Uint
  BY <1>1, <1>2, PlusIsUint
<1>4. QED
  BY <1>2, <1>3 DEF WarmAccount, Frame, SameCall

LEMMA KeepCode ==
  ASSUME NEW f \in Frame, NEW account \in Address
  PROVE  LET g == [f EXCEPT !.codes = @ \cup {account}]
         IN  /\ g \in Frame /\ SameCall(f, g) /\ g.gasUsed = f.gasUsed
             /\ g.memory = f.memory /\ g.paid = f.paid /\ g.ticked = f.ticked
             /\ g.warm = f.warm /\ g.codes = f.codes \cup {account} /\ g.pc = f.pc
BY DEF Frame, SameCall

LEMMA ChargedForMemoryFrame ==
  ASSUME NEW f \in Frame, NEW end \in Nat
  PROVE  LET g == ChargedForMemory(f, end)
         IN  /\ g \in Frame /\ SameCall(f, g)
             /\ g.memory = f.memory /\ g.ticked = f.ticked
             /\ g.paid = f.paid + ExpansionCost(f, end)
             /\ g.warm = f.warm /\ g.codes = f.codes /\ g.pc = f.pc
<1>1. f.memory \in Nat /\ f.gasUsed \in Nat /\ f.paid \in Nat
  BY GasAssumption DEF Frame, Uint
<1>2. ExpansionCost(f, end) \in Nat
  BY <1>1, MemoryCostIsMonotone DEF ExpansionCost
<1>3. ASSUME NEW cost \in Nat
      PROVE  LET g == [f EXCEPT !.gasUsed = Plus(@, cost), !.paid = @ + cost]
             IN  /\ g \in Frame /\ SameCall(f, g)
                 /\ g.memory = f.memory /\ g.ticked = f.ticked
                 /\ g.paid = f.paid + cost
                 /\ g.warm = f.warm /\ g.codes = f.codes /\ g.pc = f.pc
  <2>1. Plus(f.gasUsed, cost) \in Uint /\ f.paid + cost \in Nat
    BY <1>1, PlusIsUint
  <2>2. QED
    BY <2>1 DEF Frame, SameCall
<1>4. QED
  BY <1>2, <1>3 DEF ChargedForMemory

\* expandMemory leaves a context that has paid for the memory it holds, or
\* refuses and leaves one that is past its limit or unchanged.
LEMMA ExpandMemoryFrame ==
  ASSUME NEW f \in Frame, NEW end \in Nat
  PROVE  LET g == ExpandMemory(f, end)
         IN  /\ g \in Frame /\ SameCall(f, g) /\ g.ticked = f.ticked
             /\ g.warm = f.warm /\ g.codes = f.codes /\ g.pc = f.pc
             /\ Settled(f) => Settled(g) \/ g.gasUsed > g.gasLimit
             /\ Settled(f) /\ CanExpand(f, end) => Settled(g)
<1> DEFINE c == ChargedForMemory(f, end)
<1>1. /\ c \in Frame /\ SameCall(f, c)
      /\ c.memory = f.memory /\ c.ticked = f.ticked
      /\ c.paid = f.paid + ExpansionCost(f, end)
      /\ c.warm = f.warm /\ c.codes = f.codes /\ c.pc = f.pc
  BY ChargedForMemoryFrame
<1> HIDE DEF c
<1>2. f.memory \in Nat /\ f.paid \in Nat /\ f.gasUsed \in Nat /\ f.gasLimit \in Nat
      /\ c.gasUsed \in Nat /\ c.gasLimit \in Nat
  BY <1>1, GasAssumption DEF Frame, Uint
<1>3. CASE end > MaxMemory \/ end <= f.memory
  <2>1. ExpandMemory(f, end) = f
    BY <1>3 DEF ExpandMemory
  <2>2. QED
    BY <2>1 DEF SameCall
<1>4. CASE end <= MaxMemory /\ end > f.memory /\ CanExpand(f, end)
  <2>0. ~(end > MaxMemory \/ end <= f.memory)
    BY <1>2, <1>4, GasAssumption
  <2>1. ExpandMemory(f, end) = [c EXCEPT !.memory = end]
    BY <1>4, <2>0, Zenon DEF ExpandMemory, c
  <2>2. end \in 0 .. MaxMemory
    BY <1>4, GasAssumption
  <2>3. LET g == ExpandMemory(f, end)
        IN /\ g \in Frame /\ SameCall(f, g) /\ g.ticked = f.ticked
           /\ g.warm = f.warm /\ g.codes = f.codes /\ g.pc = f.pc
           /\ g.memory = end /\ g.paid = c.paid
    BY <1>1, <2>1, <2>2 DEF Frame, SameCall
  <2>4. ExpansionCost(f, end) = MemoryCost(end) - MemoryCost(f.memory)
    BY <1>4 DEF ExpansionCost
  <2>5. MemoryCost(end) \in Nat /\ MemoryCost(f.memory) \in Nat
    BY <1>2, MemoryCostIsMonotone
  <2>6. Settled(f) => Settled(ExpandMemory(f, end))
    BY <1>1, <1>2, <2>3, <2>4, <2>5 DEF Settled
  <2>7. QED
    BY <2>3, <2>6
<1>5. CASE end <= MaxMemory /\ end > f.memory /\ ~CanExpand(f, end)
  <2>1. ExpandMemory(f, end) = c
    BY <1>2, <1>5, GasAssumption DEF ExpandMemory, c
  <2>2. ~(c.gasUsed <= f.gasLimit)
    BY <1>5 DEF CanExpand, c
  <2>3. c.gasUsed > c.gasLimit
    BY <1>1, <1>2, <2>2 DEF SameCall
  <2>4. QED
    BY <1>1, <1>5, <2>1, <2>3
<1>6. QED
  BY <1>2, <1>3, <1>4, <1>5, GasAssumption
-----------------------------------------------------------------------------
(* The stack of contexts *)

LEMMA StackFacts ==
  ASSUME NEW fs, Good(fs), Len(fs) > 0
  PROVE  /\ Len(fs) \in Nat /\ fs \in Seq(Frame) /\ Len(fs) \in 1 .. Len(fs)
         /\ fs[Len(fs)] \in Frame
         /\ \A i \in 1 .. Len(fs) : fs[i] \in Frame
BY ElementOfSeq, LenProperties DEF Good

\* The running context may change as it likes, as long as its caches do not
\* leave those of its caller.
LEMMA ReplaceTop ==
  ASSUME NEW fs, Good(fs), Len(fs) > 0,
         NEW g \in Frame, fs[Len(fs)].warm \subseteq g.warm, g.codes = fs[Len(fs)].codes
  PROVE  LET gs == [fs EXCEPT ![Len(fs)] = g]
         IN  /\ Good(gs) /\ Len(gs) = Len(fs) /\ gs[Len(gs)] = g
<1> DEFINE n == Len(fs)
           gs == [fs EXCEPT ![n] = g]
<1>1. n \in Nat /\ n > 0 /\ n \in 1 .. n /\ fs \in Seq(Frame)
  BY StackFacts
<1>2. gs \in Seq(Frame) /\ Len(gs) = n /\ gs[n] = g
      /\ \A i \in 1 .. n : i # n => gs[i] = fs[i]
  BY <1>1, ExceptSeq
<1>3. g.warm \in SUBSET Address /\ fs[n].warm \subseteq g.warm /\ g.codes = fs[n].codes
  BY DEF Frame
<1> HIDE DEF n, gs
<1>4. Nests(gs)
  <2> SUFFICES ASSUME NEW i \in 2 .. n
               PROVE  gs[i - 1].warm \subseteq gs[i].warm /\ gs[i].codes \subseteq gs[i - 1].codes
    BY <1>2 DEF Nests
  <2>1. fs[i - 1].warm \subseteq fs[i].warm /\ fs[i].codes \subseteq fs[i - 1].codes
    BY DEF Good, Nests, n
  <2>2. i - 1 \in 1 .. n /\ i - 1 # n /\ i \in 1 .. n
    BY <1>1
  <2>3. CASE i = n
    BY <1>2, <1>3, <2>1, <2>2, <2>3
  <2>4. CASE i # n
    BY <1>2, <2>1, <2>2, <2>4
  <2>5. QED
    BY <2>3, <2>4
<1>5. SettledBelow(gs)
  <2>1. \A i \in 1 .. n - 1 : i \in 1 .. n /\ i # n
    BY <1>1
  <2>2. \A i \in 1 .. n - 1 : gs[i] = fs[i] /\ Settled(fs[i])
    BY <1>2, <2>1 DEF Good, SettledBelow, n
  <2>3. QED
    BY <1>2, <2>2 DEF SettledBelow
<1>6. QED
  BY <1>2, <1>4, <1>5 DEF Good, gs, n

\* A request for code warms and charges the contexts from the outermost to the
\* first that needs it, and leaves everything else alone.
LEMMA GetContractCodeGood ==
  ASSUME NEW fs, Good(fs), Len(fs) > 0, NEW account \in Address
  PROVE  LET gs == GetContractCode(fs, account)
         IN  /\ Good(gs) /\ Len(gs) = Len(fs)
             /\ SameCall(fs[Len(fs)], gs[Len(gs)])
             /\ gs[Len(gs)].memory = fs[Len(fs)].memory
             /\ gs[Len(gs)].paid = fs[Len(fs)].paid
             /\ gs[Len(gs)].pc = fs[Len(fs)].pc
<1> DEFINE n == Len(fs)
           gs == GetContractCode(fs, account)
           Kept(i) == \E j \in i .. n : account \in fs[j].codes
           With(f) == [WarmAccount(f, account) EXCEPT !.codes = @ \cup {account}]
<1>1. n \in Nat /\ n > 0 /\ n \in 1 .. n /\ \A i \in 1 .. n : fs[i] \in Frame
  BY StackFacts
<1>2. gs = [i \in 1 .. n |-> IF Kept(i) THEN fs[i] ELSE With(fs[i])]
  BY DEF GetContractCode
<1>3. ASSUME NEW f \in Frame
      PROVE  /\ With(f) \in Frame /\ SameCall(f, With(f))
             /\ With(f).memory = f.memory /\ With(f).paid = f.paid /\ With(f).pc = f.pc
             /\ With(f).warm = f.warm \cup {account}
             /\ With(f).codes = f.codes \cup {account}
  <2>1. WarmAccount(f, account) \in Frame
    BY WarmFrame
  <2>2. QED
    BY <2>1, WarmFrame, KeepCode DEF SameCall
<1> HIDE DEF n, gs, Kept, With
<1>4. \A i \in 1 .. n : gs[i] = IF Kept(i) THEN fs[i] ELSE With(fs[i])
  BY <1>2
<1>5. \A i \in 1 .. n : gs[i] \in Frame
  BY <1>1, <1>3, <1>4
<1>6. gs \in Seq(Frame) /\ Len(gs) = n
  <2>1. gs \in [1 .. n -> Frame]
    BY <1>2, <1>5
  <2>2. QED
    BY <1>1, <2>1, SeqDef, LenProperties
<1>7. \A i \in 1 .. n : /\ SameCall(fs[i], gs[i]) /\ gs[i].memory = fs[i].memory
                        /\ gs[i].paid = fs[i].paid /\ gs[i].pc = fs[i].pc
  BY <1>1, <1>3, <1>4 DEF SameCall
<1>8. Nests(gs)
  <2> SUFFICES ASSUME NEW i \in 2 .. n
               PROVE  gs[i - 1].warm \subseteq gs[i].warm /\ gs[i].codes \subseteq gs[i - 1].codes
    BY <1>6 DEF Nests
  <2>1. fs[i - 1].warm \subseteq fs[i].warm /\ fs[i].codes \subseteq fs[i - 1].codes
    BY DEF Good, Nests, n
  <2>2. i - 1 \in 1 .. n /\ i \in 1 .. n /\ i - 1 \in Int
    BY <1>1
  <2>3. Kept(i) => Kept(i - 1)
    <3>1. \A j \in i .. n : j \in (i - 1) .. n
      BY <1>1
    <3>2. QED
      BY <3>1 DEF Kept
  <2>4. Kept(i - 1) /\ ~Kept(i) => account \in fs[i - 1].codes
    <3>1. \A j \in (i - 1) .. n : j = i - 1 \/ j \in i .. n
      BY <1>1
    <3>2. QED
      BY <3>1 DEF Kept
  <2>5. CASE Kept(i)
    BY <1>4, <2>1, <2>2, <2>3, <2>5
  <2>6. CASE ~Kept(i) /\ Kept(i - 1)
    <3>1. gs[i] = With(fs[i]) /\ gs[i - 1] = fs[i - 1] /\ fs[i] \in Frame
      BY <1>1, <1>4, <2>2, <2>6
    <3>2. gs[i].warm = fs[i].warm \cup {account} /\ gs[i].codes = fs[i].codes \cup {account}
      BY <1>3, <3>1
    <3>3. QED
      BY <2>1, <2>4, <2>6, <3>1, <3>2
  <2>7. CASE ~Kept(i) /\ ~Kept(i - 1)
    <3>1. gs[i] = With(fs[i]) /\ gs[i - 1] = With(fs[i - 1]) /\ fs[i] \in Frame /\ fs[i - 1] \in Frame
      BY <1>1, <1>4, <2>2, <2>7
    <3>2. gs[i].warm = fs[i].warm \cup {account} /\ gs[i].codes = fs[i].codes \cup {account}
          /\ gs[i - 1].warm = fs[i - 1].warm \cup {account}
          /\ gs[i - 1].codes = fs[i - 1].codes \cup {account}
      BY <1>3, <3>1
    <3>3. QED
      BY <2>1, <3>2
  <2>8. QED
    BY <2>5, <2>6, <2>7
<1>9. SettledBelow(gs)
  <2>1. \A i \in 1 .. n - 1 : i \in 1 .. n /\ Settled(fs[i])
    BY <1>1 DEF Good, SettledBelow, n
  <2>2. QED
    BY <1>6, <1>7, <2>1 DEF SettledBelow, Settled
<1>10. QED
  BY <1>1, <1>6, <1>7, <1>8, <1>9 DEF Good, gs, n
\* A stack that may go on has a running context that has paid for its memory.
LEMMA AllSettledFacts ==
  ASSUME NEW fs, AllSettled(fs), Len(fs) > 0
  PROVE  Good(fs) /\ Settled(fs[Len(fs)]) /\ \A i \in 1 .. Len(fs) : Settled(fs[i])
<1>1. Len(fs) \in Nat /\ \A i \in 1 .. Len(fs) : i \in 1 .. Len(fs) - 1 \/ i = Len(fs)
  BY StackFacts DEF AllSettled
<1>2. QED
  BY <1>1 DEF AllSettled, Good, SettledBelow

LEMMA ReplaceSettledTop ==
  ASSUME NEW fs, AllSettled(fs), Len(fs) > 0,
         NEW g \in Frame, fs[Len(fs)].warm \subseteq g.warm, g.codes = fs[Len(fs)].codes,
         Settled(g)
  PROVE  LET gs == [fs EXCEPT ![Len(fs)] = g]
         IN  AllSettled(gs) /\ Len(gs) = Len(fs) /\ gs[Len(gs)] = g
BY ReplaceTop DEF AllSettled

LEMMA ChargeGood ==
  ASSUME NEW fs, AllSettled(fs), Len(fs) > 0, NEW cost \in Nat
  PROVE  LET gs == Charge(fs, cost)
         IN  /\ AllSettled(gs) /\ Len(gs) = Len(fs)
             /\ SameCall(fs[Len(fs)], gs[Len(gs)])
             /\ gs[Len(gs)].ticked = fs[Len(fs)].ticked
<1> DEFINE f == fs[Len(fs)]
           g == [f EXCEPT !.gasUsed = Plus(@, cost)]
<1>1. f \in Frame
  BY StackFacts DEF AllSettled
<1> HIDE DEF f
<1>2. Plus(f.gasUsed, cost) \in Uint
  BY <1>1, FrameGas, PlusIsUint
<1>3. /\ g \in Frame /\ SameCall(f, g) /\ g.memory = f.memory /\ g.paid = f.paid
      /\ g.ticked = f.ticked /\ g.warm = f.warm /\ g.codes = f.codes
  BY <1>1, <1>2, ChargeFrame
<1>4. Charge(fs, cost) = [fs EXCEPT ![Len(fs)] = g]
  BY DEF Charge, f
<1> HIDE DEF g
<1>5. Settled(g)
  BY <1>3, AllSettledFacts DEF Settled, f
<1> DEFINE gs == [fs EXCEPT ![Len(fs)] = g]
<1>6. AllSettled(gs) /\ Len(gs) = Len(fs) /\ gs[Len(gs)] = g
  BY <1>3, <1>5, ReplaceSettledTop DEF f
<1> HIDE DEF gs
<1>7. QED
  BY <1>3, <1>4, <1>6 DEF f, gs

LEMMA ExpandTop ==
  ASSUME NEW fs, AllSettled(fs), Len(fs) > 0, NEW end \in Nat
  PROVE  LET gs == [fs EXCEPT ![Len(fs)] = ExpandMemory(@, end)]
         IN  /\ Good(gs) /\ Len(gs) = Len(fs)
             /\ gs[Len(gs)].ticked = fs[Len(fs)].ticked
             /\ Settled(gs[Len(gs)]) \/ gs[Len(gs)].gasUsed > gs[Len(gs)].gasLimit
             /\ CanExpand(fs[Len(fs)], end) => AllSettled(gs)
<1> DEFINE f == fs[Len(fs)]
           g == ExpandMemory(f, end)
           gs == [fs EXCEPT ![Len(fs)] = g]
<1>1. f \in Frame /\ Settled(f) /\ Good(fs)
  BY StackFacts, AllSettledFacts
<1>2. /\ g \in Frame /\ g.ticked = f.ticked /\ g.warm = f.warm /\ g.codes = f.codes
      /\ Settled(g) \/ g.gasUsed > g.gasLimit
      /\ CanExpand(f, end) => Settled(g)
  BY <1>1, ExpandMemoryFrame
<1> HIDE DEF g
<1>3. Good(gs) /\ Len(gs) = Len(fs) /\ gs[Len(gs)] = g
  BY <1>1, <1>2, ReplaceTop
<1>4. gs = [fs EXCEPT ![Len(fs)] = ExpandMemory(@, end)]
  BY DEF g
<1> HIDE DEF f, gs
<1>5. QED
  BY <1>2, <1>3, <1>4 DEF AllSettled, f

\* However the running call ends, the contexts below it may go on: nothing a
\* callee does to them leaves its caller's caches behind.
LEMMA EndedGood ==
  ASSUME NEW fs, Good(fs), Len(fs) > 0, NEW success \in BOOLEAN
  PROVE  AllSettled(Ended(fs, success))
<1> DEFINE n == Len(fs)
           m == n - 1
           callee == fs[n]
           rest == SubSeq(fs, 1, m)
           g == [rest[m] EXCEPT
                   !.gasUsed = Plus(@, callee.gasUsed),
                   !.warm    = IF success /\ callee.kind # "staticcall"
                               THEN @ \cup callee.warm ELSE @]
<1>1. n \in Nat /\ n > 0 /\ fs \in Seq(Frame) /\ \A i \in 1 .. n : fs[i] \in Frame
  BY StackFacts
<1>2. CASE n = 1
  <2>1. Ended(fs, success) = <<>>
    BY <1>2 DEF Ended
  <2>2. Len(<<>>) = 0 /\ <<>> \in Seq(Frame)
    BY EmptySeq
  <2>3. Good(<<>>)
    BY <2>2 DEF Good, Nests, SettledBelow
  <2>4. QED
    BY <2>1, <2>2, <2>3 DEF AllSettled
<1>3. CASE n # 1
  <2> HIDE DEF g, rest, callee, n
  <2>1. m \in 1 .. n /\ m + 1 = n /\ m \in Nat /\ m > 0
    BY <1>1, <1>3
  <2> USE DEF n, rest, callee
  <2>2. rest \in Seq(Frame) /\ Len(rest) = m /\ \A i \in 1 .. m : rest[i] = fs[i]
    BY <1>1, <2>1, SubSeqProperties
  <2>3. AllSettled(rest)
    <3>1. Nests(rest)
      <4>1. \A i \in 2 .. m : i \in 2 .. n /\ i \in 1 .. m /\ i - 1 \in 1 .. m
        BY <2>1
      <4>2. QED
        BY <2>2, <4>1 DEF Good, Nests
    <3>2. \A i \in 1 .. m : Settled(rest[i])
      BY <2>1, <2>2 DEF Good, SettledBelow
    <3>3. \A i \in 1 .. m - 1 : i \in 1 .. m
      BY <2>1
    <3>4. m \in 1 .. m
      BY <2>1
    <3>5. QED
      BY <2>2, <3>1, <3>2, <3>3, <3>4 DEF AllSettled, Good, SettledBelow
  <2>4. rest[m] \in Frame /\ callee \in Frame
    BY <1>1, <2>1, <2>2
  <2> HIDE DEF rest, callee, m, n
  <2>5. Plus(rest[m].gasUsed, callee.gasUsed) \in Uint
    BY <2>4, FrameGas, PlusIsUint
  <2> USE DEF g
  <2>6. /\ g \in Frame /\ g.memory = rest[m].memory /\ g.paid = rest[m].paid
        /\ rest[m].warm \subseteq g.warm /\ g.codes = rest[m].codes
    BY <2>4, <2>5 DEF Frame
  <2>7. Settled(g)
    BY <2>1, <2>2, <2>3, <2>6, AllSettledFacts DEF Settled
  <2>8. Ended(fs, success) = [rest EXCEPT ![m] = g]
    BY <1>3, Zenon DEF Ended, rest, callee, m, n
  <2> HIDE DEF g
  <2>9. AllSettled([rest EXCEPT ![Len(rest)] = g])
    BY <2>1, <2>2, <2>3, <2>6, <2>7, ReplaceSettledTop
  <2>10. QED
    BY <2>2, <2>8, <2>9
<1>4. QED
  BY <1>2, <1>3
LEMMA GetContractCodeSettled ==
  ASSUME NEW fs, AllSettled(fs), Len(fs) > 0, NEW account \in Address
  PROVE  LET gs == GetContractCode(fs, account)
         IN  /\ AllSettled(gs) /\ Len(gs) = Len(fs)
BY GetContractCodeGood DEF AllSettled, Settled

LEMMA EnterGood ==
  ASSUME NEW fs, AllSettled(fs), Len(fs) > 0, NEW account
  PROVE  AllSettled(Enter(fs, account)) /\ Len(Enter(fs, account)) = Len(fs)
<1>1. CASE account \in DOMAIN Delegate
  <2>1. Delegate[account] \in Address
    BY <1>1, GasAssumption DEF Range
  <2>2. QED
    BY <1>1, <2>1, GetContractCodeSettled DEF Enter
<1>2. CASE account \notin DOMAIN Delegate
  BY <1>2 DEF Enter
<1>3. QED
  BY <1>1, <1>2

LEMMA NewFrameFacts ==
  ASSUME NEW kind \in CallKinds \cup {"transaction"},
         NEW caller \in Address, NEW address \in Address,
         NEW limit \in Uint, NEW used \in Uint,
         NEW warm \in SUBSET Address, NEW codes \in SUBSET Address
  PROVE  LET f == NewFrame(kind, caller, address, limit, used, warm, codes)
         IN  f \in Frame /\ Settled(f) /\ warm \subseteq f.warm /\ f.codes = codes
<1>1. 0 \in 0 .. CodeLength /\ 0 \in 0 .. MaxMemory
  BY GasAssumption
<1>2. QED
  BY <1>1, NothingForNoMemory DEF NewFrame, Frame, Settled

\* A callee starts with everything that is warm for its caller and no code.
LEMMA CalleeGood ==
  ASSUME NEW fs, AllSettled(fs), Len(fs) > 0,
         NEW kind \in CallKinds, NEW target \in Address, NEW gas \in Nat
  PROVE  LET gs == WithCallee(fs, kind, target, gas)
         IN  AllSettled(gs) /\ Len(gs) = Len(fs) + 1
<1> DEFINE n == Len(fs)
           caller == fs[n]
           callee == IF kind = "delegatecall"
                     THEN NewFrame(kind, caller.caller, caller.address, Allowance(caller, gas), 0, caller.warm, {})
                     ELSE NewFrame(kind, caller.address, target, Allowance(caller, gas), 0, caller.warm, {})
           gs == Append(fs, callee)
<1>1. n \in Nat /\ n > 0 /\ fs \in Seq(Frame) /\ caller \in Frame
  BY StackFacts DEF AllSettled
<1>2. /\ callee \in Frame /\ Settled(callee)
      /\ caller.warm \subseteq callee.warm /\ callee.codes = {}
  <2>1. caller.caller \in Address /\ caller.address \in Address /\ caller.warm \in SUBSET Address
    BY <1>1 DEF Frame
  <2> HIDE DEF caller
  <2>2. Allowance(caller, gas) \in Uint
    BY <1>1, AllowanceIsUint
  <2>3. /\ 0 \in Uint /\ {} \in SUBSET Address /\ kind \in CallKinds \cup {"transaction"}
        /\ 0 \in 0 .. CodeLength /\ 0 \in 0 .. MaxMemory
    BY GasAssumption DEF Uint
  <2>4. CASE kind = "delegatecall"
    <3> DEFINE f == NewFrame(kind, caller.caller, caller.address, Allowance(caller, gas), 0, caller.warm, {})
    <3>1. callee = f
      BY <2>4, Zenon
    <3>2. f \in Frame /\ Settled(f) /\ caller.warm \subseteq f.warm /\ f.codes = {}
      BY <2>1, <2>2, <2>3, NothingForNoMemory DEF NewFrame, Frame, Settled
    <3> HIDE DEF callee, f
    <3>3. QED
      BY <3>1, <3>2
  <2>5. CASE kind # "delegatecall"
    <3> DEFINE f == NewFrame(kind, caller.address, target, Allowance(caller, gas), 0, caller.warm, {})
    <3>1. callee = f
      BY <2>5, Zenon
    <3>2. f \in Frame /\ Settled(f) /\ caller.warm \subseteq f.warm /\ f.codes = {}
      BY <2>1, <2>2, <2>3, NothingForNoMemory DEF NewFrame, Frame, Settled
    <3> HIDE DEF callee, f
    <3>3. QED
      BY <3>1, <3>2
  <2>6. QED
    BY <2>4, <2>5
<1> HIDE DEF callee
<1>3. WithCallee(fs, kind, target, gas) = gs
  BY Zenon DEF WithCallee, callee
<1>4. /\ gs \in Seq(Frame) /\ Len(gs) = n + 1
      /\ \A i \in 1 .. n : gs[i] = fs[i]
      /\ gs[n + 1] = callee
  BY <1>1, <1>2, AppendProperties
<1> HIDE DEF gs, n, caller
<1>5. Nests(gs)
  <2> SUFFICES ASSUME NEW i \in 2 .. n + 1
               PROVE  gs[i - 1].warm \subseteq gs[i].warm /\ gs[i].codes \subseteq gs[i - 1].codes
    BY <1>4 DEF Nests
  <2>1. CASE i = n + 1
    <3>1. i - 1 = n /\ n \in 1 .. n
      BY <1>1, <2>1
    <3>2. QED
      BY <1>2, <1>4, <2>1, <3>1 DEF caller
  <2>2. CASE i # n + 1
    <3>1. i \in 2 .. n /\ i \in 1 .. n /\ i - 1 \in 1 .. n
      BY <1>1, <2>2
    <3>2. fs[i - 1].warm \subseteq fs[i].warm /\ fs[i].codes \subseteq fs[i - 1].codes
      BY <3>1 DEF AllSettled, Good, Nests, n
    <3>3. QED
      BY <1>4, <3>1, <3>2
  <2>3. QED
    BY <2>1, <2>2
<1>6. \A i \in 1 .. n : Settled(gs[i])
  BY <1>4, AllSettledFacts DEF n
<1>7. (n + 1) - 1 = n /\ n + 1 > 0
  BY <1>1
<1>8. QED
  BY <1>2, <1>3, <1>4, <1>5, <1>6, <1>7 DEF AllSettled, Good, SettledBelow, n

-----------------------------------------------------------------------------
(* One instruction *)

\* Only a context that has paid for its memory runs an instruction.
LEMMA FetchedGood ==
  ASSUME Inv, Running
  PROVE  /\ AllSettled(frames) /\ Depth > 0 /\ Top \in Frame
         /\ AllSettled(Fetched) /\ Len(Fetched) = Depth /\ Fetched[Depth].ticked
         /\ Fetched[Depth].memory = Top.memory
<1> DEFINE g == [Top EXCEPT !.pc = @ + 1, !.ticked = TRUE]
<1>1. Depth > 0 /\ Top \in Frame /\ Good(frames)
  BY StackFacts DEF Inv, Running, Ready, Depth, Top
<1>2. Top.gasUsed \in Nat /\ Top.gasLimit \in Nat
  BY <1>1, FrameGas
<1>3. ~Stopped(Top)
  BY <1>2 DEF Running, Ready, Stopped
<1>4. Settled(Top)
  BY <1>1, <1>3 DEF Inv
<1>5. AllSettled(frames)
  BY <1>1, <1>4 DEF AllSettled, Depth, Top
<1>6. Top.pc + 1 \in 0 .. CodeLength
  BY <1>1, GasAssumption DEF Frame, Running
<1>7. /\ g \in Frame /\ g.memory = Top.memory /\ g.paid = Top.paid /\ g.ticked = TRUE
      /\ g.warm = Top.warm /\ g.codes = Top.codes
  BY <1>1, <1>6 DEF Frame
<1>8. Settled(g)
  BY <1>4, <1>7 DEF Settled
<1>9. Fetched = [frames EXCEPT ![Depth] = g]
  BY DEF Fetched, Top
<1> HIDE DEF g
<1>10. AllSettled([frames EXCEPT ![Depth] = g]) /\ Len([frames EXCEPT ![Depth] = g]) = Depth
       /\ [frames EXCEPT ![Depth] = g][Depth] = g
  BY <1>1, <1>5, <1>7, <1>8, ReplaceSettledTop DEF Depth, Top
<1>11. QED
  BY <1>1, <1>5, <1>7, <1>9, <1>10

LEMMA SettledIsInv ==
  ASSUME AllSettled(frames)'
  PROVE  Inv'
BY DEF Inv, AllSettled, Depth, Top

LEMMA CallChargedGood ==
  ASSUME Inv, Running, NEW kind
  PROVE  AllSettled(CallCharged(kind)) /\ Len(CallCharged(kind)) = Depth
<1>1. (IF kind = "callcode" THEN 0 ELSE AccessCost) \in Nat
  BY GasAssumption
<1>2. AllSettled(Fetched) /\ Len(Fetched) > 0 /\ Len(Fetched) = Depth
  BY FetchedGood
<1>3. QED
  BY <1>1, <1>2, ChargeGood DEF CallCharged

LEMMA CallExpandedGood ==
  ASSUME Inv, Running, NEW kind, NEW args \in Nat, NEW ret \in Nat
  PROVE  /\ Good(CallExpanded(kind, args, ret)) /\ Len(CallExpanded(kind, args, ret)) = Depth
         /\ Depth > 0
         /\ CanExpandBoth(CallCharged(kind)[Depth], args, ret)
              => AllSettled(CallExpanded(kind, args, ret))
<1> DEFINE fs == CallCharged(kind)
           f == fs[Depth]
           g == IF CanExpand(f, args) THEN ExpandMemory(ExpandMemory(f, args), ret)
                ELSE ExpandMemory(f, args)
<1>1. AllSettled(fs) /\ Len(fs) = Depth /\ Depth > 0 /\ Good(fs)
  BY CallChargedGood, FetchedGood DEF AllSettled
<1> HIDE DEF fs
<1>2. f \in Frame /\ Settled(f)
  BY <1>1, StackFacts DEF AllSettled
<1> HIDE DEF f
<1>3. /\ ExpandMemory(f, args) \in Frame
      /\ ExpandMemory(f, args).warm = f.warm /\ ExpandMemory(f, args).codes = f.codes
      /\ CanExpand(f, args) => Settled(ExpandMemory(f, args))
  BY <1>2, ExpandMemoryFrame
<1>4. CanExpand(f, args) =>
        /\ ExpandMemory(ExpandMemory(f, args), ret) \in Frame
        /\ ExpandMemory(ExpandMemory(f, args), ret).warm = f.warm
        /\ ExpandMemory(ExpandMemory(f, args), ret).codes = f.codes
        /\ CanExpand(ExpandMemory(f, args), ret)
             => Settled(ExpandMemory(ExpandMemory(f, args), ret))
  BY <1>3, ExpandMemoryFrame
<1>5. /\ g \in Frame /\ g.warm = f.warm /\ g.codes = f.codes
      /\ CanExpandBoth(f, args, ret) => Settled(g)
  BY <1>3, <1>4 DEF CanExpandBoth
<1>6. CallExpanded(kind, args, ret) = [fs EXCEPT ![Depth] = g]
  BY DEF CallExpanded, fs, f
<1> HIDE DEF g
<1>7. Good([fs EXCEPT ![Depth] = g]) /\ Len([fs EXCEPT ![Depth] = g]) = Depth
  BY <1>1, <1>5, ReplaceTop DEF f
<1>8. CanExpandBoth(f, args, ret) => AllSettled([fs EXCEPT ![Depth] = g])
  BY <1>1, <1>5, ReplaceSettledTop DEF f
<1>9. QED
  BY <1>1, <1>6, <1>7, <1>8 DEF f, fs
-----------------------------------------------------------------------------
(* Every step preserves the invariant *)

LEMMA EndedIsInv ==
  ASSUME NEW fs, Good(fs), Len(fs) > 0, NEW success \in BOOLEAN, frames' = Ended(fs, success)
  PROVE  Inv'
BY EndedGood, SettledIsInv

LEMMA BeginPreserves ==
  ASSUME Inv, NEW to \in Contract, NEW limit \in GasLimits, Begin(to, limit)
  PROVE  Inv'
<1> DEFINE f == NewFrame("transaction", Sender, to, limit, InitialGas, {}, {to})
<1>1. /\ to \in Address /\ Sender \in Address /\ limit \in Uint /\ InitialGas \in Uint
      /\ {} \in SUBSET Address /\ {to} \in SUBSET Address
      /\ "transaction" \in CallKinds \cup {"transaction"}
  BY GasAssumption DEF Uint
<1>2. f \in Frame /\ Settled(f)
  BY <1>1, NewFrameFacts
<1> HIDE DEF f
<1>3. <<f>> \in Seq(Frame) /\ Len(<<f>>) = 1 /\ <<f>>[1] = f
  BY <1>2
<1>4. AllSettled(<<f>>)
  BY <1>2, <1>3 DEF AllSettled, Good, Nests, SettledBelow
<1>5. frames' = Enter(<<f>>, to)
  BY DEF Begin, f
<1>6. QED
  BY <1>3, <1>4, <1>5, EnterGood, SettledIsInv

LEMMA ExecutePreserves ==
  ASSUME Inv, NEW cost \in BaseCosts, Execute(cost)
  PROVE  Inv'
<1>1. cost \in Nat
  BY GasAssumption
<1>2. AllSettled(Charge(Fetched, cost))
  BY <1>1, FetchedGood, ChargeGood DEF Execute
<1>3. QED
  BY <1>2, SettledIsInv DEF Execute

LEMMA JumpPreserves ==
  ASSUME Inv, NEW target \in 0 .. (CodeLength - 1), Jump(target)
  PROVE  Inv'
<1> DEFINE fs == Charge(Fetched, JumpCost)
           f == fs[Depth]
           g == [f EXCEPT !.pc = target]
<1>1. AllSettled(fs) /\ Len(fs) = Depth /\ Depth > 0
  BY FetchedGood, ChargeGood, GasAssumption DEF Jump
<1> HIDE DEF fs
<1>2. f \in Frame /\ Settled(f)
  BY <1>1, StackFacts DEF AllSettled
<1> HIDE DEF f
<1>3. target \in 0 .. CodeLength
  BY GasAssumption
<1>4. g \in Frame /\ g.warm = f.warm /\ g.codes = f.codes /\ Settled(g)
  BY <1>2, <1>3 DEF Frame, Settled
<1>5. frames' = [fs EXCEPT ![Depth] = g]
  BY DEF Jump, fs, f
<1> HIDE DEF g
<1>6. AllSettled([fs EXCEPT ![Depth] = g])
  BY <1>1, <1>4, ReplaceSettledTop DEF f
<1>7. QED
  BY <1>5, <1>6, SettledIsInv

LEMMA BalanceOfPreserves ==
  ASSUME Inv, NEW account \in Address, BalanceOf(account)
  PROVE  Inv'
<1> DEFINE f == Fetched[Depth]
           g == WarmAccount(f, account)
           fs == [Fetched EXCEPT ![Depth] = g]
<1>1. AllSettled(Fetched) /\ Len(Fetched) = Depth /\ Depth > 0
  BY FetchedGood DEF BalanceOf
<1>2. f \in Frame /\ Settled(f)
  BY <1>1, StackFacts DEF AllSettled
<1> HIDE DEF f
<1>3. g \in Frame /\ f.warm \subseteq g.warm /\ g.codes = f.codes /\ Settled(g)
  BY <1>2, WarmFrame DEF Settled
<1>4. frames' = Charge(fs, AccessCost)
  BY DEF BalanceOf, f
<1> HIDE DEF g
<1>5. AllSettled(fs) /\ Len(fs) = Depth
  BY <1>1, <1>3, ReplaceSettledTop DEF f
<1> HIDE DEF fs
<1>6. AllSettled(Charge(fs, AccessCost))
  BY <1>1, <1>5, ChargeGood, GasAssumption
<1>7. QED
  BY <1>4, <1>6, SettledIsInv

LEMMA ExtCodeSizePreserves ==
  ASSUME Inv, NEW account \in Address, ExtCodeSize(account)
  PROVE  Inv'
<1> DEFINE fs == GetContractCode(Fetched, account)
<1>1. AllSettled(fs) /\ Len(fs) = Depth /\ Depth > 0
  BY FetchedGood, GetContractCodeSettled DEF ExtCodeSize
<1> HIDE DEF fs
<1>2. AllSettled(Charge(fs, AccessCost))
  BY <1>1, ChargeGood, GasAssumption
<1>3. QED
  BY <1>2, SettledIsInv DEF ExtCodeSize, fs

LEMMA MemoryPreserves ==
  ASSUME Inv, NEW cost \in BaseCosts, NEW end \in MemoryEnds, Memory(cost, end)
  PROVE  Inv'
<1> DEFINE charged == Charge(Fetched, cost)
           after == [charged EXCEPT ![Depth] = ExpandMemory(@, end)]
<1>1. cost \in Nat /\ end \in Nat
  BY GasAssumption
<1>2. AllSettled(charged) /\ Len(charged) = Depth /\ Depth > 0
  BY <1>1, FetchedGood, ChargeGood DEF Memory
<1>3. frames' = IF CanExpand(charged[Depth], end) THEN after ELSE Ended(after, FALSE)
  BY DEF Memory
<1> HIDE DEF charged
<1>4. /\ Good(after) /\ Len(after) = Depth
      /\ CanExpand(charged[Depth], end) => AllSettled(after)
  BY <1>1, <1>2, ExpandTop
<1> HIDE DEF after
<1>5. CASE CanExpand(charged[Depth], end)
  BY <1>3, <1>4, <1>5, SettledIsInv
<1>6. CASE ~CanExpand(charged[Depth], end)
  <2>1. frames' = Ended(after, FALSE)
    BY <1>3, <1>6
  <2>2. QED
    BY <1>2, <1>4, <2>1, EndedIsInv
<1>7. QED
  BY <1>5, <1>6

\* Without its memory RETURN goes on, but past its limit: the loop stops it.
LEMMA ReturnPreserves ==
  ASSUME Inv, NEW end \in MemoryEnds, Return(end)
  PROVE  Inv'
<1> DEFINE after == [Fetched EXCEPT ![Depth] = ExpandMemory(@, end)]
<1>1. end \in Nat
  BY GasAssumption
<1>2. AllSettled(Fetched) /\ Len(Fetched) = Depth /\ Depth > 0 /\ Fetched[Depth].ticked
  BY FetchedGood DEF Return
<1>3. frames' = IF CanExpand(Top, end) THEN Ended(after, TRUE) ELSE after
  BY DEF Return
<1>4. /\ Good(after) /\ Len(after) = Depth
      /\ after[Depth].ticked
      /\ Settled(after[Depth]) \/ after[Depth].gasUsed > after[Depth].gasLimit
  BY <1>1, <1>2, ExpandTop
<1> HIDE DEF after
<1>5. CASE CanExpand(Top, end)
  <2>1. frames' = Ended(after, TRUE)
    BY <1>3, <1>5
  <2>2. QED
    BY <1>2, <1>4, <2>1, EndedIsInv
<1>6. CASE ~CanExpand(Top, end)
  <2>1. frames' = after
    BY <1>3, <1>6
  <2>2. QED
    BY <1>4, <2>1 DEF Inv, Depth, Top, Stopped
<1>7. QED
  BY <1>5, <1>6

LEMMA RevertPreserves ==
  ASSUME Inv, NEW end \in MemoryEnds, Revert(end)
  PROVE  Inv'
<1> DEFINE after == [Fetched EXCEPT ![Depth] = ExpandMemory(@, end)]
<1>1. end \in Nat
  BY GasAssumption
<1>2. AllSettled(Fetched) /\ Len(Fetched) = Depth /\ Depth > 0
  BY FetchedGood DEF Revert
<1>3. Good(after) /\ Len(after) = Depth
  BY <1>1, <1>2, ExpandTop
<1>4. frames' = Ended(after, FALSE)
  BY DEF Revert
<1> HIDE DEF after
<1>5. QED
  BY <1>2, <1>3, <1>4, EndedIsInv

LEMMA StopPreserves ==
  ASSUME Inv, Stop \/ Abort \/ OutOfGas
  PROVE  Inv'
<1>1. Good(frames) /\ Len(frames) > 0
  BY DEF Inv, Stop, Abort, OutOfGas, Running, Ready, Depth
<1>2. \E success \in BOOLEAN : frames' = Ended(frames, success)
  BY DEF Stop, Abort, OutOfGas
<1>3. QED
  BY <1>1, <1>2, EndedIsInv

LEMMA InvalidPreserves ==
  ASSUME Inv, Invalid
  PROVE  Inv'
<1> DEFINE f == Fetched[Depth]
           g == [f EXCEPT !.gasUsed = Top.gasLimit]
           fs == [Fetched EXCEPT ![Depth] = g]
<1>1. AllSettled(Fetched) /\ Len(Fetched) = Depth /\ Depth > 0 /\ Top \in Frame
  BY FetchedGood DEF Invalid
<1>2. f \in Frame /\ Settled(f) /\ Top.gasLimit \in Uint
  BY <1>1, StackFacts DEF AllSettled, Frame
<1> HIDE DEF f
<1>3. g \in Frame /\ g.warm = f.warm /\ g.codes = f.codes /\ Settled(g)
  BY <1>2, ChargeFrame DEF Settled
<1>4. frames' = Ended(fs, FALSE)
  BY DEF Invalid, f
<1> HIDE DEF g
<1>5. AllSettled(fs) /\ Len(fs) = Depth
  BY <1>1, <1>3, ReplaceSettledTop DEF f
<1> HIDE DEF fs
<1>6. QED
  BY <1>1, <1>4, <1>5, EndedIsInv DEF AllSettled
LEMMA CallPreparedGood ==
  ASSUME Inv, NEW kind \in CallKinds, NEW target \in Address, NEW args \in Nat, NEW ret \in Nat,
         Running, CanExpandBoth(CallCharged(kind)[Depth], args, ret)
  PROVE  /\ AllSettled(CallPrepared(kind, target, args, ret))
         /\ Len(CallPrepared(kind, target, args, ret)) = Depth
         /\ Depth > 0
BY CallExpandedGood, GetContractCodeSettled DEF CallPrepared

LEMMA CallPreserves ==
  ASSUME Inv, NEW kind \in CallKinds, NEW target \in Address,
         NEW gas \in GasArguments, NEW args \in MemoryEnds, NEW ret \in MemoryEnds,
         Call(kind, target, gas, args, ret)
  PROVE  Inv'
<1> DEFINE prepared == CallPrepared(kind, target, args, ret)
           entered == WithCallee(prepared, kind, target, gas)
<1>1. gas \in Nat /\ args \in Nat /\ ret \in Nat
  BY GasAssumption
<1>2. AllSettled(prepared) /\ Len(prepared) = Depth /\ Depth > 0
  BY <1>1, CallPreparedGood DEF Call, Calling
<1>3. frames' = Enter(entered, target)
  BY DEF Call
<1> HIDE DEF prepared
<1>4. AllSettled(entered) /\ Len(entered) > 0
  <2>1. AllSettled(entered) /\ Len(entered) = Len(prepared) + 1
    BY <1>1, <1>2, CalleeGood
  <2>2. Len(prepared) \in Nat
    BY <1>2, StackFacts DEF AllSettled
  <2>3. QED
    BY <2>1, <2>2
<1> HIDE DEF entered
<1>5. AllSettled(Enter(entered, target))
  BY <1>4, EnterGood
<1>6. QED
  BY <1>3, <1>5, SettledIsInv

LEMMA CallReturnsPreserves ==
  ASSUME Inv, NEW kind \in CallKinds, NEW target \in Address,
         NEW gas \in GasArguments, NEW args \in MemoryEnds, NEW ret \in MemoryEnds,
         NEW success \in BOOLEAN, CallReturns(kind, target, gas, args, ret, success)
  PROVE  Inv'
<1> DEFINE prepared == CallPrepared(kind, target, args, ret)
           entered == WithCallee(prepared, kind, target, gas)
           fs == IF success THEN Enter(entered, target) ELSE entered
<1>1. gas \in Nat /\ args \in Nat /\ ret \in Nat
  BY GasAssumption
<1>2. AllSettled(prepared) /\ Len(prepared) = Depth /\ Depth > 0
  BY <1>1, CallPreparedGood DEF CallReturns, Calling
<1>3. frames' = Ended(fs, success)
  BY DEF CallReturns
<1> HIDE DEF prepared
<1>4. AllSettled(entered) /\ Len(entered) > 0
  <2>1. AllSettled(entered) /\ Len(entered) = Len(prepared) + 1
    BY <1>1, <1>2, CalleeGood
  <2>2. Len(prepared) \in Nat
    BY <1>2, StackFacts DEF AllSettled
  <2>3. QED
    BY <2>1, <2>2
<1> HIDE DEF entered
<1>5. AllSettled(fs) /\ Len(fs) > 0
  BY <1>4, EnterGood
<1> HIDE DEF fs
<1>6. Good(fs)
  BY <1>5 DEF AllSettled
<1>7. QED
  BY <1>3, <1>5, <1>6, EndedIsInv

LEMMA CallFailsPreserves ==
  ASSUME Inv, NEW kind \in CallKinds, NEW target \in Address,
         NEW args \in MemoryEnds, NEW ret \in MemoryEnds,
         CallFails(kind, target, args, ret)
  PROVE  Inv'
<1> DEFINE expanded == CallExpanded(kind, args, ret)
           prepared == CallPrepared(kind, target, args, ret)
<1>1. args \in Nat /\ ret \in Nat /\ Running
  BY GasAssumption DEF CallFails
<1>2. CASE CanExpandBoth(CallCharged(kind)[Depth], args, ret)
  <2>1. Good(prepared) /\ Len(prepared) > 0
    BY <1>1, <1>2, CallPreparedGood DEF AllSettled
  <2>2. frames' = Ended(prepared, FALSE)
    BY <1>2 DEF CallFails
  <2> HIDE DEF prepared
  <2>3. QED
    BY <2>1, <2>2, EndedIsInv
<1>3. CASE ~CanExpandBoth(CallCharged(kind)[Depth], args, ret)
  <2>1. Good(expanded) /\ Len(expanded) > 0
    BY <1>1, CallExpandedGood
  <2>2. frames' = Ended(expanded, FALSE)
    BY <1>3 DEF CallFails
  <2> HIDE DEF expanded
  <2>3. QED
    BY <2>1, <2>2, EndedIsInv
<1>4. QED
  BY <1>2, <1>3

LEMMA PrecompilePreserves ==
  ASSUME Inv, NEW kind \in CallKinds, NEW args \in MemoryEnds, NEW ret \in MemoryEnds,
         Precompile(kind, args, ret)
  PROVE  Inv'
<1> DEFINE expanded == CallExpanded(kind, args, ret)
<1>1. args \in Nat /\ ret \in Nat /\ Running
  BY GasAssumption DEF Precompile
<1>2. AllSettled(expanded) /\ Len(expanded) = Depth /\ Depth > 0
  BY <1>1, CallExpandedGood DEF Precompile
<1>3. PICK cost \in PrecompileCosts \cup {RemainingGas(expanded[Depth])} :
        frames' = Charge(expanded, cost)
  BY DEF Precompile
<1> HIDE DEF expanded
<1>4. expanded[Depth] \in Frame
  BY <1>2, StackFacts DEF AllSettled
<1>5. cost \in Nat
  BY <1>4, RemainingIsUint, GasAssumption DEF Uint
<1>6. AllSettled(Charge(expanded, cost))
  BY <1>2, <1>5, ChargeGood
<1>7. QED
  BY <1>3, <1>6, SettledIsInv

LEMMA InitInv ==
  ASSUME Init
  PROVE  Inv
BY EmptySeq DEF Init, Inv, Good, Nests, SettledBelow, Depth

LEMMA InstructionPreserves ==
  ASSUME Inv, Instruction
  PROVE  Inv'
<1>1. ASSUME NEW cost \in BaseCosts, Execute(cost) \/ \E end \in MemoryEnds : Memory(cost, end)
      PROVE  Inv'
  BY <1>1, ExecutePreserves, MemoryPreserves
<1>2. ASSUME NEW target \in 0 .. (CodeLength - 1), Jump(target)
      PROVE  Inv'
  BY <1>2, JumpPreserves
<1>3. ASSUME NEW account \in Address, BalanceOf(account) \/ ExtCodeSize(account)
      PROVE  Inv'
  BY <1>3, BalanceOfPreserves, ExtCodeSizePreserves
<1>4. ASSUME NEW end \in MemoryEnds, Return(end) \/ Revert(end)
      PROVE  Inv'
  BY <1>4, ReturnPreserves, RevertPreserves
<1>5. ASSUME Stop \/ Abort \/ OutOfGas \/ Invalid
      PROVE  Inv'
  BY <1>5, StopPreserves, InvalidPreserves
<1>6. QED
  BY <1>1, <1>2, <1>3, <1>4, <1>5 DEF Instruction

LEMMA CallInstructionPreserves ==
  ASSUME Inv, CallInstruction
  PROVE  Inv'
<1>1. PICK kind \in CallKinds, args \in MemoryEnds, ret \in MemoryEnds :
        \/ Precompile(kind, args, ret)
        \/ \E target \in Address :
             \/ CallFails(kind, target, args, ret)
             \/ \E gas \in GasArguments :
                  \/ Call(kind, target, gas, args, ret)
                  \/ \E success \in BOOLEAN : CallReturns(kind, target, gas, args, ret, success)
  BY DEF CallInstruction
<1>2. CASE Precompile(kind, args, ret)
  BY <1>2, PrecompilePreserves
<1>3. ASSUME NEW target \in Address, CallFails(kind, target, args, ret)
      PROVE  Inv'
  BY <1>3, CallFailsPreserves
<1>4. ASSUME NEW target \in Address, NEW gas \in GasArguments, Call(kind, target, gas, args, ret)
      PROVE  Inv'
  BY <1>4, CallPreserves
<1>5. ASSUME NEW target \in Address, NEW gas \in GasArguments, NEW success \in BOOLEAN,
             CallReturns(kind, target, gas, args, ret, success)
      PROVE  Inv'
  BY <1>5, CallReturnsPreserves
<1>6. QED
  BY <1>1, <1>2, <1>3, <1>4, <1>5

LEMMA StepInv ==
  ASSUME Inv, [Next]_vars
  PROVE  Inv'
<1>1. ASSUME NEW to \in Contract, NEW limit \in GasLimits, Begin(to, limit)
      PROVE  Inv'
  BY <1>1, BeginPreserves
<1>2. CASE UNCHANGED vars
  BY <1>2 DEF vars, Inv, Depth, Top
<1>3. QED
  BY <1>1, <1>2, InstructionPreserves, CallInstructionPreserves DEF Next

-----------------------------------------------------------------------------
(* Theorems *)

THEOREM InvHolds == Spec => []Inv
BY InitInv, StepInv, PTL DEF Spec

\* Every context is well formed in every reachable state: no gas count leaves
\* the range of a uint32_t and no context has more memory than expandMemory
\* allows, whatever the gas schedule.
THEOREM TypeCorrect == Spec => []TypeOK
<1>1. Inv => TypeOK
  BY DEF Inv, Good, TypeOK
<1>2. QED
  BY <1>1, InvHolds, PTL

\* For calls of any depth: what is warm for a caller is warm for its callee, and
\* code that a callee fetched is with its caller (warmAccount, getContractCode).
THEOREM AccessListsAlwaysNest == Spec => []AccessListsNest
<1>1. Inv => AccessListsNest
  BY DEF Inv, Good, Nests, AccessListsNest, Depth
<1>2. QED
  BY <1>1, InvHolds, PTL

\* For every gas schedule: a context paid exactly once for the memory it holds,
\* or expandMemory has just stopped it for lack of gas.
THEOREM MemoryAlwaysPaidOnce == Spec => []MemoryPaidOnce
<1>1. Inv => MemoryPaidOnce
  <2> SUFFICES ASSUME Inv, NEW i \in 1 .. Depth
               PROVE  frames[i].paid = MemoryCost(frames[i].memory) \/ frames[i].gasUsed > frames[i].gasLimit
    BY DEF MemoryPaidOnce
  <2>1. Len(frames) \in Nat
    BY LenProperties DEF Inv, Good
  <2>2. i = Depth \/ i \in 1 .. Len(frames) - 1
    BY <2>1 DEF Depth
  <2>3. Depth > 0
    BY <2>1 DEF Depth
  <2>4. QED
    BY <2>2, <2>3 DEF Inv, Good, SettledBelow, Settled, Stopped, Top
<1>2. QED
  BY <1>1, InvHolds, PTL


-----------------------------------------------------------------------------
(***************************************************************************)
(* Gas is never forgotten where counts have room.  A count is never past   *)
(* its limit by more than one instruction and what its callees used past   *)
(* theirs, so with few enough levels no addition of gas wraps.  Requests   *)
(* of callees charge a suspended context too, but only for accounts that   *)
(* are cold: what they still may charge counts as due from the start.      *)
(***************************************************************************)

\* Bounds that give counts room.
Room == CHOOSE room \in Nat \X Nat : RoomFor(room[1], room[2])

Limit == Room[1]
Cost  == Room[2]

\* What is due when an instruction begins, at most, and after it.
Start == Limit + ColdCost * Cardinality(Address)
Full  == Start + Cost

\* The most that the context at level n may ever have used.
Ceiling(n) == (MaxDepth - n + 1) * Full

Due(f) == f.gasUsed + ColdCost * Cardinality(Address \ f.warm)

\* Contexts below the running one have run an instruction, and have room for all
\* that may still be charged to them before they go on.
Contained(fs) ==
  /\ fs \in Seq(Frame) /\ Len(fs) <= MaxDepth
  /\ \A i \in 1 .. Len(fs) : fs[i].gasLimit <= Limit
  /\ \A i \in 1 .. Len(fs) - 1 : fs[i].ticked /\ Due(fs[i]) <= Full

Holds(fs) ==
  /\ Contained(fs)
  /\ Len(fs) > 0 => /\ fs[Len(fs)].gasUsed <= Ceiling(Len(fs))
                    /\ fs[Len(fs)].ticked \/ Due(fs[Len(fs)]) <= Start

-----------------------------------------------------------------------------
(* What the room is *)

LEMMA RoomIs ==
  ASSUME Roomy
  PROVE  /\ Limit \in Nat /\ Cost \in Nat /\ RoomFor(Limit, Cost)
         /\ Cardinality(Address) \in Nat
<1>1. PICK room \in Nat \X Nat : RoomFor(room[1], room[2])
  BY DEF Roomy
<1>2. Room \in Nat \X Nat /\ RoomFor(Room[1], Room[2])
  BY <1>1 DEF Room
<1> HIDE DEF Room
<1>3. IsFiniteSet(Address)
  BY <1>2 DEF RoomFor
<1>4. QED
  BY <1>2, <1>3, FS_CardinalityType DEF Limit, Cost

LEMMA StartIs ==
  ASSUME Roomy
  PROVE  /\ Limit \in Nat /\ Cost \in Nat /\ Start \in Nat /\ Full \in Nat
         /\ Limit <= Start /\ Full = Start + Cost /\ Start <= Full
         /\ Limit + ColdCost * Cardinality(Address) = Start
         /\ ColdCost * Cardinality(Address) \in Nat
<1>1. Limit \in Nat /\ Cost \in Nat /\ Cardinality(Address) \in Nat /\ ColdCost \in Nat
  BY RoomIs, GasAssumption
<1>2. ColdCost * Cardinality(Address) \in Nat
  BY <1>1
<1>3. QED
  BY <1>1, <1>2 DEF Start, Full

LEMMA CeilingIs ==
  ASSUME Roomy, NEW n \in 1 .. MaxDepth
  PROVE  /\ Ceiling(n) \in Nat /\ Full <= Ceiling(n) /\ Ceiling(n) < UintMod
         /\ n > 1 => Ceiling(n - 1) = Ceiling(n) + Full
<1> DEFINE a == MaxDepth - n
<1>1. Full \in Nat /\ MaxDepth \in Nat /\ a \in Nat /\ n - 1 \in Nat
  BY StartIs, GasAssumption
<1>2. a * Full \in Nat /\ (n - 1) * Full \in Nat
  BY <1>1
<1>3. Ceiling(n) = a * Full + Full
  <2>1. Ceiling(n) = (a + 1) * Full
    BY <1>1 DEF Ceiling
  <2> HIDE DEF a
  <2>2. QED
    BY <1>1, <2>1
<1>4. MaxDepth * Full = (a * Full + Full) + (n - 1) * Full
  <2>1. MaxDepth = (a + 1) + (n - 1)
    BY <1>1
  <2> DEFINE b == n - 1
  <2> HIDE DEF a, b
  <2>2. ((a + 1) + b) * Full = (a * Full + Full) + b * Full
    BY <1>1 DEF b
  <2>3. QED
    BY <2>1, <2>2 DEF b
<1>5. MaxDepth * Full < UintMod
  BY RoomIs DEF RoomFor, Full, Start
<1>6. ASSUME n > 1 PROVE Ceiling(n - 1) = Ceiling(n) + Full
  <2>1. Ceiling(n - 1) = ((a + 1) + 1) * Full
    BY <1>1 DEF Ceiling
  <2> HIDE DEF a
  <2>2. ((a + 1) + 1) * Full = (a * Full + Full) + Full
    BY <1>1
  <2>3. QED
    BY <1>3, <2>1, <2>2
<1> HIDE DEF a
<1>7. QED
  BY <1>1, <1>2, <1>3, <1>4, <1>5, <1>6, GasAssumption

LEMMA FullIsUint ==
  ASSUME Roomy
  PROVE  Full < UintMod /\ UintMod \in Nat
<1>1. 1 \in 1 .. MaxDepth
  BY RoomIs, GasAssumption DEF RoomFor
<1>2. QED
  BY <1>1, CeilingIs, StartIs, GasAssumption

LEMMA CostOf ==
  ASSUME Roomy, NEW c \in BaseCosts \cup PrecompileCosts \cup {JumpCost}
  PROVE  /\ c \in Nat /\ AccessCost \in Nat /\ MemoryCost(MaxMemory) \in Nat
         /\ c + AccessCost + MemoryCost(MaxMemory) <= Cost
<1>1. c \in Nat /\ AccessCost \in Nat /\ MaxMemory \in Nat
  BY GasAssumption
<1>2. MemoryCost(MaxMemory) \in Nat
  BY <1>1, MemoryCostIsMonotone
<1>3. QED
  BY <1>1, <1>2, RoomIs DEF RoomFor

-----------------------------------------------------------------------------
(* What is due of a context *)

LEMMA DueIs ==
  ASSUME Roomy, NEW f \in Frame
  PROVE  /\ Due(f) \in Nat /\ f.gasUsed \in Nat /\ f.gasLimit \in Nat
         /\ f.gasUsed <= Due(f)
         /\ Due(f) <= f.gasUsed + ColdCost * Cardinality(Address)
<1> DEFINE cold == Cardinality(Address \ f.warm)
           all == Cardinality(Address)
<1>1. IsFiniteSet(Address)
  BY RoomIs DEF RoomFor
<1>2. cold \in Nat /\ all \in Nat /\ cold <= all
  BY <1>1, FS_Subset, FS_CardinalityType
<1>3. ColdCost \in Nat /\ f.gasUsed \in Nat /\ f.gasLimit \in Nat
  BY FrameGas, GasAssumption
<1>4. Due(f) = f.gasUsed + ColdCost * cold
  BY DEF Due
<1> HIDE DEF cold, all
<1>5. ColdCost * cold \in Nat /\ ColdCost * cold <= ColdCost * all
  BY <1>2, <1>3, ProductIsMonotone
<1>6. ColdCost * all \in Nat
  BY <1>2, <1>3
<1>7. QED
  BY <1>3, <1>4, <1>5, <1>6 DEF all

\* A charge that does not wrap.
LEMMA PlusIsSum ==
  ASSUME NEW gas \in Nat, NEW c \in Nat, gas + c < UintMod
  PROVE  Plus(gas, c) = gas + c
<1>1. gas + c \in 0 .. (UintMod - 1) /\ UintMod \in Nat \ {0}
  BY GasAssumption
<1>2. QED
  BY <1>1, ModOfSmall DEF Plus

\* g has the limit of f and has not forgotten what f used within it.
Keeps(f, g) ==
  /\ g \in Frame /\ g.gasLimit = f.gasLimit
  /\ Lesser(f.gasUsed, f.gasLimit) <= g.gasUsed

LEMMA KeepsTransitive ==
  ASSUME NEW f \in Frame, NEW g, Keeps(f, g), NEW h, Keeps(g, h)
  PROVE  Keeps(f, h)
BY FrameGas DEF Keeps, Lesser

\* Touching a cold account charges what was due for it.
LEMMA WarmKeeps ==
  ASSUME Roomy, NEW f \in Frame, NEW account \in Address, Due(f) < UintMod
  PROVE  LET g == WarmAccount(f, account)
         IN  Keeps(f, g) /\ Due(g) <= Due(f) /\ g.ticked = f.ticked
<1> DEFINE g == WarmAccount(f, account)
           A == Address \ f.warm
           B == Address \ g.warm
<1>1. /\ g \in Frame /\ g.gasLimit = f.gasLimit /\ g.ticked = f.ticked
      /\ g.warm = f.warm \cup {account}
  BY WarmFrame DEF SameCall
<1>2. IsFiniteSet(A) /\ IsFiniteSet(B) /\ Cardinality(A) \in Nat /\ Cardinality(B) \in Nat
  <2>1. IsFiniteSet(Address)
    BY RoomIs DEF RoomFor
  <2>2. QED
    BY <2>1, FS_Subset, FS_CardinalityType
<1>3. g.gasUsed = Plus(f.gasUsed, ColdCharge(f, account))
  BY DEF WarmAccount, Frame
<1>4. /\ Due(f) = f.gasUsed + ColdCost * Cardinality(A)
      /\ Due(g) = g.gasUsed + ColdCost * Cardinality(B)
      /\ ColdCost \in Nat /\ f.gasUsed \in Nat /\ f.gasLimit \in Nat
      /\ f.gasUsed <= Due(f) /\ Due(f) \in Nat
  BY DueIs, GasAssumption DEF Due
<1>5. CASE account \in f.warm
  <2>1. B = A
    BY <1>1, <1>5
  <2>2. ColdCharge(f, account) = 0
    BY <1>5 DEF ColdCharge
  <2> HIDE DEF A, B, g
  <2>3. f.gasUsed + 0 < UintMod
    BY <1>4, GasAssumption
  <2>4. g.gasUsed = f.gasUsed
    BY <1>3, <1>4, <2>2, <2>3, PlusIsSum
  <2>5. QED
    BY <1>1, <1>4, <2>1, <2>4 DEF Keeps, Lesser, g
<1>6. CASE account \notin f.warm
  <2>1. account \in A /\ B = A \ {account}
    BY <1>1, <1>6
  <2>2. Cardinality(B) = Cardinality(A) - 1
    BY SMTT(30), <1>2, <2>1, FS_RemoveElement
  <2>3. ColdCharge(f, account) = ColdCost
    BY <1>6 DEF ColdCharge
  <2> DEFINE b == Cardinality(B)
             a == Cardinality(A)
  <2>4. a = b + 1 /\ b \in Nat
    BY <1>2, <2>2
  <2> HIDE DEF A, B, g, a, b
  <2>5. ColdCost * a = ColdCost + ColdCost * b /\ ColdCost * b \in Nat
    BY <1>4, <2>4
  <2>6. f.gasUsed + ColdCost < UintMod
    BY <1>4, <2>5, GasAssumption DEF a
  <2>7. g.gasUsed = f.gasUsed + ColdCost
    BY <1>3, <1>4, <2>3, <2>6, PlusIsSum
  <2>8. Due(g) = Due(f)
    BY <1>4, <2>5, <2>7 DEF a, b
  <2>9. QED
    BY <1>1, <1>4, <2>7, <2>8 DEF Keeps, Lesser, g
<1>7. QED
  BY <1>5, <1>6

\* Growing memory charges at most what the largest memory costs; if it grows, what
\* the memory grown costs more.
LEMMA ExpandKeeps ==
  ASSUME Roomy, NEW f \in Frame, NEW end \in Nat,
         Due(f) + MemoryCost(MaxMemory) - MemoryCost(f.memory) < UintMod
  PROVE  LET g == ExpandMemory(f, end)
         IN  /\ Keeps(f, g) /\ g.ticked = f.ticked
             /\ Due(g) + MemoryCost(f.memory) <= Due(f) + MemoryCost(MaxMemory)
             /\ CanExpand(f, end) => Due(g) + MemoryCost(f.memory) = Due(f) + MemoryCost(g.memory)
<1> DEFINE g == ExpandMemory(f, end)
           c == ChargedForMemory(f, end)
           most == MemoryCost(MaxMemory)
           held == MemoryCost(f.memory)
           cold == ColdCost * Cardinality(Address \ f.warm)
<1>1. g \in Frame /\ g.gasLimit = f.gasLimit /\ g.ticked = f.ticked /\ g.warm = f.warm
  BY ExpandMemoryFrame DEF SameCall
<1>2. f.memory \in Nat /\ f.memory <= MaxMemory /\ MaxMemory \in Nat
      /\ f.gasUsed \in Nat /\ f.gasLimit \in Nat /\ Due(f) \in Nat /\ f.gasUsed <= Due(f)
  BY DueIs, GasAssumption DEF Frame
<1>3. held \in Nat /\ most \in Nat /\ held <= most
  BY <1>2, MemoryCostIsMonotone
<1>4. cold \in Int /\ Due(f) = f.gasUsed + cold /\ Due(g) = g.gasUsed + cold
  <2>1. Due(f) = f.gasUsed + cold /\ Due(g) = g.gasUsed + cold
    BY <1>1 DEF Due
  <2>2. IsFiniteSet(Address)
    BY RoomIs DEF RoomFor
  <2>3. Cardinality(Address \ f.warm) \in Nat
    BY <2>2, FS_Subset, FS_CardinalityType
  <2>4. QED
    BY <2>1, <2>3, GasAssumption
<1> HIDE DEF cold
<1>5. CASE end > MaxMemory \/ end <= f.memory
  <2>1. g = f
    BY <1>5 DEF ExpandMemory
  <2> HIDE DEF g, most, held
  <2>2. Keeps(f, g)
    BY <1>2, <2>1 DEF Keeps, Lesser
  <2>3. Due(g) + held <= Due(f) + most /\ Due(g) + held = Due(f) + MemoryCost(g.memory)
    BY <1>2, <1>3, <2>1 DEF held
  <2>4. QED
    BY <1>1, <2>2, <2>3 DEF g, most, held
<1>6. CASE ~(end > MaxMemory \/ end <= f.memory)
  <2> DEFINE more == ExpansionCost(f, end)
  <2>1. end <= MaxMemory /\ end > f.memory
    BY <1>2, <1>6
  <2>2. MemoryCost(end) \in Nat /\ MemoryCost(end) <= most
    BY <1>2, <2>1, MemoryCostIsMonotone
  <2>3. more = MemoryCost(end) - held
    BY <2>1 DEF ExpansionCost
  <2>4. held <= MemoryCost(end)
    BY <1>2, <2>1, MemoryCostIsMonotone
  <2>5. c.gasUsed = Plus(f.gasUsed, more)
    BY DEF ChargedForMemory, Frame
  <2> HIDE DEF more
  <2>6. more \in Nat /\ f.gasUsed + more < UintMod
    BY <1>2, <1>3, <2>2, <2>3, <2>4, GasAssumption DEF most, held
  <2>7. c.gasUsed = f.gasUsed + more
    BY <1>2, <2>5, <2>6, PlusIsSum
  <2>8. g.gasUsed = c.gasUsed /\ (CanExpand(f, end) => g.memory = end)
    <3>1. CASE CanExpand(f, end)
      <4>1. g = [c EXCEPT !.memory = end]
        BY <1>6, <3>1, Zenon DEF ExpandMemory
      <4>2. c \in Frame
        BY ChargedForMemoryFrame
      <4> HIDE DEF g, c
      <4>3. QED
        BY <4>1, <4>2 DEF Frame
    <3>2. CASE ~CanExpand(f, end)
      BY <1>6, <3>2, Zenon DEF ExpandMemory
    <3>3. QED
      BY <3>1, <3>2
  <2> HIDE DEF g, c, most, held
  <2>9. Keeps(f, g)
    BY <1>1, <1>2, <2>6, <2>7, <2>8 DEF Keeps, Lesser
  <2>10. Due(g) + held <= Due(f) + most
    BY <1>2, <1>3, <1>4, <2>2, <2>3, <2>4, <2>7, <2>8
  <2>11. CanExpand(f, end) => Due(g) + held = Due(f) + MemoryCost(g.memory)
    BY <1>2, <1>3, <1>4, <2>2, <2>3, <2>4, <2>7, <2>8
  <2>12. QED
    BY <1>1, <2>9, <2>10, <2>11 DEF g, most, held
<1>7. QED
  BY <1>5, <1>6

-----------------------------------------------------------------------------
(* An instruction of the context on top of ds *)

\* gs is ds after c has been charged.
On(ds, gs, c) ==
  /\ ds \in Seq(Frame) /\ Len(ds) > 0 /\ Len(gs) = Len(ds)
  /\ Contained(gs)
  /\ gs[Len(gs)].ticked /\ Due(gs[Len(gs)]) <= Start + c
  /\ \A i \in 1 .. Len(ds) : Keeps(ds[i], gs[i])

LEMMA OnFacts ==
  ASSUME NEW ds, NEW gs, NEW c, On(ds, gs, c)
  PROVE  /\ Len(gs) \in Nat \ {0} /\ Len(gs) = Len(ds) /\ Len(gs) \in 1 .. Len(gs)
         /\ gs \in Seq(Frame) /\ ds \in Seq(Frame)
         /\ \A i \in 1 .. Len(gs) : gs[i] \in Frame /\ ds[i] \in Frame
         /\ gs[Len(gs)] \in Frame
<1>1. gs \in Seq(Frame) /\ ds \in Seq(Frame) /\ Len(gs) = Len(ds) /\ Len(gs) > 0
  BY DEF On, Contained
<1>2. Len(gs) \in Nat
  BY <1>1, LenProperties
<1>3. Len(gs) \in 1 .. Len(gs) /\ \A i \in 1 .. Len(gs) : gs[i] \in Frame /\ ds[i] \in Frame
  BY <1>1, <1>2, ElementOfSeq
<1>4. QED
  BY <1>1, <1>2, <1>3

LEMMA TopOn ==
  ASSUME NEW ds, NEW gs, NEW c, On(ds, gs, c), NEW g, Keeps(gs[Len(gs)], g), g.ticked,
         NEW d, Due(g) <= Start + d
  PROVE  On(ds, [gs EXCEPT ![Len(gs)] = g], d)
<1> DEFINE n == Len(gs)
           hs == [gs EXCEPT ![n] = g]
<1>1. /\ n \in Nat \ {0} /\ n = Len(ds) /\ n \in 1 .. n /\ gs \in Seq(Frame) /\ ds \in Seq(Frame)
      /\ \A i \in 1 .. n : gs[i] \in Frame /\ ds[i] \in Frame
  BY OnFacts
<1>2. g \in Frame /\ g.gasLimit = gs[n].gasLimit
  BY DEF Keeps
<1>3. Contained(gs) /\ \A i \in 1 .. n : Keeps(ds[i], gs[i])
  BY <1>1 DEF On
<1> HIDE DEF n
<1>4. hs \in Seq(Frame) /\ Len(hs) = n /\ hs[n] = g /\ \A i \in 1 .. n : i # n => hs[i] = gs[i]
  BY <1>1, <1>2, ExceptSeq DEF n
<1> HIDE DEF hs
<1>5. \A i \in 1 .. n - 1 : i \in 1 .. n /\ i # n
  BY <1>1
<1>6. \A i \in 1 .. n : hs[i].gasLimit = gs[i].gasLimit
  BY <1>2, <1>4
<1>7. Contained(hs)
  BY <1>3, <1>4, <1>5, <1>6 DEF Contained, n
<1>8. \A i \in 1 .. n : Keeps(ds[i], hs[i])
  <2>1. Keeps(ds[n], g)
    BY <1>1, <1>3, KeepsTransitive DEF n
  <2>2. QED
    BY <1>3, <1>4, <2>1
<1>9. On(ds, hs, d)
  BY <1>1, <1>4, <1>7, <1>8 DEF On
<1>10. QED
  BY <1>9 DEF hs, n

LEMMA ChargeOn ==
  ASSUME Roomy, NEW ds, NEW gs, NEW c \in Nat, On(ds, gs, c), NEW d \in Nat, c + d <= Cost
  PROVE  On(ds, Charge(gs, d), c + d)
<1> DEFINE f == gs[Len(gs)]
           g == [f EXCEPT !.gasUsed = Plus(@, d)]
<1>1. f \in Frame
  BY OnFacts
<1>2. Due(f) <= Start + c /\ f.ticked
  BY DEF On
<1>3. Charge(gs, d) = [gs EXCEPT ![Len(gs)] = g]
  BY DEF Charge
<1> HIDE DEF f
<1>4. f.gasUsed \in Nat /\ Due(f) \in Nat /\ f.gasUsed <= Due(f) /\ f.gasLimit \in Nat
  BY <1>1, DueIs
<1>5. f.gasUsed + d < UintMod
  BY <1>2, <1>4, FullIsUint, StartIs
<1>6. Plus(f.gasUsed, d) = f.gasUsed + d /\ Plus(f.gasUsed, d) \in Uint
  BY <1>4, <1>5, PlusIsSum, PlusIsUint
<1>7. /\ g \in Frame /\ g.gasLimit = f.gasLimit /\ g.gasUsed = f.gasUsed + d
      /\ g.ticked = f.ticked /\ g.warm = f.warm
  BY <1>1, <1>6, ChargeFrame DEF SameCall
<1> HIDE DEF g
<1>8. Keeps(f, g)
  BY <1>4, <1>7 DEF Keeps, Lesser
<1>9. Due(g) = Due(f) + d
  <2> DEFINE cold == ColdCost * Cardinality(Address \ f.warm)
  <2>1. Due(g) = (f.gasUsed + d) + cold /\ Due(f) = f.gasUsed + cold
    BY <1>7 DEF Due
  <2>2. cold \in Int
    <3>1. IsFiniteSet(Address)
      BY RoomIs DEF RoomFor
    <3>2. Cardinality(Address \ f.warm) \in Nat
      BY <3>1, FS_Subset, FS_CardinalityType
    <3>3. QED
      BY <3>2, GasAssumption
  <2> HIDE DEF cold
  <2>3. QED
    BY <1>4, <2>1, <2>2
<1>10. Due(g) <= Start + (c + d)
  BY <1>2, <1>4, <1>9, StartIs
<1>11. g.ticked
  BY <1>2, <1>7
<1>12. On(ds, [gs EXCEPT ![Len(gs)] = g], c + d)
  BY <1>8, <1>10, <1>11, TopOn DEF f
<1>13. QED
  BY <1>3, <1>12

LEMMA ExpandOn ==
  ASSUME Roomy, NEW ds, NEW gs, NEW c \in Nat, On(ds, gs, c), NEW end \in Nat,
         c + MemoryCost(MaxMemory) <= Cost
  PROVE  On(ds, [gs EXCEPT ![Len(gs)] = ExpandMemory(@, end)], c + MemoryCost(MaxMemory))
<1> DEFINE f == gs[Len(gs)]
           g == ExpandMemory(f, end)
           most == MemoryCost(MaxMemory)
           held == MemoryCost(f.memory)
<1>1. f \in Frame /\ Due(f) <= Start + c /\ f.ticked
  BY OnFacts DEF On
<1> HIDE DEF f
<1>2. f.memory \in Nat /\ MaxMemory \in Nat /\ Due(f) \in Nat
  BY <1>1, DueIs, GasAssumption DEF Frame
<1>3. held \in Nat /\ most \in Nat
  <2>1. f.memory <= f.memory /\ MaxMemory <= MaxMemory
    BY <1>2
  <2>2. QED
    BY <1>2, <2>1, MemoryCostIsMonotone
<1>4. Due(f) + most - held < UintMod
  BY <1>1, <1>2, <1>3, FullIsUint, StartIs
<1>5. Keeps(f, g) /\ g.ticked /\ Due(g) + held <= Due(f) + most
  BY <1>1, <1>4, ExpandKeeps
<1>6. Due(g) \in Nat
  BY <1>5, DueIs DEF Keeps
<1> HIDE DEF g, most, held
<1>7. Due(g) <= Start + (c + most)
  BY <1>1, <1>2, <1>3, <1>5, <1>6, StartIs
<1>8. On(ds, [gs EXCEPT ![Len(gs)] = g], c + most)
  BY <1>5, <1>7, TopOn DEF f
<1>9. QED
  BY <1>8 DEF g, most, f

-----------------------------------------------------------------------------
(* Requests for code, callees and the ends of calls *)

\* A stack whose running context owes at most b.
Calm(fs, b) == Contained(fs) /\ Len(fs) > 0 /\ Due(fs[Len(fs)]) <= b

\* What a change of contexts in place keeps.
InPlace(fs, gs) ==
  /\ Len(gs) = Len(fs)
  /\ \A i \in 1 .. Len(fs) : Keeps(fs[i], gs[i]) /\ gs[i].ticked = fs[i].ticked

LEMMA CalmFacts ==
  ASSUME NEW fs, NEW b, Calm(fs, b)
  PROVE  /\ Len(fs) \in Nat \ {0} /\ Len(fs) \in 1 .. Len(fs) /\ fs \in Seq(Frame)
         /\ \A i \in 1 .. Len(fs) : fs[i] \in Frame
<1>1. fs \in Seq(Frame) /\ Len(fs) > 0
  BY DEF Calm, Contained
<1>2. Len(fs) \in Nat
  BY <1>1, LenProperties
<1>3. QED
  BY <1>1, <1>2, ElementOfSeq

\* Whoever asks for code and from wherever, what contexts pay was due.
LEMMA CodeCalm ==
  ASSUME Roomy, NEW fs, NEW b \in Int, b <= Full, Calm(fs, b), NEW account \in Address
  PROVE  Calm(GetContractCode(fs, account), b) /\ InPlace(fs, GetContractCode(fs, account))
<1> DEFINE n == Len(fs)
           gs == GetContractCode(fs, account)
           Kept(i) == \E j \in i .. n : account \in fs[j].codes
           With(f) == [WarmAccount(f, account) EXCEPT !.codes = @ \cup {account}]
<1>1. n \in Nat \ {0} /\ n \in 1 .. n /\ fs \in Seq(Frame) /\ \A i \in 1 .. n : fs[i] \in Frame
  BY CalmFacts
<1>2. gs = [i \in 1 .. n |-> IF Kept(i) THEN fs[i] ELSE With(fs[i])]
  BY DEF GetContractCode
<1>3. ASSUME NEW f \in Frame, Due(f) <= Full
      PROVE  Keeps(f, With(f)) /\ Due(With(f)) <= Due(f) /\ With(f).ticked = f.ticked
  <2> DEFINE w == WarmAccount(f, account)
             g == [w EXCEPT !.codes = @ \cup {account}]
  <2>1. Due(f) < UintMod
    BY <1>3, FullIsUint, StartIs, DueIs
  <2>2. Keeps(f, w) /\ Due(w) <= Due(f) /\ w.ticked = f.ticked
    BY <2>1, WarmKeeps
  <2>3. w \in Frame
    BY <2>2 DEF Keeps
  <2> HIDE DEF w
  <2>4. /\ g \in Frame /\ g.gasLimit = w.gasLimit /\ g.gasUsed = w.gasUsed
        /\ g.ticked = w.ticked /\ g.warm = w.warm
    BY <2>3, KeepCode DEF SameCall
  <2> HIDE DEF g
  <2>5. Keeps(f, g) /\ Due(g) <= Due(f) /\ g.ticked = f.ticked
    BY <2>2, <2>4 DEF Keeps, Due
  <2>6. QED
    BY <2>5 DEF g, w
<1>4. \A i \in 1 .. n : Due(fs[i]) <= Full
  <2>1. \A i \in 1 .. n : i = n \/ i \in 1 .. n - 1
    BY <1>1
  <2>2. Due(fs[n]) \in Nat
    BY <1>1, DueIs
  <2>3. QED
    BY <2>1, <2>2, StartIs DEF Calm, Contained
<1> HIDE DEF With, Kept, n, gs
<1>5. ASSUME NEW i \in 1 .. n
      PROVE  Keeps(fs[i], gs[i]) /\ Due(gs[i]) <= Due(fs[i]) /\ gs[i].ticked = fs[i].ticked
  <2>1. gs[i] = IF Kept(i) THEN fs[i] ELSE With(fs[i])
    BY <1>2
  <2>2. fs[i] \in Frame /\ Due(fs[i]) <= Full
    BY <1>1, <1>4
  <2>3. Due(fs[i]) \in Nat /\ fs[i].gasUsed \in Nat /\ fs[i].gasLimit \in Nat
    BY <2>2, DueIs
  <2>4. CASE Kept(i)
    BY <2>1, <2>2, <2>3, <2>4 DEF Keeps, Lesser
  <2>5. CASE ~Kept(i)
    BY <1>3, <2>1, <2>2, <2>5
  <2>6. QED
    BY <2>4, <2>5
<1>6. gs \in Seq(Frame) /\ Len(gs) = n
  <2>1. \A i \in 1 .. n : gs[i] \in Frame
    BY <1>5 DEF Keeps
  <2>2. gs \in [1 .. n -> Frame]
    BY <1>2, <2>1
  <2>3. QED
    BY <1>1, <2>2, SeqDef, LenProperties
<1>7. Contained(gs)
  <2>1. Len(gs) <= MaxDepth /\ \A i \in 1 .. n : fs[i].gasLimit <= Limit
    BY <1>6 DEF Calm, Contained, n
  <2>2. \A i \in 1 .. n : gs[i].gasLimit <= Limit
    BY <1>5, <2>1 DEF Keeps
  <2>3. ASSUME NEW i \in 1 .. n - 1 PROVE gs[i].ticked /\ Due(gs[i]) <= Full
    <3>1. i \in 1 .. n
      BY <1>1
    <3>2. fs[i].ticked
      BY DEF Calm, Contained, n
    <3>3. Due(gs[i]) \in Nat /\ Due(fs[i]) \in Nat
      BY <1>1, <1>5, <3>1, DueIs DEF Keeps
    <3>4. QED
      BY <1>4, <1>5, <3>1, <3>2, <3>3, StartIs
  <2>4. QED
    BY <1>6, <2>1, <2>2, <2>3 DEF Contained
<1>8. Calm(gs, b)
  <2>1. Due(fs[n]) <= b /\ Due(gs[n]) <= Due(fs[n])
    BY <1>1, <1>5 DEF Calm, n
  <2>2. Due(gs[n]) \in Nat /\ Due(fs[n]) \in Nat
    BY <1>1, <1>5, DueIs DEF Keeps
  <2>3. Due(gs[n]) <= b
    BY <2>1, <2>2
  <2>4. QED
    BY <1>1, <1>6, <1>7, <2>3 DEF Calm
<1>9. InPlace(fs, gs)
  BY <1>5, <1>6 DEF InPlace, n
<1>10. QED
  BY <1>8, <1>9 DEF gs

LEMMA EnterCalm ==
  ASSUME Roomy, NEW fs, NEW b \in Int, b <= Full, Calm(fs, b), NEW account
  PROVE  Calm(Enter(fs, account), b) /\ InPlace(fs, Enter(fs, account))
<1>1. CASE account \in DOMAIN Delegate
  <2>1. Delegate[account] \in Address
    BY <1>1, GasAssumption DEF Range
  <2>2. QED
    BY <1>1, <2>1, CodeCalm DEF Enter
<1>2. CASE account \notin DOMAIN Delegate
  <2>1. Enter(fs, account) = fs
    BY <1>2 DEF Enter
  <2>2. ASSUME NEW i \in 1 .. Len(fs) PROVE Keeps(fs[i], fs[i])
    <3>1. fs[i] \in Frame
      BY CalmFacts
    <3>2. QED
      BY <3>1, FrameGas DEF Keeps, Lesser
  <2>3. QED
    BY <2>1, <2>2 DEF InPlace
<1>3. QED
  BY <1>1, <1>2

LEMMA CodeOn ==
  ASSUME Roomy, NEW ds, NEW gs, NEW c \in Nat, c <= Cost, On(ds, gs, c), NEW account \in Address
  PROVE  On(ds, GetContractCode(gs, account), c)
<1> DEFINE hs == GetContractCode(gs, account)
<1>1. Start + c \in Int /\ Start + c <= Full
  BY StartIs
<1>2. Calm(gs, Start + c) /\ Len(gs) = Len(ds)
  BY DEF On, Calm
<1>3. Calm(hs, Start + c) /\ InPlace(gs, hs)
  BY <1>1, <1>2, CodeCalm
<1>4. Len(gs) \in 1 .. Len(gs) /\ \A i \in 1 .. Len(gs) : ds[i] \in Frame
  BY OnFacts
<1> HIDE DEF hs
<1>5. \A i \in 1 .. Len(ds) : Keeps(ds[i], hs[i])
  BY <1>2, <1>3, <1>4, KeepsTransitive DEF On, InPlace
<1>6. hs[Len(hs)].ticked
  BY <1>3, <1>4 DEF InPlace, On
<1>7. On(ds, hs, c)
  BY <1>2, <1>3, <1>5, <1>6 DEF On, Calm, InPlace
<1>8. QED
  BY <1>7 DEF hs

LEMMA AllowanceIsSmall ==
  ASSUME Roomy, NEW f \in Frame, NEW gas \in GasArguments
  PROVE  Allowance(f, gas) \in Uint /\ Allowance(f, gas) <= Limit
<1> DEFINE product == (RemainingGas(f) * ShareNum) % UintMod
<1>1. RemainingGas(f) * ShareNum \in Nat /\ gas \in Nat
  BY RemainingIsUint, GasAssumption DEF Uint
<1>2. product \in Nat /\ product <= UintMod /\ UintMod \in Nat
  BY <1>1, GasAssumption
<1> HIDE DEF product
<1>3. product \div ShareDen \in Nat /\ product \div ShareDen <= UintMod \div ShareDen
      /\ UintMod \div ShareDen \in Nat
  BY <1>2, DivIsMonotone, GasAssumption
<1>4. gas <= Limit \/ UintMod \div ShareDen <= Limit
  BY RoomIs DEF RoomFor
<1>5. Allowance(f, gas) = IF gas < product \div ShareDen THEN gas ELSE product \div ShareDen
  BY DEF Allowance, product
<1>6. QED
  BY <1>1, <1>3, <1>4, <1>5, RoomIs, AllowanceIsUint

\* A callee starts with less due than its limit allows for.
LEMMA CalleeCalm ==
  ASSUME Roomy, NEW fs, Calm(fs, Full), fs[Len(fs)].ticked, Len(fs) < MaxDepth,
         NEW kind \in CallKinds, NEW target \in Address, NEW gas \in GasArguments
  PROVE  LET gs == WithCallee(fs, kind, target, gas)
         IN  /\ Calm(gs, Start) /\ Len(gs) = Len(fs) + 1
             /\ \A i \in 1 .. Len(fs) : gs[i] = fs[i]
<1> DEFINE n == Len(fs)
           caller == fs[n]
           callee == IF kind = "delegatecall"
                     THEN NewFrame(kind, caller.caller, caller.address, Allowance(caller, gas), 0, caller.warm, {})
                     ELSE NewFrame(kind, caller.address, target, Allowance(caller, gas), 0, caller.warm, {})
           gs == Append(fs, callee)
<1>1. n \in Nat \ {0} /\ n \in 1 .. n /\ fs \in Seq(Frame) /\ caller \in Frame
  BY CalmFacts
<1>2. callee \in Frame /\ callee.gasUsed = 0 /\ callee.gasLimit <= Limit
  <2>1. caller.caller \in Address /\ caller.address \in Address /\ caller.warm \in SUBSET Address
    BY <1>1 DEF Frame
  <2> HIDE DEF caller
  <2>2. Allowance(caller, gas) \in Uint /\ Allowance(caller, gas) <= Limit
    BY <1>1, AllowanceIsSmall
  <2>3. 0 \in Uint /\ {} \in SUBSET Address /\ kind \in CallKinds \cup {"transaction"}
    BY GasAssumption DEF Uint
  <2>4. ASSUME NEW a \in Address, NEW t \in Address
        PROVE  LET f == NewFrame(kind, a, t, Allowance(caller, gas), 0, caller.warm, {})
               IN  f \in Frame /\ f.gasUsed = 0 /\ f.gasLimit = Allowance(caller, gas)
    <3> DEFINE f == NewFrame(kind, a, t, Allowance(caller, gas), 0, caller.warm, {})
    <3>1. f \in Frame
      BY <2>1, <2>2, <2>3, NewFrameFacts
    <3>2. f.gasUsed = 0 /\ f.gasLimit = Allowance(caller, gas)
      BY DEF NewFrame
    <3>3. QED
      BY <3>1, <3>2
  <2>5. CASE kind = "delegatecall"
    <3>1. callee = NewFrame(kind, caller.caller, caller.address, Allowance(caller, gas), 0, caller.warm, {})
      BY <2>5, Zenon
    <3> HIDE DEF callee
    <3>2. QED
      BY <2>1, <2>2, <2>4, <3>1
  <2>6. CASE kind # "delegatecall"
    <3>1. callee = NewFrame(kind, caller.address, target, Allowance(caller, gas), 0, caller.warm, {})
      BY <2>6, Zenon
    <3> HIDE DEF callee
    <3>2. QED
      BY <2>1, <2>2, <2>4, <3>1
  <2>7. QED
    BY <2>5, <2>6
<1> HIDE DEF callee
<1>3. WithCallee(fs, kind, target, gas) = gs
  BY Zenon DEF WithCallee, callee
<1>4. gs \in Seq(Frame) /\ Len(gs) = n + 1 /\ gs[n + 1] = callee /\ \A i \in 1 .. n : gs[i] = fs[i]
  BY <1>1, <1>2, AppendProperties
<1>5. Due(callee) <= Start
  <2>1. Due(callee) \in Nat /\ Due(callee) <= 0 + ColdCost * Cardinality(Address)
    BY <1>2, DueIs
  <2>2. QED
    BY <2>1, StartIs
<1> HIDE DEF gs, n, caller
<1>6. (n + 1) - 1 = n /\ n + 1 > 0 /\ n + 1 <= MaxDepth
      /\ \A i \in 1 .. n + 1 : i = n + 1 \/ i \in 1 .. n
  BY <1>1, GasAssumption DEF n
<1>7. Contained(gs)
  <2>1. \A i \in 1 .. n : fs[i].gasLimit <= Limit
    BY DEF Calm, Contained, n
  <2>2. \A i \in 1 .. n + 1 : gs[i].gasLimit <= Limit
    BY <1>2, <1>4, <1>6, <2>1
  <2>3. \A i \in 1 .. n : fs[i].ticked /\ Due(fs[i]) <= Full
    <3>1. \A i \in 1 .. n : i = n \/ i \in 1 .. n - 1
      BY <1>1
    <3>2. QED
      BY <3>1 DEF Calm, Contained, n
  <2>4. \A i \in 1 .. n : gs[i].ticked /\ Due(gs[i]) <= Full
    BY <1>4, <2>3
  <2>5. QED
    BY <1>4, <1>6, <2>2, <2>4 DEF Contained
<1>8. Calm(gs, Start)
  BY <1>4, <1>5, <1>6, <1>7 DEF Calm
<1>9. QED
  BY <1>3, <1>4, <1>8 DEF n

\* A caller has room for all that its callee may have used, however that ends.
LEMMA EndedHolds ==
  ASSUME Roomy, NEW fs, Contained(fs), Len(fs) > 0, fs[Len(fs)].gasUsed <= Ceiling(Len(fs)),
         NEW success \in BOOLEAN
  PROVE  LET gs == Ended(fs, success)
             m  == Len(fs) - 1
         IN  /\ Holds(gs)
             /\ IF m = 0 THEN gs = <<>>
                ELSE /\ gs \in Seq(Frame) /\ Len(gs) = m
                     /\ \A i \in 1 .. m : i # m => gs[i] = fs[i]
                     /\ gs[m].gasUsed = fs[m].gasUsed + fs[m + 1].gasUsed
<1> DEFINE n == Len(fs)
           m == n - 1
           callee == fs[n]
           rest == SubSeq(fs, 1, m)
           g == [rest[m] EXCEPT
                   !.gasUsed = Plus(@, callee.gasUsed),
                   !.warm    = IF success /\ callee.kind # "staticcall"
                               THEN @ \cup callee.warm ELSE @]
<1>1. fs \in Seq(Frame) /\ n \in Nat /\ n > 0 /\ \A i \in 1 .. n : fs[i] \in Frame
  <2>1. fs \in Seq(Frame)
    BY DEF Contained
  <2>2. QED
    BY <2>1, LenProperties, ElementOfSeq
<1>2. CASE n = 1
  <2>1. Ended(fs, success) = <<>> /\ m = 0
    BY <1>2 DEF Ended
  <2>2. Len(<<>>) = 0 /\ <<>> \in Seq(Frame)
    BY EmptySeq
  <2>3. Holds(<<>>)
    BY <2>2, GasAssumption DEF Holds, Contained
  <2>4. QED
    BY <2>1, <2>3
<1>3. CASE n # 1
  <2> HIDE DEF g, rest, callee, n
  <2>1. m \in 1 .. n /\ m + 1 = n /\ m \in Nat /\ m > 0 /\ m # 0 /\ n > 1 /\ n \in 1 .. n
    BY <1>1, <1>3
  <2> USE DEF n, rest, callee
  <2>2. rest \in Seq(Frame) /\ Len(rest) = m /\ \A i \in 1 .. m : rest[i] = fs[i]
    BY <1>1, <2>1, SubSeqProperties
  <2>3. rest[m] \in Frame /\ callee \in Frame /\ rest[m] = fs[m]
    BY <1>1, <2>1, <2>2
  <2>4. n <= MaxDepth /\ callee.gasUsed <= Ceiling(n)
        /\ \A i \in 1 .. m : fs[i].ticked /\ Due(fs[i]) <= Full /\ fs[i].gasLimit <= Limit
    <3>1. \A i \in 1 .. m : i \in 1 .. n
      BY <2>1
    <3>2. QED
      BY <3>1 DEF Contained
  <2> HIDE DEF rest, callee, m, n
  <2>5. n \in 1 .. MaxDepth /\ m \in 1 .. MaxDepth
    BY <2>1, <2>4, GasAssumption
  <2>6. /\ Ceiling(n) \in Nat /\ Ceiling(m) = Ceiling(n) + Full
        /\ Ceiling(m) < UintMod
    <3>1. n - 1 = m
      BY <2>1
    <3>2. QED
      BY <2>1, <2>5, <3>1, CeilingIs
  <2>7. rest[m].gasUsed \in Nat /\ rest[m].gasUsed <= Full /\ callee.gasUsed \in Nat
    <3>1. m \in 1 .. m
      BY <2>1
    <3>2. Due(rest[m]) <= Full
      BY <2>3, <2>4, <3>1
    <3>3. Due(rest[m]) \in Nat /\ rest[m].gasUsed \in Nat /\ rest[m].gasUsed <= Due(rest[m])
          /\ callee.gasUsed \in Nat
      BY <2>3, DueIs
    <3>4. QED
      BY <3>2, <3>3, StartIs
  <2>8. rest[m].gasUsed + callee.gasUsed <= Ceiling(m)
        /\ rest[m].gasUsed + callee.gasUsed < UintMod
    <3>1. Full \in Nat /\ UintMod \in Nat /\ callee.gasUsed <= Ceiling(n)
      BY <2>4, StartIs, FullIsUint
    <3> DEFINE r == rest[m].gasUsed
               u == callee.gasUsed
               top == Ceiling(n)
               bound == Ceiling(m)
    <3>2. r \in Nat /\ r <= Full /\ u \in Nat /\ u <= top /\ top \in Nat
          /\ bound = top + Full /\ bound < UintMod
      BY <2>6, <2>7, <3>1
    <3> HIDE DEF r, u, top, bound
    <3>3. r + u <= bound /\ r + u < UintMod
      BY <3>1, <3>2
    <3>4. QED
      BY <3>3 DEF r, u, bound
  <2>9. Plus(rest[m].gasUsed, callee.gasUsed) = rest[m].gasUsed + callee.gasUsed
        /\ Plus(rest[m].gasUsed, callee.gasUsed) \in Uint
    BY <2>7, <2>8, PlusIsSum, PlusIsUint
  <2> USE DEF g
  <2>10. /\ g \in Frame /\ g.gasLimit = rest[m].gasLimit /\ g.ticked = rest[m].ticked
         /\ g.gasUsed = rest[m].gasUsed + callee.gasUsed
    BY <2>3, <2>9 DEF Frame
  <2>11. Ended(fs, success) = [rest EXCEPT ![m] = g]
    BY <1>3, Zenon DEF Ended, rest, callee, m, n
  <2> HIDE DEF g
  <2> DEFINE gs == [rest EXCEPT ![m] = g]
  <2>12. gs \in Seq(Frame) /\ Len(gs) = m /\ gs[m] = g /\ \A i \in 1 .. m : i # m => gs[i] = fs[i]
    BY <2>1, <2>2, <2>10, ExceptSeq
  <2> HIDE DEF gs
  <2>13. \A i \in 1 .. m : gs[i].gasLimit <= Limit /\ gs[i].ticked
    BY <2>3, <2>4, <2>10, <2>12
  <2>14. \A i \in 1 .. m - 1 : i \in 1 .. m /\ i # m
    BY <2>1
  <2>15. m \in 1 .. m /\ m <= MaxDepth
    BY <2>1, <2>5
  <2>16. Contained(gs)
    BY <2>4, <2>12, <2>13, <2>14, <2>15 DEF Contained
  <2>17. gs[m].gasUsed = fs[m].gasUsed + fs[m + 1].gasUsed /\ gs[m].gasUsed <= Ceiling(m)
    BY <2>1, <2>3, <2>8, <2>10, <2>12 DEF callee
  <2>18. Holds(gs)
    BY <2>12, <2>13, <2>15, <2>16, <2>17 DEF Holds
  <2>19. Ended(fs, success) = gs
    BY <2>11 DEF gs
  <2>20. QED
    BY <2>1, <2>12, <2>17, <2>18, <2>19 DEF m, n
<1>4. QED
  BY <1>2, <1>3

-----------------------------------------------------------------------------
(* Totals *)

\* What f used of its limit.
Within(f) == Lesser(f.gasUsed, f.gasLimit)

Total(fs)       == SumFunction([i \in 1 .. Len(fs) |-> fs[i].gasUsed])
TotalWithin(fs) == SumFunction([i \in 1 .. Len(fs) |-> Within(fs[i])])

\* gs has a context more than ds, as many, or one less whose caller has paid for it.
Retains(ds, gs) ==
  \/ gs = <<>>
  \/ /\ Len(ds) <= Len(gs)
     /\ \A i \in 1 .. Len(ds) : Within(ds[i]) <= gs[i].gasUsed
  \/ /\ Len(ds) = Len(gs) + 1
     /\ \A i \in 1 .. Len(gs) : i # Len(gs) => Within(ds[i]) <= gs[i].gasUsed
     /\ Within(ds[Len(gs)]) + Within(ds[Len(gs) + 1]) <= gs[Len(gs)].gasUsed

LEMMA RetainsTotal ==
  ASSUME NEW ds \in Seq(Frame), NEW gs \in Seq(Frame), gs # <<>>, Retains(ds, gs)
  PROVE  TotalWithin(ds) <= Total(gs)
<1> DEFINE m == Len(ds)
           n == Len(gs)
           u == [i \in 1 .. m |-> Within(ds[i])]
           w == [i \in 1 .. n |-> gs[i].gasUsed]
<1>1. m \in Nat /\ n \in Nat
  BY LenProperties
<1>2. n > 0
  BY <1>1, EmptySeq
<1>3. /\ \A i \in 1 .. m : Within(ds[i]) \in Nat
      /\ \A i \in 1 .. n : gs[i].gasUsed \in Nat
  <2>1. /\ \A i \in 1 .. m : ds[i] \in Frame
        /\ \A i \in 1 .. n : gs[i] \in Frame
    BY ElementOfSeq
  <2>2. \A f \in Frame : Within(f) \in Nat /\ f.gasUsed \in Nat
    BY FrameGas DEF Within, Lesser
  <2>3. QED
    BY <2>1, <2>2
<1>4. TotalWithin(ds) = SumFunctionOnSet(u, 1 .. m) /\ Total(gs) = SumFunctionOnSet(w, 1 .. n)
  BY DEF TotalWithin, Total, SumFunction
<1> HIDE DEF m, n
<1>5. /\ \A i \in 1 .. m : u[i] = Within(ds[i]) /\ u[i] \in Int
      /\ \A i \in 1 .. n : w[i] = gs[i].gasUsed /\ w[i] \in Nat /\ w[i] \in Int
  BY <1>3 DEF m, n
<1> HIDE DEF u, w
<1>6. IsFiniteSet(1 .. m) /\ IsFiniteSet(1 .. n)
  BY <1>1, FS_Interval
<1>7. CASE m <= n /\ \A i \in 1 .. m : Within(ds[i]) <= gs[i].gasUsed
  <2> DEFINE v == [i \in 1 .. n |-> IF i <= m THEN u[i] ELSE 0]
  <2>1. \A i \in 1 .. m : i \in 1 .. n /\ i <= m
    BY <1>1, <1>7
  <2>2. SumFunctionOnSet(u, 1 .. m) <= SumFunctionOnSet(w, 1 .. m)
    <3>1. \A i \in 1 .. m : u[i] \in Int /\ w[i] \in Int /\ u[i] <= w[i]
      BY <1>5, <1>7, <2>1
    <3>2. QED
      BY <1>6, <3>1, SumMonotone
  <2>3. SumFunctionOnSet(w, 1 .. m) <= SumFunctionOnSet(w, 1 .. n)
    BY <1>1, <1>5, <1>7, SumOfPrefix
  <2>4. /\ SumFunctionOnSet(u, 1 .. m) \in Int /\ SumFunctionOnSet(w, 1 .. m) \in Int
        /\ SumFunctionOnSet(w, 1 .. n) \in Int
    BY <1>5, <1>6, <2>1, SumInt
  <2>5. QED
    BY <1>4, <2>2, <2>3, <2>4
<1>8. CASE /\ m = n + 1
           /\ \A i \in 1 .. n : i # n => Within(ds[i]) <= gs[i].gasUsed
           /\ Within(ds[n]) + Within(ds[n + 1]) <= gs[n].gasUsed
  <2> DEFINE A == 1 .. m
             B == 1 .. n
             C == B \ {n}
  <2>1. m \in A /\ n \in A /\ n \in B /\ A \ {m} = B /\ \A i \in C : i \in A /\ i \in B /\ i # n
    BY <1>1, <1>2, <1>8
  <2>2. IsFiniteSet(A) /\ IsFiniteSet(B) /\ IsFiniteSet(C)
    BY <1>6, FS_Subset
  <2>3. \A i \in B : i \in A
    BY <2>1
  <2> HIDE DEF A, B, C
  <2>4. SumFunctionOnSet(u, A) = u[m] + SumFunctionOnSet(u, B)
    <3>1. \A i \in A : u[i] \in Int
      BY <1>5 DEF A
    <3>2. QED
      BY <2>1, <2>2, <3>1, SumRemoves
  <2>5. (\A i \in B : u[i] \in Int /\ w[i] \in Int) /\ u[m] \in Int
    BY <1>5, <2>1, <2>3 DEF A, B
  <2>6. SumFunctionOnSet(u, B) = u[n] + SumFunctionOnSet(u, C)
        /\ SumFunctionOnSet(w, B) = w[n] + SumFunctionOnSet(w, C)
    BY <2>1, <2>2, <2>5, SumRemoves DEF C
  <2>7. SumFunctionOnSet(u, C) <= SumFunctionOnSet(w, C)
    <3>1. \A i \in C : u[i] \in Int /\ w[i] \in Int /\ u[i] <= w[i]
      BY <1>5, <1>8, <2>1, <2>5 DEF A, B
    <3>2. QED
      BY <2>2, <3>1, SumMonotone
  <2>8. SumFunctionOnSet(u, C) \in Int /\ SumFunctionOnSet(w, C) \in Int
    BY <2>1, <2>2, <2>5, SumInt
  <2>9. u[n] + u[m] <= w[n] /\ u[n] \in Int /\ w[n] \in Int
    BY <1>5, <1>8, <2>1, <2>5 DEF A, B
  <2>10. QED
    BY <1>4, <2>4, <2>5, <2>6, <2>7, <2>8, <2>9 DEF A, B
<1>9. QED
  BY <1>7, <1>8 DEF Retains, m, n

-----------------------------------------------------------------------------
(* Every step has room *)

\* What a step from ds leaves.
Leaves(ds, gs) == Holds(gs) /\ Retains(ds, gs)

LEMMA KeepsWithin ==
  ASSUME NEW f, NEW g, Keeps(f, g)
  PROVE  Within(f) <= g.gasUsed
BY DEF Keeps, Within

\* The stack that an instruction is done with.
LEMMA OnLeaves ==
  ASSUME Roomy, NEW ds, NEW gs, NEW c \in Nat, c <= Cost, On(ds, gs, c)
  PROVE  Leaves(ds, gs)
<1>1. Len(gs) \in 1 .. MaxDepth /\ gs[Len(gs)] \in Frame
  BY OnFacts, GasAssumption DEF On, Contained
<1>2. gs[Len(gs)].gasUsed <= Ceiling(Len(gs))
  <2> DEFINE f == gs[Len(gs)]
  <2>1. Due(f) <= Start + c
    BY DEF On
  <2> HIDE DEF f
  <2>2. f.gasUsed \in Nat /\ Due(f) \in Nat /\ f.gasUsed <= Due(f)
    BY <1>1, DueIs DEF f
  <2>3. Ceiling(Len(gs)) \in Nat /\ Full <= Ceiling(Len(gs))
    BY <1>1, CeilingIs
  <2>4. f.gasUsed <= Ceiling(Len(gs))
    BY SMTT(30), <2>1, <2>2, <2>3, StartIs
  <2>5. QED
    BY <2>4 DEF f
<1>3. Holds(gs)
  BY <1>2 DEF On, Holds
<1>4. \A i \in 1 .. Len(ds) : Within(ds[i]) <= gs[i].gasUsed
  BY KeepsWithin DEF On
<1>5. Len(ds) <= Len(gs)
  BY OnFacts
<1>6. QED
  BY <1>3, <1>4, <1>5 DEF Leaves, Retains

\* A stack whose running context ends, each context having kept what ds used.
LEMMA EndLeaves ==
  ASSUME Roomy, NEW ds, NEW fs, NEW success \in BOOLEAN,
         Contained(fs), Len(fs) > 0, Len(ds) = Len(fs), fs[Len(fs)].gasUsed <= Ceiling(Len(fs)),
         ds \in Seq(Frame), \A i \in 1 .. Len(fs) : Within(ds[i]) <= fs[i].gasUsed
  PROVE  Leaves(ds, Ended(fs, success))
<1> DEFINE n == Len(fs)
           m == n - 1
           gs == Ended(fs, success)
<1>1. fs \in Seq(Frame)
  BY DEF Contained
<1>2. n \in Nat /\ n > 0 /\ m \in Nat /\ m + 1 = n
  BY <1>1, LenProperties
<1>3. /\ Holds(gs)
      /\ m = 0 => gs = <<>>
      /\ m # 0 => /\ gs \in Seq(Frame) /\ Len(gs) = m
                  /\ \A i \in 1 .. m : i # m => gs[i] = fs[i]
                  /\ gs[m].gasUsed = fs[m].gasUsed + fs[m + 1].gasUsed
  BY EndedHolds
<1> HIDE DEF gs
<1>4. CASE m = 0
  BY <1>3, <1>4 DEF Leaves, Retains, gs
<1>5. CASE m # 0
  <2>1. \A i \in 1 .. n : Within(ds[i]) <= fs[i].gasUsed
    OBVIOUS
  <2>2. Len(ds) = n
    OBVIOUS
  <2>3. /\ \A i \in 1 .. n : fs[i].gasUsed \in Nat
        /\ \A i \in 1 .. n : Within(ds[i]) \in Nat
    <3>1. \A i \in 1 .. n : fs[i] \in Frame /\ ds[i] \in Frame
      BY <1>1, <2>2, ElementOfSeq
    <3>2. \A f \in Frame : f.gasUsed \in Nat /\ Within(f) \in Nat
      BY FrameGas DEF Within, Lesser
    <3>3. QED
      BY <3>1, <3>2
  <2> HIDE DEF m, n
  <2>4. m \in 1 .. n /\ m + 1 \in 1 .. n /\ \A i \in 1 .. m : i \in 1 .. n
    BY <1>2, <1>5
  <2>5. \A i \in 1 .. m : i # m => Within(ds[i]) <= gs[i].gasUsed
    BY <1>3, <1>5, <2>1, <2>4
  <2>6. Within(ds[m]) + Within(ds[m + 1]) <= gs[m].gasUsed
    BY <1>3, <1>5, <2>1, <2>3, <2>4
  <2>7. Len(gs) = m /\ Len(ds) = m + 1
    BY <1>2, <1>3, <1>5, <2>2
  <2>8. QED
    BY <1>3, <2>5, <2>6, <2>7 DEF Leaves, Retains, gs
<1>6. QED
  BY <1>4, <1>5

LEMMA OnEndLeaves ==
  ASSUME Roomy, NEW ds, NEW gs, NEW c \in Nat, c <= Cost, On(ds, gs, c), NEW success \in BOOLEAN
  PROVE  Leaves(ds, Ended(gs, success))
<1>1. Holds(gs)
  BY OnLeaves DEF Leaves
<1>2. /\ Contained(gs) /\ Len(gs) > 0 /\ Len(ds) = Len(gs) /\ ds \in Seq(Frame)
      /\ gs[Len(gs)].gasUsed <= Ceiling(Len(gs))
  BY <1>1 DEF On, Holds
<1>3. \A i \in 1 .. Len(gs) : Within(ds[i]) <= gs[i].gasUsed
  BY <1>2, KeepsWithin DEF On
<1>4. QED
  BY <1>2, <1>3, EndLeaves

LEMMA FetchedOn ==
  ASSUME Roomy, Holds(frames), Running
  PROVE  On(frames, Fetched, 0)
<1> DEFINE f == frames[Depth]
           g == [f EXCEPT !.pc = @ + 1, !.ticked = TRUE]
<1>1. frames \in Seq(Frame) /\ Len(frames) > 0 /\ Contained(frames)
  BY DEF Holds, Contained, Running, Ready, Depth
<1>2. Depth \in Nat /\ Depth = Len(frames) /\ Depth \in 1 .. Depth
      /\ \A i \in 1 .. Depth : frames[i] \in Frame
  BY <1>1, LenProperties, ElementOfSeq DEF Depth
<1>3. f \in Frame
  BY <1>2
<1>4. f.pc + 1 \in 0 .. CodeLength
  BY <1>3, GasAssumption DEF Frame, Running, Top
<1>5. Due(f) <= Start
  <2>1. f.ticked => f.gasUsed < f.gasLimit
    BY DEF Running, Ready, Top
  <2>2. f.gasLimit <= Limit
    BY <1>1, <1>2 DEF Contained
  <2>3. f.ticked \/ Due(f) <= Start
    BY <1>1, <1>2 DEF Holds
  <2> HIDE DEF f
  <2>4. Due(f) \in Nat /\ f.gasUsed \in Nat /\ f.gasLimit \in Nat
        /\ Due(f) <= f.gasUsed + ColdCost * Cardinality(Address)
    BY <1>3, DueIs
  <2>5. CASE f.ticked
    BY <2>1, <2>2, <2>4, <2>5, StartIs
  <2>6. QED
    BY <2>3, <2>5
<1>6. Fetched = [frames EXCEPT ![Depth] = g]
  BY DEF Fetched
<1> HIDE DEF f
<1>7. /\ g \in Frame /\ g.gasLimit = f.gasLimit /\ g.gasUsed = f.gasUsed
      /\ g.ticked = TRUE /\ g.warm = f.warm
  BY <1>3, <1>4 DEF Frame
<1> HIDE DEF g
<1> DEFINE gs == [frames EXCEPT ![Depth] = g]
<1>8. gs \in Seq(Frame) /\ Len(gs) = Depth /\ gs[Depth] = g
      /\ \A i \in 1 .. Depth : i # Depth => gs[i] = frames[i]
  BY <1>1, <1>2, <1>7, ExceptSeq
<1> HIDE DEF gs
<1>9. Due(g) <= Start + 0
  BY <1>3, <1>5, <1>7, DueIs, StartIs DEF Due
<1>10. \A i \in 1 .. Depth : Keeps(frames[i], gs[i])
  <2>1. \A h \in Frame : Lesser(h.gasUsed, h.gasLimit) <= h.gasUsed
    BY FrameGas DEF Lesser
  <2>2. Keeps(f, g)
    BY <1>3, <1>7, <2>1 DEF Keeps
  <2>3. \A i \in 1 .. Depth : Keeps(frames[i], frames[i])
    BY <1>2, <2>1 DEF Keeps
  <2>4. QED
    BY <1>2, <1>8, <2>2, <2>3 DEF f
<1>11. \A i \in 1 .. Depth - 1 : i \in 1 .. Depth /\ i # Depth
  BY <1>2
<1>12. Contained(gs)
  <2>1. \A i \in 1 .. Depth : gs[i].gasLimit <= Limit
    BY <1>1, <1>2, <1>10 DEF Contained, Keeps
  <2>2. \A i \in 1 .. Depth - 1 : gs[i].ticked /\ Due(gs[i]) <= Full
    BY <1>1, <1>2, <1>8, <1>11 DEF Contained
  <2>3. QED
    BY <1>1, <1>2, <1>8, <2>1, <2>2 DEF Contained
<1>13. gs[Len(gs)].ticked /\ Due(gs[Len(gs)]) <= Start + 0
  BY <1>7, <1>8, <1>9
<1>14. On(frames, gs, 0)
  BY <1>1, <1>2, <1>8, <1>10, <1>12, <1>13 DEF On
<1>15. QED
  BY <1>6, <1>14 DEF gs

LEMMA OnMore ==
  ASSUME Roomy, NEW ds, NEW gs, NEW c \in Nat, On(ds, gs, c), NEW d \in Nat, c <= d
  PROVE  On(ds, gs, d)
<1>1. Due(gs[Len(gs)]) \in Nat
  BY OnFacts, DueIs
<1>2. Due(gs[Len(gs)]) <= Start + d
  BY SMTT(30), <1>1, StartIs DEF On
<1>3. QED
  BY <1>2 DEF On

\* INVALID, and an unknown precompile: all of the limit is used.
LEMMA AllUsedOn ==
  ASSUME Roomy, NEW ds, NEW gs, NEW c \in Nat, On(ds, gs, c)
  PROVE  On(ds, [gs EXCEPT ![Len(gs)].gasUsed = gs[Len(gs)].gasLimit], 0)
<1> DEFINE f == gs[Len(gs)]
           g == [f EXCEPT !.gasUsed = f.gasLimit]
<1>1. f \in Frame /\ f.ticked
  BY OnFacts DEF On
<1>2. f.gasLimit <= Limit
  <2>1. Len(gs) \in 1 .. Len(gs)
    BY OnFacts
  <2>2. QED
    BY <2>1 DEF On, Contained
<1>3. [gs EXCEPT ![Len(gs)].gasUsed = gs[Len(gs)].gasLimit] = [gs EXCEPT ![Len(gs)] = g]
  OBVIOUS
<1> HIDE DEF f
<1>4. f.gasLimit \in Uint
  BY <1>1 DEF Frame
<1>5. g \in Frame /\ g.gasLimit = f.gasLimit /\ g.gasUsed = f.gasLimit /\ g.ticked = f.ticked
  BY <1>1, <1>4, ChargeFrame DEF SameCall
<1> HIDE DEF g
<1>6. Keeps(f, g)
  BY <1>1, <1>5, FrameGas DEF Keeps, Lesser
<1>7. Due(g) <= Start + 0
  <2>1. Due(g) \in Nat /\ g.gasUsed \in Nat /\ Due(g) <= g.gasUsed + ColdCost * Cardinality(Address)
    BY <1>5, DueIs
  <2>2. QED
    BY <1>2, <1>5, <2>1, StartIs
<1>8. g.ticked
  BY <1>1, <1>5
<1>9. On(ds, [gs EXCEPT ![Len(gs)] = g], 0)
  BY <1>6, <1>7, <1>8, TopOn DEF f
<1>10. QED
  BY <1>3, <1>9

\* What is left of the limit, added modulo the width of the count, makes the limit:
\* past it, too.
LEMMA RemainderIsExact ==
  ASSUME NEW f \in Frame
  PROVE  Plus(f.gasUsed, RemainingGas(f)) = f.gasLimit
<1> DEFINE u == f.gasUsed
           l == f.gasLimit
           M == UintMod
<1>1. M \in Nat \ {0} /\ u \in 0 .. (M - 1) /\ l \in 0 .. (M - 1)
  BY GasAssumption DEF Frame, Uint
<1>2. RemainingGas(f) = (l + M - u) % M /\ Plus(u, RemainingGas(f)) = (u + RemainingGas(f)) % M
  BY DEF RemainingGas, Plus
<1> HIDE DEF u, l, M
<1>3. CASE u <= l
  <2>1. l - u \in 0 .. (M - 1) /\ l + M - u = M * 1 + (l - u) /\ 1 \in Int
    BY <1>1, <1>3
  <2>2. (l + M - u) % M = l - u
    BY <1>1, <2>1, DivModUnique
  <2>3. u + (l - u) = l
    BY <1>1
  <2>4. l % M = l
    BY <1>1, ModOfSmall
  <2>5. QED
    BY <1>2, <2>2, <2>3, <2>4 DEF u, l
<1>4. CASE ~(u <= l)
  <2>1. l + M - u \in 0 .. (M - 1)
    BY <1>1, <1>4
  <2>2. (l + M - u) % M = l + M - u
    BY <1>1, <2>1, ModOfSmall
  <2>3. u + (l + M - u) = M * 1 + l /\ 1 \in Int
    BY <1>1
  <2>4. (M * 1 + l) % M = l
    BY <1>1, <2>3, DivModUnique
  <2>5. QED
    BY <1>2, <2>2, <2>3, <2>4 DEF u, l
<1>5. QED
  BY <1>3, <1>4

LEMMA InstructionRoom ==
  ASSUME Roomy
  PROVE  /\ AccessCost \in Nat /\ JumpCost \in Nat /\ MemoryCost(MaxMemory) \in Nat /\ Cost \in Nat
         /\ AccessCost + MemoryCost(MaxMemory) <= Cost
         /\ JumpCost <= Cost /\ AccessCost <= Cost /\ MemoryCost(MaxMemory) <= Cost
<1>1. JumpCost \in BaseCosts \cup PrecompileCosts \cup {JumpCost}
  OBVIOUS
<1>2. QED
  BY <1>1, CostOf, StartIs

LEMMA ExecuteLeaves ==
  ASSUME Roomy, Holds(frames), NEW cost \in BaseCosts, Execute(cost)
  PROVE  Leaves(frames, frames')
<1>1. cost \in Nat /\ cost <= Cost
  BY CostOf, StartIs
<1>2. On(frames, Fetched, 0)
  BY FetchedOn DEF Execute
<1>3. On(frames, Charge(Fetched, cost), 0 + cost)
  BY <1>1, <1>2, ChargeOn
<1>4. Leaves(frames, Charge(Fetched, cost))
  BY <1>1, <1>3, OnLeaves
<1>5. QED
  BY <1>4 DEF Execute

LEMMA JumpLeaves ==
  ASSUME Roomy, Holds(frames), NEW target \in 0 .. (CodeLength - 1), Jump(target)
  PROVE  Leaves(frames, frames')
<1> DEFINE fs == Charge(Fetched, JumpCost)
           f == fs[Len(fs)]
           g == [f EXCEPT !.pc = target]
<1>1. On(frames, Fetched, 0)
  BY FetchedOn DEF Jump
<1>2. On(frames, fs, JumpCost)
  <2>1. On(frames, fs, 0 + JumpCost)
    BY <1>1, InstructionRoom, ChargeOn
  <2>2. 0 + JumpCost = JumpCost
    BY InstructionRoom
  <2>3. QED
    BY <2>1, <2>2
<1>3. frames' = [fs EXCEPT ![Depth] = [fs[Depth] EXCEPT !.pc = target]]
  BY DEF Jump
<1> HIDE DEF fs
<1>4. Len(fs) = Depth
  BY <1>2 DEF On, Depth
<1>5. frames' = [fs EXCEPT ![Len(fs)] = g]
  BY <1>3, <1>4
<1>6. f \in Frame /\ f.ticked /\ Due(f) <= Start + JumpCost
  BY <1>2, OnFacts DEF On
<1> HIDE DEF f
<1>7. target \in 0 .. CodeLength
  BY GasAssumption
<1>8. /\ g \in Frame /\ g.gasUsed = f.gasUsed /\ g.gasLimit = f.gasLimit /\ g.warm = f.warm
      /\ g.ticked = f.ticked
  BY <1>6, <1>7 DEF Frame
<1> HIDE DEF g
<1>9. Keeps(f, g) /\ g.ticked /\ Due(g) <= Start + JumpCost
  BY <1>6, <1>8, FrameGas DEF Keeps, Lesser, Due
<1>10. On(frames, [fs EXCEPT ![Len(fs)] = g], JumpCost)
  BY <1>2, <1>9, TopOn DEF f
<1>11. QED
  BY <1>5, <1>10, InstructionRoom, OnLeaves

LEMMA BalanceOfLeaves ==
  ASSUME Roomy, Holds(frames), NEW account \in Address, BalanceOf(account)
  PROVE  Leaves(frames, frames')
<1> DEFINE fs == Fetched
           f == fs[Len(fs)]
           g == WarmAccount(f, account)
           gs == [fs EXCEPT ![Len(fs)] = g]
<1>1. On(frames, fs, 0)
  BY FetchedOn DEF BalanceOf
<1>2. frames' = Charge([fs EXCEPT ![Depth] = WarmAccount(fs[Depth], account)], AccessCost)
  BY DEF BalanceOf
<1> HIDE DEF fs
<1>3. Len(fs) = Depth
  BY <1>1 DEF On, Depth
<1>4. frames' = Charge(gs, AccessCost)
  BY <1>2, <1>3
<1>5. f \in Frame /\ f.ticked /\ Due(f) <= Start + 0
  BY <1>1, OnFacts DEF On
<1> HIDE DEF f
<1>6. Due(f) \in Nat /\ Due(f) < UintMod
  BY <1>5, DueIs, StartIs, FullIsUint
<1>7. Keeps(f, g) /\ Due(g) <= Due(f) /\ g.ticked = f.ticked
  BY <1>5, <1>6, WarmKeeps
<1>8. Due(g) \in Nat
  BY <1>7, DueIs DEF Keeps
<1> HIDE DEF g
<1>9. g.ticked /\ Due(g) <= Start + 0
  BY <1>5, <1>6, <1>7, <1>8, StartIs
<1>10. On(frames, gs, 0)
  BY <1>1, <1>7, <1>9, TopOn DEF f
<1> HIDE DEF gs
<1>11. On(frames, Charge(gs, AccessCost), 0 + AccessCost)
  BY <1>10, InstructionRoom, ChargeOn
<1>12. QED
  BY <1>4, <1>11, InstructionRoom, OnLeaves

LEMMA ExtCodeSizeLeaves ==
  ASSUME Roomy, Holds(frames), NEW account \in Address, ExtCodeSize(account)
  PROVE  Leaves(frames, frames')
<1> DEFINE gs == GetContractCode(Fetched, account)
<1>1. On(frames, Fetched, 0)
  BY FetchedOn DEF ExtCodeSize
<1>2. On(frames, gs, 0)
  BY <1>1, InstructionRoom, CodeOn
<1> HIDE DEF gs
<1>3. On(frames, Charge(gs, AccessCost), 0 + AccessCost)
  BY <1>2, InstructionRoom, ChargeOn
<1>4. frames' = Charge(gs, AccessCost)
  BY DEF ExtCodeSize, gs
<1>5. QED
  BY <1>3, <1>4, InstructionRoom, OnLeaves

LEMMA MemoryLeaves ==
  ASSUME Roomy, Holds(frames), NEW cost \in BaseCosts, NEW end \in MemoryEnds, Memory(cost, end)
  PROVE  Leaves(frames, frames')
<1> DEFINE charged == Charge(Fetched, cost)
           after == [charged EXCEPT ![Len(charged)] = ExpandMemory(@, end)]
           c == cost + MemoryCost(MaxMemory)
<1>1. cost \in Nat /\ end \in Nat /\ c \in Nat /\ c <= Cost /\ cost <= Cost
  BY CostOf, StartIs, GasAssumption
<1>2. On(frames, Fetched, 0)
  BY FetchedOn DEF Memory
<1>3. On(frames, charged, cost)
  <2>1. On(frames, charged, 0 + cost)
    BY <1>1, <1>2, ChargeOn
  <2>2. QED
    BY <1>1, <2>1
<1>4. \/ frames' = [charged EXCEPT ![Depth] = ExpandMemory(@, end)]
      \/ frames' = Ended([charged EXCEPT ![Depth] = ExpandMemory(@, end)], FALSE)
  BY DEF Memory
<1> HIDE DEF charged
<1>5. Len(charged) = Depth
  BY <1>3 DEF On, Depth
<1>6. frames' = after \/ frames' = Ended(after, FALSE)
  BY <1>4, <1>5
<1>7. On(frames, after, c)
  BY <1>1, <1>3, ExpandOn
<1> HIDE DEF after, c
<1>8. QED
  BY <1>1, <1>6, <1>7, OnLeaves, OnEndLeaves

LEMMA ReturnLeaves ==
  ASSUME Roomy, Holds(frames), NEW end \in MemoryEnds, Return(end) \/ Revert(end)
  PROVE  Leaves(frames, frames')
<1> DEFINE fs == Fetched
           after == [fs EXCEPT ![Len(fs)] = ExpandMemory(@, end)]
           c == 0 + MemoryCost(MaxMemory)
<1>1. end \in Nat /\ c \in Nat /\ c <= Cost
  BY InstructionRoom, GasAssumption
<1>2. On(frames, fs, 0)
  BY FetchedOn DEF Return, Revert
<1>3. \/ frames' = [fs EXCEPT ![Depth] = ExpandMemory(@, end)]
      \/ \E success \in BOOLEAN : frames' = Ended([fs EXCEPT ![Depth] = ExpandMemory(@, end)], success)
  BY DEF Return, Revert
<1> HIDE DEF fs
<1>4. Len(fs) = Depth
  BY <1>2 DEF On, Depth
<1>5. frames' = after \/ \E success \in BOOLEAN : frames' = Ended(after, success)
  BY <1>3, <1>4
<1>6. On(frames, after, c)
  BY <1>1, <1>2, ExpandOn
<1> HIDE DEF after, c
<1>7. QED
  BY <1>1, <1>5, <1>6, OnLeaves, OnEndLeaves

LEMMA StopLeaves ==
  ASSUME Roomy, Holds(frames), Stop \/ Abort \/ OutOfGas
  PROVE  Leaves(frames, frames')
<1>1. Contained(frames) /\ Len(frames) > 0 /\ frames[Len(frames)].gasUsed <= Ceiling(Len(frames))
      /\ frames \in Seq(Frame)
  BY DEF Holds, Contained, Stop, Abort, OutOfGas, Running, Ready, Depth
<1>2. PICK success \in BOOLEAN : frames' = Ended(frames, success)
  BY DEF Stop, Abort, OutOfGas
<1>3. \A i \in 1 .. Len(frames) : Within(frames[i]) <= frames[i].gasUsed
  <2>1. \A i \in 1 .. Len(frames) : frames[i] \in Frame
    BY <1>1, ElementOfSeq
  <2>2. \A f \in Frame : Within(f) <= f.gasUsed
    BY FrameGas DEF Within, Lesser
  <2>3. QED
    BY <2>1, <2>2
<1>4. Leaves(frames, Ended(frames, success))
  BY <1>1, <1>3, EndLeaves
<1>5. QED
  BY <1>2, <1>4

LEMMA InvalidLeaves ==
  ASSUME Roomy, Holds(frames), Invalid
  PROVE  Leaves(frames, frames')
<1> DEFINE fs == Fetched
           gs == [fs EXCEPT ![Len(fs)].gasUsed = fs[Len(fs)].gasLimit]
<1>1. On(frames, fs, 0)
  BY FetchedOn DEF Invalid
<1>2. frames' = Ended([fs EXCEPT ![Depth].gasUsed = Top.gasLimit], FALSE)
  BY DEF Invalid
<1> HIDE DEF fs
<1>3. Len(fs) = Depth /\ fs[Len(fs)].gasLimit = Top.gasLimit
  <2>1. Len(fs) = Depth /\ Len(fs) \in 1 .. Len(fs)
    BY <1>1, OnFacts DEF On, Depth
  <2>2. QED
    BY <1>1, <2>1 DEF On, Keeps, Top, Depth
<1>4. frames' = Ended(gs, FALSE)
  BY <1>2, <1>3
<1>5. On(frames, gs, 0)
  BY <1>1, AllUsedOn
<1> HIDE DEF gs
<1>6. 0 \in Nat /\ 0 <= Cost /\ FALSE \in BOOLEAN
  BY InstructionRoom
<1>7. Leaves(frames, Ended(gs, FALSE))
  BY <1>5, <1>6, OnEndLeaves
<1>8. QED
  BY <1>4, <1>7

-----------------------------------------------------------------------------
(* Calls have room *)

LEMMA CallChargedOn ==
  ASSUME Roomy, Holds(frames), Running, NEW kind \in CallKinds
  PROVE  On(frames, CallCharged(kind), AccessCost)
<1> DEFINE c == IF kind = "callcode" THEN 0 ELSE AccessCost
<1>1. c \in Nat /\ c <= AccessCost /\ 0 + c <= Cost /\ 0 + c = c /\ AccessCost \in Nat
  BY InstructionRoom
<1>2. CallCharged(kind) = Charge(Fetched, c)
  BY DEF CallCharged
<1> HIDE DEF c
<1>3. On(frames, Charge(Fetched, c), 0 + c)
  BY <1>1, FetchedOn, ChargeOn
<1>4. On(frames, Charge(Fetched, c), c)
  BY <1>1, <1>3
<1>5. QED
  BY <1>1, <1>2, <1>4, OnMore

\* What the two areas of memory of a call charge together is what one area charges.
LEMMA CallExpandedOn ==
  ASSUME Roomy, Holds(frames), Running, NEW kind \in CallKinds, NEW args \in Nat, NEW ret \in Nat
  PROVE  On(frames, CallExpanded(kind, args, ret), AccessCost + MemoryCost(MaxMemory))
<1> DEFINE fs == CallCharged(kind)
           f == fs[Len(fs)]
           a == ExpandMemory(f, args)
           g == IF CanExpand(f, args) THEN ExpandMemory(a, ret) ELSE a
           most == MemoryCost(MaxMemory)
           held == MemoryCost(f.memory)
<1>1. On(frames, fs, AccessCost)
  BY CallChargedOn
<1>2. CallExpanded(kind, args, ret)
        = [fs EXCEPT ![Depth] = IF CanExpand(fs[Depth], args)
                                THEN ExpandMemory(ExpandMemory(fs[Depth], args), ret)
                                ELSE ExpandMemory(fs[Depth], args)]
  BY DEF CallExpanded
<1> HIDE DEF fs
<1>3. Len(fs) = Depth
  BY <1>1 DEF On, Depth
<1>4. CallExpanded(kind, args, ret) = [fs EXCEPT ![Len(fs)] = g]
  BY <1>2, <1>3
<1>5. f \in Frame /\ f.ticked /\ Due(f) <= Start + AccessCost
  BY <1>1, OnFacts DEF On
<1> HIDE DEF f
<1>6. /\ f.memory \in Nat /\ MaxMemory \in Nat /\ Due(f) \in Nat /\ AccessCost \in Nat
      /\ f.memory <= f.memory
  BY <1>5, DueIs, GasAssumption DEF Frame
<1>7. held \in Nat /\ most \in Nat
  BY <1>6, InstructionRoom, MemoryCostIsMonotone
<1>8. Due(f) + most - held < UintMod /\ Start + AccessCost + most <= Full
  BY <1>5, <1>6, <1>7, FullIsUint, StartIs, InstructionRoom
<1>9. /\ Keeps(f, a) /\ a.ticked = f.ticked /\ Due(a) + held <= Due(f) + most
      /\ CanExpand(f, args) => Due(a) + held = Due(f) + MemoryCost(a.memory)
  BY <1>5, <1>8, ExpandKeeps
<1>10. a \in Frame /\ a.memory \in Nat /\ a.memory <= a.memory /\ Due(a) \in Nat
  <2>1. a \in Frame
    BY <1>9 DEF Keeps
  <2>2. QED
    BY <2>1, DueIs, GasAssumption DEF Frame
<1> HIDE DEF a
<1>11. MemoryCost(a.memory) \in Nat
  BY <1>10, MemoryCostIsMonotone
<1>12. CASE CanExpand(f, args)
  <2> DEFINE b == ExpandMemory(a, ret)
  <2>1. g = b
    BY <1>12
  <2>2. Due(a) + held = Due(f) + MemoryCost(a.memory)
    BY <1>9, <1>12
  <2> DEFINE dueF == Due(f)
             dueA == Due(a)
             heldA == MemoryCost(a.memory)
  <2>3. dueA + most - heldA < UintMod
    <3>1. dueF \in Nat /\ dueA \in Nat /\ heldA \in Nat /\ UintMod \in Nat
      BY <1>6, <1>10, <1>11, FullIsUint
    <3>2. dueF + most - held < UintMod /\ dueA + held = dueF + heldA
      BY <1>8, <2>2
    <3> HIDE DEF dueF, dueA, heldA, held, most
    <3>3. QED
      BY <1>7, <3>1, <3>2
  <2> HIDE DEF held
  <2>4. /\ Keeps(a, b) /\ b.ticked = a.ticked
        /\ Due(b) + MemoryCost(a.memory) <= Due(a) + most
    BY <1>10, <2>3, ExpandKeeps
  <2>5. Due(b) \in Nat
    BY <2>4, DueIs DEF Keeps
  <2> HIDE DEF b, g, most
  <2>6. Keeps(f, b)
    BY <1>5, <1>9, <2>4, KeepsTransitive
  <2>7. Due(b) <= Start + (AccessCost + most)
    BY <1>5, <1>6, <1>7, <1>10, <1>11, <2>2, <2>4, <2>5, StartIs
  <2>8. b.ticked
    BY <1>5, <1>9, <2>4
  <2>9. On(frames, [fs EXCEPT ![Len(fs)] = b], AccessCost + most)
    BY <1>1, <2>6, <2>7, <2>8, TopOn DEF f
  <2>10. QED
    BY <1>4, <2>1, <2>9 DEF most
<1>13. CASE ~CanExpand(f, args)
  <2>1. g = a
    BY <1>13
  <2> HIDE DEF g, most, held
  <2>2. Due(a) <= Start + (AccessCost + most)
    BY <1>5, <1>6, <1>7, <1>9, <1>10, StartIs
  <2>3. a.ticked
    BY <1>5, <1>9
  <2>4. On(frames, [fs EXCEPT ![Len(fs)] = a], AccessCost + most)
    BY <1>1, <1>9, <2>2, <2>3, TopOn DEF f
  <2>5. QED
    BY <1>4, <2>1, <2>4 DEF most
<1>14. QED
  BY <1>12, <1>13

LEMMA CallPreparedOn ==
  ASSUME Roomy, Holds(frames), Running, NEW kind \in CallKinds, NEW target \in Address,
         NEW args \in Nat, NEW ret \in Nat
  PROVE  On(frames, CallPrepared(kind, target, args, ret), Cost)
<1> DEFINE c == AccessCost + MemoryCost(MaxMemory)
           fs == CallExpanded(kind, args, ret)
<1>1. c \in Nat /\ Cost \in Nat /\ c <= Cost
  BY InstructionRoom
<1>2. On(frames, fs, c)
  BY CallExpandedOn
<1> HIDE DEF c, fs
<1>3. On(frames, GetContractCode(fs, target), c)
  BY <1>1, <1>2, CodeOn
<1>4. On(frames, GetContractCode(fs, target), Cost)
  BY <1>1, <1>3, OnMore
<1>5. QED
  BY <1>4 DEF CallPrepared, fs

\* The callee is there, and its code has been asked for or not.
LEMMA CalleeRoom ==
  ASSUME Roomy, Holds(frames), NEW kind \in CallKinds, NEW target \in Address,
         NEW gas \in GasArguments, NEW args \in Nat, NEW ret \in Nat, Calling(kind, args, ret),
         NEW es, es = WithCallee(CallPrepared(kind, target, args, ret), kind, target, gas),
         NEW hs, hs = es \/ hs = Enter(es, target)
  PROVE  /\ Calm(hs, Start) /\ Len(hs) = Depth + 1
         /\ \A i \in 1 .. Depth : Keeps(frames[i], hs[i])
<1> DEFINE fs == CallPrepared(kind, target, args, ret)
<1>1. On(frames, fs, Cost)
  BY CallPreparedOn DEF Calling
<1> HIDE DEF fs
<1>2. Len(fs) = Depth /\ Depth \in Nat /\ Depth < MaxDepth
      /\ \A i \in 1 .. Depth : frames[i] \in Frame
  BY <1>1, OnFacts DEF On, Depth, Calling
<1>3. Calm(fs, Full) /\ fs[Len(fs)].ticked
  BY <1>1, StartIs DEF On, Calm
<1>4. /\ Calm(es, Start) /\ Len(es) = Depth + 1
      /\ \A i \in 1 .. Depth : es[i] = fs[i]
  BY <1>2, <1>3, CalleeCalm DEF fs
<1>5. \A i \in 1 .. Depth : Keeps(frames[i], es[i])
  BY <1>1, <1>2, <1>4 DEF On, Depth
<1>6. CASE hs = es
  BY <1>4, <1>5, <1>6
<1>7. CASE hs = Enter(es, target)
  <2>1. Calm(hs, Start) /\ InPlace(es, hs)
    BY <1>4, <1>7, EnterCalm, StartIs
  <2>2. \A i \in 1 .. Depth : i \in 1 .. Len(es)
    BY <1>2, <1>4
  <2>3. \A i \in 1 .. Depth : Keeps(frames[i], hs[i])
    BY <1>2, <1>5, <2>1, <2>2, KeepsTransitive DEF InPlace
  <2>4. QED
    BY <1>4, <2>1, <2>3 DEF InPlace
<1>8. QED
  BY <1>6, <1>7

LEMMA CallLeaves ==
  ASSUME Roomy, Holds(frames), NEW kind \in CallKinds, NEW target \in Address,
         NEW gas \in GasArguments, NEW args \in MemoryEnds, NEW ret \in MemoryEnds,
         \/ Call(kind, target, gas, args, ret)
         \/ \E success \in BOOLEAN : CallReturns(kind, target, gas, args, ret, success)
  PROVE  Leaves(frames, frames')
<1> DEFINE es == WithCallee(CallPrepared(kind, target, args, ret), kind, target, gas)
<1>1. args \in Nat /\ ret \in Nat /\ Calling(kind, args, ret)
  BY GasAssumption DEF Call, CallReturns
<1>2. PICK hs : /\ hs = es \/ hs = Enter(es, target)
                /\ frames' = hs \/ \E success \in BOOLEAN : frames' = Ended(hs, success)
  BY DEF Call, CallReturns
<1> HIDE DEF es
<1>3. /\ Calm(hs, Start) /\ Len(hs) = Depth + 1
      /\ \A i \in 1 .. Depth : Keeps(frames[i], hs[i])
  BY <1>1, <1>2, CalleeRoom DEF es
<1>4. Contained(hs) /\ hs \in Seq(Frame) /\ Len(hs) > 0 /\ Len(hs) <= MaxDepth
  BY <1>3 DEF Calm, Contained
<1>5. Depth \in Nat /\ Depth > 0 /\ frames \in Seq(Frame) /\ Len(frames) = Depth
      /\ \A i \in 1 .. Depth : frames[i] \in Frame
  <2>1. frames \in Seq(Frame) /\ Len(frames) > 0
    BY <1>1 DEF Holds, Contained, Calling, Running, Ready, Depth
  <2>2. QED
    BY <2>1, LenProperties, ElementOfSeq DEF Depth
<1>6. hs[Len(hs)] \in Frame /\ Len(hs) \in 1 .. MaxDepth
  BY <1>3, <1>4, <1>5, CalmFacts, GasAssumption
<1>7. hs[Len(hs)].gasUsed \in Nat /\ hs[Len(hs)].gasUsed <= Ceiling(Len(hs))
  <2> DEFINE f == hs[Len(hs)]
  <2>1. Due(f) <= Start
    BY <1>3 DEF Calm
  <2> HIDE DEF f
  <2>2. f.gasUsed \in Nat /\ Due(f) \in Nat /\ f.gasUsed <= Due(f)
    BY <1>6, DueIs DEF f
  <2>3. Ceiling(Len(hs)) \in Nat /\ Full <= Ceiling(Len(hs))
    BY <1>6, CeilingIs
  <2>4. f.gasUsed <= Ceiling(Len(hs))
    BY <2>1, <2>2, <2>3, StartIs
  <2>5. QED
    BY <2>2, <2>4 DEF f
<1>8. \A i \in 1 .. Depth : Within(frames[i]) <= hs[i].gasUsed
  BY <1>3, KeepsWithin
<1>9. CASE frames' = hs
  <2>1. Holds(hs)
    BY <1>3, <1>4, <1>7 DEF Holds, Calm
  <2>2. Len(frames) <= Len(hs)
    BY <1>3, <1>5
  <2>3. Leaves(frames, hs)
    BY <1>5, <1>8, <2>1, <2>2 DEF Leaves, Retains
  <2>4. QED
    BY <1>9, <2>3
<1>10. ASSUME NEW success \in BOOLEAN, frames' = Ended(hs, success) PROVE Leaves(frames, frames')
  <2> DEFINE gs == Ended(hs, success)
             m == Len(hs) - 1
  <2>1. m = Depth /\ m # 0 /\ m \in 1 .. m /\ m + 1 = Len(hs)
    BY <1>3, <1>5
  <2>2. /\ Holds(gs) /\ Len(gs) = m
        /\ \A i \in 1 .. m : i # m => gs[i] = hs[i]
        /\ gs[m].gasUsed = hs[m].gasUsed + hs[m + 1].gasUsed
    BY <1>4, <1>7, <2>1, EndedHolds
  <2> HIDE DEF gs, m
  <2>3. hs[m].gasUsed \in Nat /\ hs[m + 1].gasUsed \in Nat /\ Within(frames[m]) \in Int
    <3>1. hs[m] \in Frame /\ frames[m] \in Frame
      BY <1>3, <1>5, <2>1 DEF Keeps
    <3>2. QED
      BY <1>7, <2>1, <3>1, FrameGas DEF Within, Lesser
  <2>4. Within(frames[m]) <= gs[m].gasUsed
    BY <1>8, <2>1, <2>2, <2>3
  <2>5. \A i \in 1 .. m : Within(frames[i]) <= gs[i].gasUsed
    BY <1>8, <2>1, <2>2, <2>4
  <2>6. Len(frames) <= Len(gs) /\ Len(frames) = m
    BY <1>5, <2>1, <2>2
  <2>7. Leaves(frames, gs)
    BY <2>2, <2>5, <2>6 DEF Leaves, Retains
  <2>8. QED
    BY <1>10, <2>7 DEF gs
<1>11. QED
  BY <1>2, <1>9, <1>10

LEMMA CallFailsLeaves ==
  ASSUME Roomy, Holds(frames), NEW kind \in CallKinds, NEW target \in Address,
         NEW args \in MemoryEnds, NEW ret \in MemoryEnds, CallFails(kind, target, args, ret)
  PROVE  Leaves(frames, frames')
<1> DEFINE c == AccessCost + MemoryCost(MaxMemory)
           expanded == CallExpanded(kind, args, ret)
           prepared == CallPrepared(kind, target, args, ret)
<1>1. args \in Nat /\ ret \in Nat /\ Running
  BY GasAssumption DEF CallFails
<1>2. c \in Nat /\ Cost \in Nat /\ c <= Cost /\ FALSE \in BOOLEAN
  BY InstructionRoom
<1>3. On(frames, expanded, c) /\ On(frames, prepared, Cost)
  BY <1>1, CallExpandedOn, CallPreparedOn
<1>4. frames' = Ended(expanded, FALSE) \/ frames' = Ended(prepared, FALSE)
  BY DEF CallFails
<1> HIDE DEF c, expanded, prepared
<1>5. Leaves(frames, Ended(expanded, FALSE))
  BY <1>2, <1>3, OnEndLeaves
<1>6. Leaves(frames, Ended(prepared, FALSE))
  <2>1. Cost <= Cost
    BY <1>2
  <2>2. On(frames, prepared, Cost)
    BY <1>3
  <2> HIDE DEF Cost
  <2>3. QED
    BY <1>2, <2>1, <2>2, OnEndLeaves
<1>7. QED
  BY <1>4, <1>5, <1>6

LEMMA PrecompileLeaves ==
  ASSUME Roomy, Holds(frames), NEW kind \in CallKinds, NEW args \in MemoryEnds,
         NEW ret \in MemoryEnds, Precompile(kind, args, ret)
  PROVE  Leaves(frames, frames')
<1> DEFINE c == AccessCost + MemoryCost(MaxMemory)
           fs == CallExpanded(kind, args, ret)
<1>1. args \in Nat /\ ret \in Nat /\ Running
  BY GasAssumption DEF Precompile
<1>2. On(frames, fs, c) /\ c \in Nat
  BY <1>1, CallExpandedOn, InstructionRoom
<1>3. PICK cost \in PrecompileCosts \cup {RemainingGas(fs[Depth])} : frames' = Charge(fs, cost)
  BY DEF Precompile
<1> HIDE DEF fs
<1>4. CASE cost \in PrecompileCosts
  <2>1. cost \in Nat /\ c + cost \in Nat /\ c + cost <= Cost
    BY <1>4, CostOf, StartIs
  <2> HIDE DEF c
  <2>2. On(frames, Charge(fs, cost), c + cost)
    BY <1>2, <2>1, ChargeOn
  <2>3. QED
    BY <1>3, <2>1, <2>2, OnLeaves
<1>5. CASE cost = RemainingGas(fs[Depth])
  <2> DEFINE f == fs[Len(fs)]
  <2>1. Len(fs) = Depth /\ f \in Frame
    BY <1>2, OnFacts DEF On, Depth
  <2>2. Plus(f.gasUsed, cost) = f.gasLimit
    BY <1>5, <2>1, RemainderIsExact
  <2>3. Charge(fs, cost) = [fs EXCEPT ![Len(fs)].gasUsed = Plus(f.gasUsed, cost)]
    BY DEF Charge
  <2>4. Charge(fs, cost) = [fs EXCEPT ![Len(fs)].gasUsed = f.gasLimit]
    BY <2>2, <2>3
  <2> HIDE DEF c
  <2>5. On(frames, Charge(fs, cost), 0)
    <3>1. On(frames, [fs EXCEPT ![Len(fs)].gasUsed = fs[Len(fs)].gasLimit], 0)
      BY <1>2, AllUsedOn
    <3>2. QED
      BY <2>4, <3>1
  <2>6. 0 \in Nat /\ 0 <= Cost
    BY InstructionRoom
  <2>7. QED
    BY <1>3, <2>5, <2>6, OnLeaves
<1>6. QED
  BY <1>4, <1>5

\* A transaction starts with the gas of its calldata used.
LEMMA BeginHolds ==
  ASSUME Roomy, NEW to \in Contract, NEW limit \in GasLimits, Begin(to, limit)
  PROVE  Holds(frames')
<1> DEFINE f == NewFrame("transaction", Sender, to, limit, InitialGas, {}, {to})
           fs == <<f>>
<1>1. /\ to \in Address /\ Sender \in Address /\ limit \in Uint /\ InitialGas \in Uint
      /\ {} \in SUBSET Address /\ {to} \in SUBSET Address
      /\ "transaction" \in CallKinds \cup {"transaction"}
  BY GasAssumption DEF Uint
<1>2. f \in Frame
  BY <1>1, NewFrameFacts
<1>3. f.gasUsed = InitialGas /\ f.gasLimit = limit
  BY DEF NewFrame
<1>4. frames' = Enter(fs, to)
  BY DEF Begin
<1> HIDE DEF f
<1>5. fs \in Seq(Frame) /\ Len(fs) = 1 /\ fs[1] = f
  BY <1>2
<1> HIDE DEF fs
<1>6. limit <= Limit /\ InitialGas <= Limit /\ MaxDepth > 0 /\ MaxDepth \in Nat
  BY RoomIs, GasAssumption DEF RoomFor
<1>7. Due(f) <= Start
  <2>1. Due(f) \in Nat /\ f.gasUsed \in Nat /\ Due(f) <= f.gasUsed + ColdCost * Cardinality(Address)
    BY <1>2, DueIs
  <2>2. QED
    BY <1>3, <1>6, <2>1, StartIs
<1>8. Contained(fs)
  BY <1>3, <1>5, <1>6 DEF Contained
<1>9. Calm(fs, Start)
  BY <1>5, <1>7, <1>8 DEF Calm
<1> DEFINE gs == Enter(fs, to)
<1>10. Calm(gs, Start) /\ InPlace(fs, gs)
  BY <1>9, EnterCalm, StartIs
<1> HIDE DEF gs
<1>11. Len(gs) = 1 /\ gs[1] \in Frame
  BY <1>5, <1>10 DEF InPlace, Keeps
<1>12. 1 \in 1 .. MaxDepth
  BY <1>6
<1>13. gs[1].gasUsed <= Ceiling(1) /\ Due(gs[1]) <= Start
  <2>1. Due(gs[1]) <= Start
    BY <1>10, <1>11 DEF Calm
  <2>2. Due(gs[1]) \in Nat /\ gs[1].gasUsed \in Nat /\ gs[1].gasUsed <= Due(gs[1])
    BY <1>11, DueIs
  <2>3. Ceiling(1) \in Nat /\ Full <= Ceiling(1)
    BY <1>12, CeilingIs
  <2>4. QED
    BY <2>1, <2>2, <2>3, StartIs
<1>14. Holds(gs)
  BY <1>10, <1>11, <1>13 DEF Holds, Calm
<1>15. QED
  BY <1>4, <1>14 DEF gs

LEMMA StepLeaves ==
  ASSUME Roomy, Holds(frames), Instruction \/ CallInstruction
  PROVE  Leaves(frames, frames')
<1>1. CASE Instruction
  BY <1>1, ExecuteLeaves, MemoryLeaves, JumpLeaves, BalanceOfLeaves, ExtCodeSizeLeaves,
     ReturnLeaves, StopLeaves, InvalidLeaves DEF Instruction
<1>2. CASE CallInstruction
  BY <1>2, PrecompileLeaves, CallFailsLeaves, CallLeaves DEF CallInstruction
<1>3. QED
  BY <1>1, <1>2

LEMMA StepHolds ==
  ASSUME Roomy, Holds(frames), [Next]_vars
  PROVE  /\ Holds(frames')
         /\ UNCHANGED vars \/ frames = <<>> \/ Leaves(frames, frames')
<1>1. ASSUME NEW to \in Contract, NEW limit \in GasLimits, Begin(to, limit)
      PROVE  Holds(frames') /\ frames = <<>>
  BY <1>1, BeginHolds DEF Begin
<1>2. CASE UNCHANGED vars
  BY <1>2 DEF vars
<1>3. QED
  BY <1>1, <1>2, StepLeaves DEF Next, Leaves

\* Counts keep their room: no addition of gas wraps.
THEOREM CountsHaveRoom == Roomy => (Spec => []Holds(frames))
<1> SUFFICES ASSUME Roomy PROVE Spec => []Holds(frames)
  OBVIOUS
<1>1. Init => Holds(frames)
  <2>1. Len(<<>>) = 0 /\ <<>> \in Seq(Frame)
    BY EmptySeq
  <2>2. QED
    BY <2>1, GasAssumption DEF Init, Holds, Contained
<1>2. Holds(frames) /\ [Next]_vars => Holds(frames)'
  BY StepHolds
<1>3. QED
  BY <1>1, <1>2, PTL DEF Spec

\* Where counts have room, what contexts used within their limits stays charged,
\* however their calls end.
THEOREM GasIsAlwaysCharged == Roomy => (Spec => GasIsNeverForgotten)
<1> SUFFICES ASSUME Roomy PROVE Spec => GasIsNeverForgotten
  OBVIOUS
<1>1. Holds(frames) /\ [Next]_vars
        => [Depth > 0 /\ Len(frames') > 0 => TotalGas' >= GasWithinLimits]_vars
  <2> SUFFICES ASSUME Holds(frames), [Next]_vars, Depth > 0, Len(frames') > 0, ~UNCHANGED vars
               PROVE  TotalGas' >= GasWithinLimits
    OBVIOUS
  <2>1. Leaves(frames, frames') /\ Holds(frames')
    <3>1. frames # <<>>
      BY EmptySeq DEF Depth
    <3>2. QED
      BY <3>1, StepHolds
  <2>2. frames \in Seq(Frame) /\ frames' \in Seq(Frame) /\ frames' # <<>> /\ Retains(frames, frames')
    BY <2>1, EmptySeq DEF Leaves, Holds, Contained
  <2> DEFINE gs == frames'
  <2>3. TotalWithin(frames) <= Total(gs)
    BY <2>2, RetainsTotal
  <2>4. TotalWithin(frames) = GasWithinLimits
    BY DEF TotalWithin, GasWithinLimits, Within, Depth
  <2>5. Total(gs) = TotalGas'
    BY DEF Total, TotalGas, Depth
  <2> HIDE DEF gs
  <2>6. QED
    BY <2>3, <2>4, <2>5
<1>2. QED
  BY <1>1, CountsHaveRoom, PTL DEF Spec, GasIsNeverForgotten
=============================================================================

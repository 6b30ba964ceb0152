--------------------------- MODULE EVMFrames_proofs ---------------------------
(***************************************************************************)
(* Proofs about EVMFrames, for every set of accounts and keys, every word  *)
(* size and every depth of calls.                                          *)
(***************************************************************************)
EXTENDS EVMFrames, DataLemmas, SequenceTheorems

(***************************************************************************)
(* The inductive invariant, stated of a stack of contexts: it is what each *)
(* helper of the model must preserve.                                      *)
(***************************************************************************)

\* The contexts of the stack that hold the cell are those up to h.
HeldUpTo(fs, cell, h) == \A i \in 1 .. Len(fs) : Has(fs[i], cell) <=> i <= h

Nests(fs) == \A cell \in Cell : \E h \in 0 .. Len(fs) : HeldUpTo(fs, cell, h)

OnlyCaches(fs) ==
  \A i \in 2 .. Len(fs) : fs[i].isStatic =>
    \A cell \in Cell :
      Has(fs[i], cell) => fs[i].overlay[cell] = fs[i - 1].overlay[cell]

Inherits(fs) ==
  \A i \in 2 .. Len(fs) : fs[i - 1].isStatic \/ fs[i].kind = "staticcall" => fs[i].isStatic

\* Only the outermost context stands on the chain itself, and it may write.
Rooted(fs) == Len(fs) > 0 => ~fs[1].isStatic /\ fs[1].kind # "staticcall"

Sound(fs) ==
  /\ fs \in Seq(Frame)
  /\ Nests(fs)
  /\ OnlyCaches(fs)
  /\ Inherits(fs)
  /\ Rooted(fs)

Inv == TypeOK /\ Sound(frames)

LEMMA FrameFacts ==
  ASSUME NEW f \in Frame
  PROVE  /\ f.address \in Address /\ f.caller \in Address /\ f.isStatic \in BOOLEAN
         /\ f.overlay \in Overlay /\ f.transient \in Transient
         /\ \A cell \in Cell : f.overlay[cell] \in Word \cup {Absent}
         /\ \A cell \in Cell : Has(f, cell) => f.overlay[cell] \in Word
BY DEF Frame, Overlay, Transient, Has

LEMMA EnterCell ==
  ASSUME NEW f \in Frame, NEW cell \in Cell, NEW v \in Word
  PROVE  LET g == [f EXCEPT !.overlay[cell] = v]
         IN  /\ g \in Frame
             /\ g.kind = f.kind /\ g.address = f.address /\ g.caller = f.caller
             /\ g.isStatic = f.isStatic /\ g.transient = f.transient
             /\ \A c \in Cell : g.overlay[c] = IF c = cell THEN v ELSE f.overlay[c]
BY DEF Frame, Overlay

\* Where a lookup that starts at context i ends, in a stack that nests.
LEMMA HolderIs ==
  ASSUME NEW fs \in Seq(Frame), NEW cell \in Cell,
         NEW m \in 0 .. Len(fs), HeldUpTo(fs, cell, m),
         NEW i \in 0 .. Len(fs)
  PROVE  Holder(fs, i, cell) = IF i <= m THEN i ELSE m
<1> DEFINE h == IF i <= m THEN i ELSE m
           Is(x) == /\ x > 0 => Has(fs[x], cell)
                    /\ \A j \in (x + 1) .. i : ~Has(fs[j], cell)
<1>0. Len(fs) \in Nat
  BY LenProperties
<1>1. h \in 0 .. i /\ Is(h)
  BY <1>0 DEF HeldUpTo
<1>2. ASSUME NEW x \in 0 .. i, Is(x)
      PROVE  x = h
  BY <1>0, <1>2 DEF HeldUpTo
<1>3. Holder(fs, i, cell) = CHOOSE x \in 0 .. i : Is(x)
  BY Zenon DEF Holder
<1> HIDE DEF h, Is
<1>4. QED
  BY <1>1, <1>2, <1>3 DEF h

LEMMA LookupIs ==
  ASSUME NEW fs \in Seq(Frame), NEW cell \in Cell,
         NEW m \in 0 .. Len(fs), HeldUpTo(fs, cell, m),
         NEW i \in 0 .. Len(fs)
  PROVE  Lookup(fs, i, cell) =
           IF i = 0 \/ m = 0 THEN chain[cell]
           ELSE IF i <= m THEN fs[i].overlay[cell] ELSE fs[m].overlay[cell]
BY HolderIs, LenProperties DEF Lookup

LEMMA LookupChain ==
  ASSUME NEW fs, Sound(fs), NEW cell \in Cell
  PROVE  Lookup(fs, 0, cell) = chain[cell]
<1>1. PICK m \in 0 .. Len(fs) : HeldUpTo(fs, cell, m)
  BY DEF Sound, Nests
<1>2. 0 \in 0 .. Len(fs)
  BY LenProperties DEF Sound
<1>3. QED
  BY <1>1, <1>2, LookupIs DEF Sound

LEMMA LookupInWord ==
  ASSUME chain \in World, NEW fs, Sound(fs), NEW cell \in Cell, NEW i \in 0 .. Len(fs)
  PROVE  Lookup(fs, i, cell) \in Word
<1>1. PICK m \in 0 .. Len(fs) : HeldUpTo(fs, cell, m)
  BY DEF Sound, Nests
<1>2. chain[cell] \in Word
  BY DEF World
<1>3. \A j \in 1 .. Len(fs) : j <= m => fs[j].overlay[cell] \in Word
  BY <1>1, FrameFacts, ElementOfSeq DEF Sound, HeldUpTo
<1>4. QED
  BY <1>1, <1>2, <1>3, LookupIs, LenProperties DEF Sound

\* Two contexts, and two stacks of them, that differ only in their overlays.
SameCall(f, g) ==
  /\ f.kind = g.kind
  /\ f.address = g.address
  /\ f.caller = g.caller
  /\ f.isStatic = g.isStatic
  /\ f.transient = g.transient

SameCalls(fs, gs) ==
  /\ Len(fs) = Len(gs)
  /\ \A i \in 1 .. Len(fs) : SameCall(fs[i], gs[i])

\* A read enters the cell into every context above its holder and nothing else.
LEMMA ReadThroughIs ==
  ASSUME NEW fs, Sound(fs), Len(fs) > 0, NEW cell \in Cell, NEW v \in Word
  PROVE  LET read == ReadThrough(fs, cell, v)
         IN  /\ read \in Seq(Frame)
             /\ SameCalls(read, fs)
             /\ \A i \in 1 .. Len(fs) : \A c \in Cell :
                  read[i].overlay[c] =
                    IF c = cell /\ ~Has(fs[i], cell) THEN v ELSE fs[i].overlay[c]
<1> DEFINE h == Holder(fs, Len(fs), cell)
           e(i) == IF i > h THEN [fs[i] EXCEPT !.overlay[cell] = v] ELSE fs[i]
<1>0. fs \in Seq(Frame) /\ Len(fs) \in Nat
  BY LenProperties DEF Sound
<1>1. PICK m \in 0 .. Len(fs) : HeldUpTo(fs, cell, m)
  BY DEF Sound, Nests
<1>2. h = m
  BY <1>0, <1>1, HolderIs
<1>3. \A i \in 1 .. Len(fs) : fs[i] \in Frame /\ e(i) \in Frame
  BY <1>0, ElementOfSeq, EnterCell
<1>4. ReadThrough(fs, cell, v) = [i \in 1 .. Len(fs) |-> e(i)]
  BY DEF ReadThrough
<1>5. [i \in 1 .. Len(fs) |-> e(i)] \in Seq(Frame)
  BY <1>0, <1>3, IsASeq
<1>6. Len([i \in 1 .. Len(fs) |-> e(i)]) = Len(fs)
  BY <1>0, <1>5, LenProperties
<1>7. ASSUME NEW i \in 1 .. Len(fs)
      PROVE  /\ e(i).kind = fs[i].kind /\ e(i).address = fs[i].address
             /\ e(i).caller = fs[i].caller /\ e(i).isStatic = fs[i].isStatic
             /\ e(i).transient = fs[i].transient
             /\ \A c \in Cell : e(i).overlay[c] =
                  IF c = cell /\ ~Has(fs[i], cell) THEN v ELSE fs[i].overlay[c]
  <2>1. Has(fs[i], cell) <=> ~(i > h)
    BY <1>0, <1>1, <1>2 DEF HeldUpTo
  <2>2. CASE Has(fs[i], cell)
    <3>1. e(i) = fs[i]
      BY <2>1, <2>2
    <3> HIDE DEF e
    <3>2. QED
      BY <2>2, <3>1
  <2>3. CASE ~Has(fs[i], cell)
    <3>1. e(i) = [fs[i] EXCEPT !.overlay[cell] = v]
      BY <2>1, <2>3
    <3> HIDE DEF e
    <3>2. QED
      BY <1>3, <2>3, <3>1, EnterCell
  <2>4. QED
    BY <2>2, <2>3
<1> HIDE DEF e
<1>8. QED
  BY <1>4, <1>5, <1>6, <1>7 DEF SameCalls, SameCall

LEMMA ReadIsSound ==
  ASSUME chain \in World, ConstantsAssumption,
         NEW fs, Sound(fs), Len(fs) > 0, NEW cell \in Cell, NEW v \in Word,
         Holder(fs, Len(fs), cell) = 0 \/ v = Lookup(fs, Len(fs), cell)
  PROVE  LET read == ReadThrough(fs, cell, v)
         IN  /\ Sound(read)
             /\ SameCalls(read, fs)
             /\ Has(read[Len(fs)], cell)
             /\ read[Len(fs)].overlay[cell] = v
<1> DEFINE read == ReadThrough(fs, cell, v)
<1>0. fs \in Seq(Frame) /\ Len(fs) \in Nat /\ v # Absent
  BY LenProperties DEF Sound, ConstantsAssumption
<1>1. /\ read \in Seq(Frame)
      /\ SameCalls(read, fs)
      /\ \A i \in 1 .. Len(fs) : \A c \in Cell :
           read[i].overlay[c] =
             IF c = cell /\ ~Has(fs[i], cell) THEN v ELSE fs[i].overlay[c]
  BY ReadThroughIs
<1>2. PICK m \in 0 .. Len(fs) : HeldUpTo(fs, cell, m)
  BY DEF Sound, Nests
<1>3. \A i \in 1 .. Len(fs) : \A c \in Cell : Has(read[i], c) <=> Has(fs[i], c) \/ c = cell
  BY <1>0, <1>1 DEF Has
<1>4. Len(read) = Len(fs)
  BY <1>1 DEF SameCalls, SameCall
<1>5. Holder(fs, Len(fs), cell) = m /\ (m > 0 => v = fs[m].overlay[cell])
  BY <1>0, <1>2, HolderIs, LookupIs
<1> HIDE DEF read
<1>6. Nests(read)
  <2> SUFFICES ASSUME NEW c \in Cell
               PROVE  \E h \in 0 .. Len(fs) : HeldUpTo(read, c, h)
    BY <1>4 DEF Nests
  <2>1. CASE c = cell
    <3>1. HeldUpTo(read, cell, Len(fs))
      BY <1>0, <1>3, <1>4 DEF HeldUpTo
    <3>2. QED
      BY <1>0, <2>1, <3>1
  <2>2. CASE c # cell
    <3>1. PICK h \in 0 .. Len(fs) : HeldUpTo(fs, c, h)
      BY DEF Sound, Nests
    <3>2. HeldUpTo(read, c, h)
      BY <1>3, <1>4, <2>2, <3>1 DEF HeldUpTo
    <3>3. QED
      BY <3>2
  <2>3. QED
    BY <2>1, <2>2
<1>7. OnlyCaches(read)
  <2> SUFFICES ASSUME NEW i \in 2 .. Len(fs), read[i].isStatic,
                      NEW c \in Cell, Has(read[i], c)
               PROVE  read[i].overlay[c] = read[i - 1].overlay[c]
    BY <1>4 DEF OnlyCaches
  <2>0. i \in 1 .. Len(fs) /\ i - 1 \in 1 .. Len(fs)
    BY <1>0
  <2>1. fs[i].isStatic
    BY <1>1, <2>0, <1>4 DEF SameCalls, SameCall
  <2>2. CASE Has(fs[i], c)
    <3>1. fs[i].overlay[c] = fs[i - 1].overlay[c]
      BY <2>1, <2>2 DEF Sound, OnlyCaches
    <3>2. Has(fs[i - 1], c)
      BY <2>2, <3>1 DEF Has
    <3>3. QED
      BY <1>1, <2>0, <2>2, <3>1, <3>2
  <2>3. CASE ~Has(fs[i], c)
    <3>1. c = cell /\ i > m
      BY <1>2, <1>3, <2>0, <2>3 DEF HeldUpTo
    <3>2. read[i].overlay[c] = v
      BY <1>1, <2>0, <2>3, <3>1
    <3>3. CASE Has(fs[i - 1], c)
      <4>1. i - 1 = m
        BY <1>0, <1>2, <2>0, <3>1, <3>3 DEF HeldUpTo
      <4>2. QED
        BY <1>1, <1>5, <2>0, <3>1, <3>2, <3>3, <4>1
    <3>4. CASE ~Has(fs[i - 1], c)
      BY <1>1, <2>0, <3>1, <3>2, <3>4
    <3>5. QED
      BY <3>3, <3>4
  <2>4. QED
    BY <2>2, <2>3
<1>8. Inherits(read) /\ Rooted(read)
  <2>1. Inherits(fs) /\ Rooted(fs)
    BY DEF Sound
  <2>2. /\ Len(read) = Len(fs)
        /\ \A i \in 1 .. Len(fs) : read[i].isStatic = fs[i].isStatic /\ read[i].kind = fs[i].kind
    BY <1>0, <1>1, <1>4 DEF SameCalls, SameCall
  <2>3. Inherits(read)
    BY <1>0, <2>1, <2>2 DEF Inherits
  <2>4. Rooted(read)
    BY <1>0, <2>1, <2>2 DEF Rooted
  <2>5. QED
    BY <2>3, <2>4
<1>9. read[Len(fs)].overlay[cell] = v
  <2>1. Has(fs[Len(fs)], cell) => m = Len(fs) /\ m > 0
    BY <1>0, <1>2 DEF HeldUpTo
  <2>2. QED
    BY <1>0, <1>1, <1>5, <2>1
<1>10. Has(read[Len(fs)], cell)
  BY <1>0, <1>3
<1>11. QED
  BY <1>1, <1>6, <1>7, <1>8, <1>9, <1>10 DEF Sound, read

LEMMA PutIs ==
  ASSUME NEW fs \in Seq(Frame), Len(fs) > 0, NEW cell \in Cell, NEW v \in Word
  PROVE  LET put == Put(fs, cell, v)
         IN  /\ put \in Seq(Frame)
             /\ SameCalls(put, fs)
             /\ \A i \in 1 .. Len(fs) - 1 : put[i] = fs[i]
             /\ \A c \in Cell :
                  put[Len(fs)].overlay[c] = IF c = cell THEN v ELSE fs[Len(fs)].overlay[c]
<1> DEFINE n == Len(fs)
           g == [fs[n] EXCEPT !.overlay[cell] = v]
<1>0. n \in Nat /\ n \in 1 .. n /\ fs[n] \in Frame
  BY ElementOfSeq, LenProperties
<1>1. /\ g \in Frame
      /\ g.kind = fs[n].kind /\ g.address = fs[n].address /\ g.caller = fs[n].caller
      /\ g.isStatic = fs[n].isStatic /\ g.transient = fs[n].transient
      /\ \A c \in Cell : g.overlay[c] = IF c = cell THEN v ELSE fs[n].overlay[c]
  BY <1>0, EnterCell
<1>2. Put(fs, cell, v) = [fs EXCEPT ![n] = g]
  BY DEF Put
<1> HIDE DEF g
<1>3. /\ [fs EXCEPT ![n] = g] \in Seq(Frame)
      /\ Len([fs EXCEPT ![n] = g]) = n
      /\ \A j \in 1 .. n : [fs EXCEPT ![n] = g][j] = IF j = n THEN g ELSE fs[j]
  BY <1>0, <1>1, ExceptSeq
<1>4. QED
  BY <1>0, <1>1, <1>2, <1>3 DEF SameCalls, SameCall

\* Writing a cell that the running context already holds.
LEMMA PutIsSound ==
  ASSUME ConstantsAssumption, NEW fs, Sound(fs), Len(fs) > 0,
         NEW cell \in Cell, NEW v \in Word,
         Has(fs[Len(fs)], cell), ~fs[Len(fs)].isStatic
  PROVE  Sound(Put(fs, cell, v))
<1> DEFINE put == Put(fs, cell, v)
<1>0. fs \in Seq(Frame) /\ Len(fs) \in Nat /\ v # Absent
  BY LenProperties DEF Sound, ConstantsAssumption
<1>1. /\ put \in Seq(Frame)
      /\ SameCalls(put, fs)
      /\ \A i \in 1 .. Len(fs) - 1 : put[i] = fs[i]
      /\ \A c \in Cell :
           put[Len(fs)].overlay[c] = IF c = cell THEN v ELSE fs[Len(fs)].overlay[c]
  BY <1>0, PutIs
<1>2. Len(put) = Len(fs)
  BY <1>1 DEF SameCalls, SameCall
<1> HIDE DEF put
<1>3. \A i \in 1 .. Len(fs) : \A c \in Cell : Has(put[i], c) <=> Has(fs[i], c)
  BY <1>0, <1>1 DEF Has
<1>4. Nests(put)
  BY <1>2, <1>3 DEF Sound, Nests, HeldUpTo
<1>5. OnlyCaches(put)
  <2> SUFFICES ASSUME NEW i \in 2 .. Len(fs), put[i].isStatic,
                      NEW c \in Cell, Has(put[i], c)
               PROVE  put[i].overlay[c] = put[i - 1].overlay[c]
    BY <1>2 DEF OnlyCaches
  <2>1. i \in 1 .. Len(fs) - 1 /\ i - 1 \in 1 .. Len(fs) - 1
    BY <1>0, <1>1 DEF SameCalls, SameCall
  <2>2. QED
    BY <1>1, <2>1 DEF Sound, OnlyCaches
<1>6. Inherits(put) /\ Rooted(put)
  <2>1. \A i \in 1 .. Len(fs) : put[i].kind = fs[i].kind /\ put[i].isStatic = fs[i].isStatic
    BY <1>1, <1>2 DEF SameCalls, SameCall
  <2>2. Inherits(put)
    BY <1>0, <1>2, <2>1 DEF Sound, Inherits
  <2>3. Rooted(put)
    BY <1>0, <1>2, <2>1 DEF Sound, Rooted
  <2>4. QED
    BY <2>2, <2>3
<1>7. QED
  BY <1>1, <1>4, <1>5, <1>6 DEF Sound, put

\* A new context holds nothing and is static under a static one.
LEMMA PushIsSound ==
  ASSUME NEW fs, Sound(fs), NEW f \in Frame,
         \A c \in Cell : ~Has(f, c),
         Len(fs) > 0 => (fs[Len(fs)].isStatic \/ f.kind = "staticcall" => f.isStatic),
         Len(fs) = 0 => ~f.isStatic /\ f.kind # "staticcall"
  PROVE  Sound(Append(fs, f))
<1> DEFINE push == Append(fs, f)
<1>1. /\ fs \in Seq(Frame) /\ Len(fs) \in Nat
      /\ push \in Seq(Frame) /\ Len(push) = Len(fs) + 1
      /\ push[Len(fs) + 1] = f
      /\ \A i \in 1 .. Len(fs) : push[i] = fs[i]
  BY LenProperties DEF Sound
<1> HIDE DEF push
<1>2. Nests(push)
  <2> SUFFICES ASSUME NEW c \in Cell
               PROVE  \E h \in 0 .. Len(push) : HeldUpTo(push, c, h)
    BY DEF Nests
  <2>1. PICK h \in 0 .. Len(fs) : HeldUpTo(fs, c, h)
    BY DEF Sound, Nests
  <2>2. HeldUpTo(push, c, h)
    BY <1>1, <2>1 DEF HeldUpTo
  <2>3. QED
    BY <1>1, <2>2
<1>3. OnlyCaches(push)
  BY <1>1 DEF Sound, OnlyCaches
<1>4. Inherits(push) /\ Rooted(push)
  <2>1. Inherits(fs) /\ Rooted(fs)
    BY DEF Sound
  <2>2. ASSUME NEW i \in 2 .. Len(push), push[i - 1].isStatic \/ push[i].kind = "staticcall"
        PROVE  push[i].isStatic
    <3>1. CASE i \in 2 .. Len(fs)
      <4>1. push[i] = fs[i] /\ push[i - 1] = fs[i - 1]
        BY <1>1, <3>1
      <4>2. QED
        BY <2>1, <2>2, <3>1, <4>1 DEF Inherits
    <3>2. CASE i = Len(fs) + 1
      <4>1. push[i] = f /\ push[i - 1] = fs[Len(fs)] /\ Len(fs) > 0
        BY <1>1, <2>2, <3>2
      <4>2. QED
        BY <2>2, <4>1
    <3>3. QED
      BY <1>1, <2>2, <3>1, <3>2
  <2>3. Rooted(push)
    BY <1>1, <2>1 DEF Rooted
  <2>4. QED
    BY <2>2, <2>3 DEF Inherits
<1>5. QED
  BY <1>1, <1>2, <1>3, <1>4 DEF Sound, push

LEMMA PopIs ==
  ASSUME NEW fs \in Seq(Frame), Len(fs) > 0
  PROVE  LET pop == SubSeq(fs, 1, Len(fs) - 1)
         IN  /\ pop \in Seq(Frame)
             /\ Len(pop) = Len(fs) - 1
             /\ \A i \in 1 .. Len(fs) - 1 : pop[i] = fs[i]
<1>1. Len(fs) \in Nat /\ \A i \in 1 .. Len(fs) - 1 : fs[i] \in Frame
  BY LenProperties, ElementOfSeq
<1> DEFINE n == Len(fs) - 1
<1>2. /\ SubSeq(fs, 1, n) \in Seq(Frame)
      /\ Len(SubSeq(fs, 1, n)) = IF 1 <= n THEN n - 1 + 1 ELSE 0
      /\ \A i \in 1 .. n - 1 + 1 : SubSeq(fs, 1, n)[i] = fs[1 + i - 1]
  <2>1. 1 \in Int /\ n \in Int /\ \A i \in 1 .. n : fs[i] \in Frame
    BY <1>1
  <2> HIDE DEF n
  <2>2. QED
    BY <2>1, SubSeqProperties
<1>3. n \in Nat
  BY <1>1
<1>4. Len(SubSeq(fs, 1, n)) = n
  <2> HIDE DEF n
  <2> DEFINE len == Len(SubSeq(fs, 1, n))
  <2>1. len = IF 1 <= n THEN n - 1 + 1 ELSE 0
    BY <1>2, Zenon
  <2> HIDE DEF len
  <2>2. len = n
    BY <1>3, <2>1
  <2>3. QED
    BY <2>2 DEF len
<1>5. ASSUME NEW i \in 1 .. n PROVE SubSeq(fs, 1, n)[i] = fs[i]
  BY <1>1, <1>2
<1>6. QED
  BY <1>2, <1>4, <1>5

LEMMA PopIsSound ==
  ASSUME NEW fs, Sound(fs), Len(fs) > 0
  PROVE  Sound(SubSeq(fs, 1, Len(fs) - 1))
<1> DEFINE pop == SubSeq(fs, 1, Len(fs) - 1)
<1>1. /\ fs \in Seq(Frame) /\ Len(fs) \in Nat
      /\ pop \in Seq(Frame)
      /\ Len(pop) = Len(fs) - 1
      /\ \A i \in 1 .. Len(fs) - 1 : pop[i] = fs[i]
  BY LenProperties, PopIs DEF Sound
<1> HIDE DEF pop
<1>2. Nests(pop)
  <2> SUFFICES ASSUME NEW c \in Cell
               PROVE  \E h \in 0 .. Len(pop) : HeldUpTo(pop, c, h)
    BY DEF Nests
  <2>1. PICK h \in 0 .. Len(fs) : HeldUpTo(fs, c, h)
    BY DEF Sound, Nests
  <2>2. HeldUpTo(pop, c, IF h < Len(fs) THEN h ELSE Len(fs) - 1)
    BY <1>1, <2>1 DEF HeldUpTo
  <2>3. QED
    BY <1>1, <2>2
<1>3. OnlyCaches(pop)
  BY <1>1 DEF Sound, OnlyCaches
<1>4. Inherits(pop) /\ Rooted(pop)
  BY <1>1 DEF Sound, Inherits, Rooted
<1>5. QED
  BY <1>1, <1>2, <1>3, <1>4 DEF Sound, pop

LEMMA WriteChangesToIs ==
  ASSUME NEW src \in Frame, NEW dst \in Frame
  PROVE  LET g == WriteChangesTo(src, dst)
         IN  /\ g \in Frame
             /\ g.kind = dst.kind /\ g.address = dst.address /\ g.caller = dst.caller
             /\ g.isStatic = dst.isStatic
             /\ \A c \in Cell : g.overlay[c] =
                  IF Has(src, c) /\ ~dst.isStatic THEN src.overlay[c] ELSE dst.overlay[c]
<1> DEFINE o == [c \in Cell |-> IF Has(src, c) THEN src.overlay[c] ELSE dst.overlay[c]]
           t == [c \in Address \X TransientKey |->
                   IF src.transient[c] # Absent THEN src.transient[c] ELSE dst.transient[c]]
           g == [dst EXCEPT !.overlay = o, !.transient = t]
<1>1. o \in Overlay
  BY DEF Frame, Overlay
<1>2. t \in Transient
  BY DEF Frame, Transient
<1>3. WriteChangesTo(src, dst) = IF dst.isStatic THEN dst ELSE g
  BY DEF WriteChangesTo
<1>4. \A c \in Cell : o[c] = IF Has(src, c) THEN src.overlay[c] ELSE dst.overlay[c]
  OBVIOUS
<1> HIDE DEF o, t
<1>5. /\ g \in Frame
      /\ g.kind = dst.kind /\ g.address = dst.address /\ g.caller = dst.caller
      /\ g.isStatic = dst.isStatic
      /\ g.overlay = o
  BY <1>1, <1>2 DEF Frame
<1> HIDE DEF g
<1>6. CASE dst.isStatic
  BY <1>3, <1>6
<1>7. CASE ~dst.isStatic
  BY <1>3, <1>4, <1>5, <1>7
<1>8. QED
  BY <1>6, <1>7

\* The stack after a nested call succeeds: the caller has taken over what the
\* callee holds, unless the call was static or the caller is.
Merges(fs) == fs[Len(fs)].kind # "staticcall" /\ ~fs[Len(fs) - 1].isStatic

LEMMA SucceededIs ==
  ASSUME NEW fs \in Seq(Frame), Len(fs) > 1
  PROVE  LET n == Len(fs)
             ret == Succeeded(fs)
         IN  /\ ret \in Seq(Frame)
             /\ Len(ret) = n - 1
             /\ \A i \in 1 .. n - 2 : ret[i] = fs[i]
             /\ ret[n - 1].kind = fs[n - 1].kind
             /\ ret[n - 1].address = fs[n - 1].address
             /\ ret[n - 1].caller = fs[n - 1].caller
             /\ ret[n - 1].isStatic = fs[n - 1].isStatic
             /\ \A c \in Cell : ret[n - 1].overlay[c] =
                  IF Has(fs[n], c) /\ Merges(fs) THEN fs[n].overlay[c]
                  ELSE fs[n - 1].overlay[c]
<1> DEFINE n == Len(fs)
           pop == SubSeq(fs, 1, n - 1)
           g == WriteChangesTo(fs[n], fs[n - 1])
<1>1. /\ n \in Nat /\ n - 1 \in 1 .. n - 1
      /\ fs[n] \in Frame /\ fs[n - 1] \in Frame
  BY LenProperties, ElementOfSeq
<1>2. /\ pop \in Seq(Frame)
      /\ Len(pop) = n - 1
      /\ \A i \in 1 .. n - 1 : pop[i] = fs[i]
  BY PopIs
<1>3. pop[n - 1] = fs[n - 1]
  BY <1>1, <1>2
<1> HIDE DEF pop
<1>4. Succeeded(fs) = IF fs[n].kind = "staticcall" THEN pop
                      ELSE [pop EXCEPT ![n - 1] = g]
  BY <1>2, <1>3 DEF Succeeded, pop
<1>5. /\ g \in Frame
      /\ g.kind = fs[n - 1].kind /\ g.address = fs[n - 1].address
      /\ g.caller = fs[n - 1].caller /\ g.isStatic = fs[n - 1].isStatic
      /\ \A c \in Cell : g.overlay[c] =
           IF Has(fs[n], c) /\ ~fs[n - 1].isStatic THEN fs[n].overlay[c]
           ELSE fs[n - 1].overlay[c]
  BY <1>1, WriteChangesToIs
<1> HIDE DEF g
<1>6. /\ [pop EXCEPT ![n - 1] = g] \in Seq(Frame)
      /\ Len([pop EXCEPT ![n - 1] = g]) = n - 1
      /\ \A i \in 1 .. n - 1 : [pop EXCEPT ![n - 1] = g][i] = IF i = n - 1 THEN g ELSE pop[i]
  BY <1>1, <1>2, <1>5, ExceptSeq
<1>7. CASE fs[n].kind = "staticcall"
  BY <1>1, <1>2, <1>3, <1>4, <1>7 DEF Merges
<1>8. CASE fs[n].kind # "staticcall"
  BY <1>1, <1>2, <1>4, <1>5, <1>6, <1>8 DEF Merges
<1>9. QED
  BY <1>7, <1>8

\* In a stack that nests, a cell that a context holds is held by its caller.
LEMMA CallerHolds ==
  ASSUME NEW fs, Sound(fs), NEW i \in 2 .. Len(fs), NEW c \in Cell, Has(fs[i], c)
  PROVE  Has(fs[i - 1], c)
<1>1. PICK h \in 0 .. Len(fs) : HeldUpTo(fs, c, h)
  BY DEF Sound, Nests
<1>2. Len(fs) \in Nat
  BY LenProperties DEF Sound
<1>3. QED
  BY <1>1, <1>2 DEF HeldUpTo

LEMMA SucceededIsSound ==
  ASSUME NEW fs, Sound(fs), Len(fs) > 1
  PROVE  Sound(Succeeded(fs))
<1> DEFINE n == Len(fs)
           pop == SubSeq(fs, 1, n - 1)
           ret == Succeeded(fs)
<1>1. fs \in Seq(Frame) /\ n \in Nat
  BY LenProperties DEF Sound
<1>2. /\ ret \in Seq(Frame)
      /\ Len(ret) = n - 1
      /\ \A i \in 1 .. n - 2 : ret[i] = fs[i]
      /\ ret[n - 1].kind = fs[n - 1].kind
      /\ ret[n - 1].isStatic = fs[n - 1].isStatic
      /\ \A c \in Cell : ret[n - 1].overlay[c] =
           IF Has(fs[n], c) /\ Merges(fs) THEN fs[n].overlay[c] ELSE fs[n - 1].overlay[c]
  BY <1>1, SucceededIs
<1>3. /\ Sound(pop)
      /\ pop \in Seq(Frame)
      /\ Len(pop) = n - 1
      /\ \A i \in 1 .. n - 1 : pop[i] = fs[i]
  BY <1>1, PopIs, PopIsSound
<1> HIDE DEF pop, ret
<1>4. ASSUME NEW i \in 1 .. n - 1, NEW c \in Cell
      PROVE  Has(ret[i], c) <=> Has(pop[i], c)
  <2>1. CASE i < n - 1
    BY <1>1, <1>2, <1>3, <2>1
  <2>2. CASE i = n - 1
    <3>1. Has(fs[n], c) => Has(fs[n - 1], c)
      BY <1>1, CallerHolds
    <3>2. QED
      BY <1>1, <1>2, <1>3, <2>2, <3>1 DEF Has
  <2>3. QED
    BY <1>1, <2>1, <2>2
<1>5. Nests(ret)
  BY <1>2, <1>3, <1>4 DEF Sound, Nests, HeldUpTo
<1>6. \A i \in 1 .. n - 1 : ret[i].isStatic = pop[i].isStatic /\ ret[i].kind = pop[i].kind
  BY <1>1, <1>2, <1>3
<1>7. OnlyCaches(ret)
  <2> SUFFICES ASSUME NEW i \in 2 .. n - 1, ret[i].isStatic,
                      NEW c \in Cell, Has(ret[i], c)
               PROVE  ret[i].overlay[c] = ret[i - 1].overlay[c]
    BY <1>2 DEF OnlyCaches
  <2>1. pop[i].isStatic /\ Has(pop[i], c)
    BY <1>1, <1>4, <1>6
  <2>2. pop[i].overlay[c] = pop[i - 1].overlay[c]
    BY <1>3, <2>1 DEF Sound, OnlyCaches
  <2>3. ret[i - 1] = pop[i - 1]
    BY <1>1, <1>2, <1>3
  <2>4. ret[i].overlay[c] = pop[i].overlay[c]
    <3>1. CASE i < n - 1
      <4>1. i \in 1 .. n - 2 /\ i \in 1 .. n - 1
        BY <1>1, <3>1
      <4>2. QED
        BY <1>2, <1>3, <4>1
    <3>2. CASE i = n - 1
      <4>1. n - 1 \in 1 .. n - 1 /\ pop[n - 1] = fs[n - 1]
        BY <1>1, <1>3
      <4>2. ~Merges(fs)
        BY <2>1, <3>2, <4>1 DEF Merges
      <4>3. QED
        BY <1>2, <3>2, <4>1, <4>2
    <3>3. QED
      BY <1>1, <3>1, <3>2
  <2>5. QED
    BY <2>2, <2>3, <2>4
<1>8. Inherits(ret)
  <2>1. Inherits(pop) /\ Len(pop) = n - 1 /\ Len(ret) = n - 1
    BY <1>1, <1>2, <1>3 DEF Sound
  <2>2. ASSUME NEW i \in 2 .. Len(ret), ret[i - 1].isStatic \/ ret[i].kind = "staticcall"
        PROVE  ret[i].isStatic
    <3>1. /\ ret[i].isStatic = pop[i].isStatic /\ ret[i].kind = pop[i].kind
          /\ ret[i - 1].isStatic = pop[i - 1].isStatic
      BY <1>1, <1>6, <2>1
    <3>2. QED
      BY <2>1, <2>2, <3>1 DEF Inherits
  <2>3. QED
    BY <2>2 DEF Inherits
<1>9. Rooted(ret)
  BY <1>1, <1>2, <1>3, <1>6 DEF Sound, Rooted
<1>10. QED
  BY <1>2, <1>5, <1>7, <1>8, <1>9 DEF Sound, ret

-----------------------------------------------------------------------------
(* What the helpers do to the worlds that the contexts see *)

LEMMA ReadViews ==
  ASSUME chain \in World, ConstantsAssumption,
         NEW fs, Sound(fs), Len(fs) > 0, NEW cell \in Cell
  PROVE  LET read == ReadThrough(fs, cell, Lookup(fs, Len(fs), cell))
         IN  \A i \in 0 .. Len(fs) : \A c \in Cell : Lookup(read, i, c) = Lookup(fs, i, c)
<1> DEFINE n == Len(fs)
           v == Lookup(fs, n, cell)
           read == ReadThrough(fs, cell, v)
<1>0. fs \in Seq(Frame) /\ n \in Nat /\ v \in Word /\ v # Absent
  BY LookupInWord, LenProperties DEF Sound, ConstantsAssumption
<1>1. /\ read \in Seq(Frame)
      /\ SameCalls(read, fs)
      /\ \A i \in 1 .. n : \A c \in Cell :
           read[i].overlay[c] =
             IF c = cell /\ ~Has(fs[i], cell) THEN v ELSE fs[i].overlay[c]
  BY <1>0, ReadThroughIs
<1>2. Len(read) = n
  BY <1>1 DEF SameCalls, SameCall
<1>3. PICK m \in 0 .. n : HeldUpTo(fs, cell, m)
  BY DEF Sound, Nests
<1>4. v = IF n = 0 \/ m = 0 THEN chain[cell] ELSE fs[m].overlay[cell]
  BY <1>0, <1>3, LookupIs
<1> HIDE DEF read, v
<1> SUFFICES ASSUME NEW i \in 0 .. n, NEW c \in Cell
             PROVE  Lookup(read, i, c) = Lookup(fs, i, c)
  BY DEF read, v
<1>5. CASE c = cell
  <2>1. HeldUpTo(read, cell, n)
    <3>1. \A j \in 1 .. n : read[j].overlay[cell] # Absent
      BY <1>0, <1>1 DEF Has
    <3>2. QED
      BY <1>0, <1>2, <3>1 DEF HeldUpTo, Has
  <2>2. Lookup(read, i, cell) = IF i = 0 THEN chain[cell] ELSE read[i].overlay[cell]
    BY <1>0, <1>1, <1>2, <2>1, LookupIs
  <2>3. Lookup(fs, i, cell) = IF i = 0 \/ m = 0 THEN chain[cell]
                              ELSE IF i <= m THEN fs[i].overlay[cell] ELSE fs[m].overlay[cell]
    BY <1>0, <1>3, LookupIs
  <2>4. i # 0 => read[i].overlay[cell] = IF i <= m THEN fs[i].overlay[cell] ELSE v
    BY <1>0, <1>1, <1>3 DEF HeldUpTo
  <2>5. QED
    BY <1>0, <1>4, <1>5, <2>2, <2>3, <2>4
<1>6. CASE c # cell
  <2>1. PICK h \in 0 .. n : HeldUpTo(fs, c, h)
    BY DEF Sound, Nests
  <2>2. \A j \in 1 .. n : read[j].overlay[c] = fs[j].overlay[c]
    BY <1>1, <1>6
  <2>3. HeldUpTo(read, c, h)
    BY <1>2, <2>1, <2>2 DEF HeldUpTo, Has
  <2>4. QED
    BY <1>0, <1>1, <1>2, <2>1, <2>2, <2>3, LookupIs
<1>7. QED
  BY <1>5, <1>6

LEMMA PutViews ==
  ASSUME ConstantsAssumption, NEW fs, Sound(fs), Len(fs) > 0,
         NEW cell \in Cell, NEW v \in Word, Has(fs[Len(fs)], cell)
  PROVE  LET put == Put(fs, cell, v)
         IN  \A i \in 0 .. Len(fs) : \A c \in Cell :
               Lookup(put, i, c) = IF i = Len(fs) /\ c = cell THEN v ELSE Lookup(fs, i, c)
<1> DEFINE n == Len(fs)
           put == Put(fs, cell, v)
<1>0. fs \in Seq(Frame) /\ n \in Nat /\ v # Absent
  BY LenProperties DEF Sound, ConstantsAssumption
<1>1. /\ put \in Seq(Frame)
      /\ SameCalls(put, fs)
      /\ \A i \in 1 .. n - 1 : put[i] = fs[i]
      /\ \A c \in Cell : put[n].overlay[c] = IF c = cell THEN v ELSE fs[n].overlay[c]
  BY <1>0, PutIs
<1>2. Len(put) = n
  BY <1>1 DEF SameCalls, SameCall
<1> HIDE DEF put
<1> SUFFICES ASSUME NEW i \in 0 .. n, NEW c \in Cell
             PROVE  Lookup(put, i, c) = IF i = n /\ c = cell THEN v ELSE Lookup(fs, i, c)
  BY DEF put
<1>3. PICK h \in 0 .. n : HeldUpTo(fs, c, h)
  BY DEF Sound, Nests
<1>4. \A j \in 1 .. n : put[j].overlay[c] = IF j = n /\ c = cell THEN v ELSE fs[j].overlay[c]
  BY <1>0, <1>1
<1>5. HeldUpTo(put, c, h)
  BY <1>0, <1>2, <1>3, <1>4 DEF HeldUpTo, Has
<1>6. c = cell => h = n
  BY <1>0, <1>3 DEF HeldUpTo
<1>7. Lookup(put, i, c) = IF i = 0 \/ h = 0 THEN chain[c]
                          ELSE IF i <= h THEN put[i].overlay[c] ELSE put[h].overlay[c]
  BY <1>0, <1>1, <1>2, <1>5, LookupIs
<1>8. Lookup(fs, i, c) = IF i = 0 \/ h = 0 THEN chain[c]
                         ELSE IF i <= h THEN fs[i].overlay[c] ELSE fs[h].overlay[c]
  BY <1>0, <1>3, LookupIs
<1>9. QED
  BY <1>0, <1>4, <1>6, <1>7, <1>8

LEMMA PushViews ==
  ASSUME NEW fs, Sound(fs), NEW f \in Frame, \A c \in Cell : ~Has(f, c),
         NEW i \in 0 .. Len(fs) + 1, NEW c \in Cell
  PROVE  Lookup(Append(fs, f), i, c) =
           IF i = Len(fs) + 1 THEN Lookup(fs, Len(fs), c) ELSE Lookup(fs, i, c)
<1> DEFINE n == Len(fs)
           push == Append(fs, f)
<1>1. /\ fs \in Seq(Frame) /\ n \in Nat
      /\ push \in Seq(Frame) /\ Len(push) = n + 1
      /\ push[n + 1] = f
      /\ \A j \in 1 .. n : push[j] = fs[j]
  BY LenProperties DEF Sound
<1> HIDE DEF push
<1>2. PICK h \in 0 .. n : HeldUpTo(fs, c, h)
  BY DEF Sound, Nests
<1>3. HeldUpTo(push, c, h)
  BY <1>1, <1>2 DEF HeldUpTo
<1>4. Lookup(push, i, c) = IF i = 0 \/ h = 0 THEN chain[c]
                           ELSE IF i <= h THEN push[i].overlay[c] ELSE push[h].overlay[c]
  BY <1>1, <1>3, LookupIs
<1>5. \A j \in 0 .. n :
        Lookup(fs, j, c) = IF j = 0 \/ h = 0 THEN chain[c]
                           ELSE IF j <= h THEN fs[j].overlay[c] ELSE fs[h].overlay[c]
  BY <1>1, <1>2, LookupIs
<1>6. QED
  BY <1>1, <1>4, <1>5 DEF push

LEMMA PopViews ==
  ASSUME NEW fs, Sound(fs), Len(fs) > 0, NEW i \in 0 .. Len(fs) - 1, NEW c \in Cell
  PROVE  Lookup(SubSeq(fs, 1, Len(fs) - 1), i, c) = Lookup(fs, i, c)
<1> DEFINE n == Len(fs)
           pop == SubSeq(fs, 1, n - 1)
<1>1. /\ fs \in Seq(Frame) /\ n \in Nat
      /\ pop \in Seq(Frame)
      /\ Len(pop) = n - 1
      /\ \A j \in 1 .. n - 1 : pop[j] = fs[j]
  BY LenProperties, PopIs DEF Sound
<1> HIDE DEF pop
<1>2. PICK h \in 0 .. n : HeldUpTo(fs, c, h)
  BY DEF Sound, Nests
<1> DEFINE k == IF h < n THEN h ELSE n - 1
<1>3. HeldUpTo(pop, c, k) /\ k \in 0 .. n - 1
  BY <1>1, <1>2 DEF HeldUpTo
<1>4. Lookup(pop, i, c) = IF i = 0 \/ k = 0 THEN chain[c]
                          ELSE IF i <= k THEN pop[i].overlay[c] ELSE pop[k].overlay[c]
  BY <1>1, <1>3, LookupIs
<1>5. Lookup(fs, i, c) = IF i = 0 \/ h = 0 THEN chain[c]
                         ELSE IF i <= h THEN fs[i].overlay[c] ELSE fs[h].overlay[c]
  <2>1. i \in 0 .. n
    BY <1>1
  <2>2. QED
    BY <1>1, <1>2, <2>1, LookupIs
<1>6. CASE h < n
  <2>1. k = h /\ (h > 0 => pop[h] = fs[h]) /\ (i > 0 => pop[i] = fs[i])
    BY <1>1, <1>6
  <2>2. QED
    BY <1>1, <1>4, <1>5, <2>1 DEF pop
<1>7. CASE h = n
  <2>1. i <= k /\ i <= h /\ h # 0 /\ (k = 0 => i = 0) /\ (i > 0 => pop[i] = fs[i])
    BY <1>1, <1>7
  <2>2. QED
    BY <1>1, <1>4, <1>5, <2>1 DEF pop
<1>8. QED
  BY <1>1, <1>6, <1>7

\* A successful call hands its world to its caller, or changes nothing when
\* the caller may not write.
LEMMA SucceededViews ==
  ASSUME NEW fs, Sound(fs), Len(fs) > 1, NEW i \in 0 .. Len(fs) - 1, NEW c \in Cell
  PROVE  Lookup(Succeeded(fs), i, c) =
           IF i = Len(fs) - 1 /\ Merges(fs) THEN Lookup(fs, Len(fs), c) ELSE Lookup(fs, i, c)
<1> DEFINE n == Len(fs)
           ret == Succeeded(fs)
<1>0. fs \in Seq(Frame) /\ n \in Nat /\ n > 1
  BY LenProperties DEF Sound
<1>1. /\ ret \in Seq(Frame)
      /\ Len(ret) = n - 1
      /\ \A j \in 1 .. n - 2 : ret[j] = fs[j]
      /\ ret[n - 1].overlay[c] =
           IF Has(fs[n], c) /\ Merges(fs) THEN fs[n].overlay[c] ELSE fs[n - 1].overlay[c]
  BY <1>0, SucceededIs
<1> HIDE DEF ret
<1>2. PICK h \in 0 .. n : HeldUpTo(fs, c, h)
  BY DEF Sound, Nests
<1> DEFINE k == IF h < n THEN h ELSE n - 1
<1>3. Has(fs[n], c) <=> h = n
  BY <1>0, <1>2 DEF HeldUpTo
<1>4. \A j \in 1 .. n - 1 : Has(ret[j], c) <=> Has(fs[j], c)
  <2>1. Has(fs[n], c) => Has(fs[n - 1], c)
    BY <1>0, CallerHolds
  <2>2. QED
    BY <1>0, <1>1, <2>1 DEF Has
<1>5. HeldUpTo(ret, c, k) /\ k \in 0 .. n - 1
  BY <1>0, <1>1, <1>2, <1>4 DEF HeldUpTo
<1>6. Lookup(ret, i, c) = IF i = 0 \/ k = 0 THEN chain[c]
                          ELSE IF i <= k THEN ret[i].overlay[c] ELSE ret[k].overlay[c]
  BY <1>1, <1>5, LookupIs
<1>7. \A j \in 0 .. n :
        Lookup(fs, j, c) = IF j = 0 \/ h = 0 THEN chain[c]
                           ELSE IF j <= h THEN fs[j].overlay[c] ELSE fs[h].overlay[c]
  BY <1>0, <1>2, LookupIs
<1> HIDE DEF k
<1>8. (h < n => k = h) /\ (h = n => k = n - 1)
  BY <1>0 DEF k
<1>9. i \in 0 .. n
  BY <1>0
<1>10. CASE i < n - 1
  <2>1. \A j \in 1 .. n - 2 : ret[j].overlay[c] = fs[j].overlay[c]
    BY <1>1
  <2>2. i # 0 => ret[i].overlay[c] = fs[i].overlay[c]
    BY <1>0, <1>10, <2>1
  <2>3. k <= i /\ k # 0 => ret[k].overlay[c] = fs[k].overlay[c]
    BY <1>0, <1>5, <1>10, <2>1
  <2>4. k <= i => k = h
    BY <1>0, <1>8, <1>10
  <2>5. i <= k => i <= h
    BY <1>0, <1>8
  <2>6. Lookup(ret, i, c) = Lookup(fs, i, c)
    BY <1>0, <1>5, <1>6, <1>7, <1>9, <2>2, <2>3, <2>4, <2>5
  <2>7. QED
    BY <1>0, <1>10, <2>6 DEF ret
<1>11. CASE i = n - 1
  <2>1. n - 1 # 0
    <3> HIDE DEF n
    <3>1. QED
      BY <1>0
  <2>2. CASE h = n
    <3>1. Lookup(ret, i, c) = ret[n - 1].overlay[c]
      BY <1>0, <1>6, <1>8, <1>11, <2>1, <2>2
    <3>2. Lookup(fs, n, c) = fs[n].overlay[c] /\ Lookup(fs, n - 1, c) = fs[n - 1].overlay[c]
      BY <1>0, <1>7, <2>1, <2>2
    <3>3. QED
      BY <1>1, <1>3, <1>11, <2>2, <3>1, <3>2 DEF ret
  <2>3. CASE h < n
    <3>1. ~Has(fs[n], c) /\ ret[n - 1].overlay[c] = fs[n - 1].overlay[c]
      BY <1>0, <1>1, <1>3, <2>3
    <3>2. h # 0 => ret[h].overlay[c] = fs[h].overlay[c]
      BY <1>0, <1>1, <2>3, <3>1
    <3>3. Lookup(fs, n, c) = Lookup(fs, n - 1, c)
      BY <1>0, <1>7, <2>3
    <3>4. Lookup(ret, i, c) = Lookup(fs, i, c)
      BY <1>0, <1>6, <1>7, <1>8, <1>9, <1>11, <2>1, <2>3, <3>1, <3>2
    <3>5. QED
      BY <1>11, <3>3, <3>4 DEF ret
  <2>4. QED
    BY <1>0, <2>2, <2>3
<1>12. QED
  BY <1>0, <1>9, <1>10, <1>11

-----------------------------------------------------------------------------
(* The value transfer *)

SameViews(fs, gs) ==
  \A i \in 0 .. Len(fs) : \A c \in Cell : Lookup(fs, i, c) = Lookup(gs, i, c)

LEMMA AddWordInWord ==
  ASSUME ConstantsAssumption, NEW x \in Word, NEW y \in Word
  PROVE  AddWord(x, y) \in Word
BY DEF AddWord, Word, ConstantsAssumption

LEMMA AccountRead ==
  ASSUME chain \in World, ConstantsAssumption,
         NEW fs, Sound(fs), Len(fs) > 0, NEW a \in Address
  PROVE  LET read == GetAccountInfo(fs, a)
         IN  /\ Sound(read)
             /\ SameCalls(read, fs)
             /\ SameViews(read, fs)
             /\ Has(read[Len(read)], <<a, Balance>>)
             /\ BalanceIn(read, a) = Lookup(fs, Len(fs), <<a, Balance>>)
             /\ BalanceIn(read, a) \in Word
<1> DEFINE cell == <<a, Balance>>
           v == Lookup(fs, Len(fs), cell)
           read == ReadThrough(fs, cell, v)
<1>1. cell \in Cell /\ Len(fs) \in 0 .. Len(fs) /\ fs \in Seq(Frame)
  BY LenProperties DEF Cell, Sound
<1>2. v \in Word
  BY <1>1, LookupInWord
<1>3. GetAccountInfo(fs, a) = read /\ BalanceIn(read, a) = read[Len(read)].overlay[cell]
  BY DEF GetAccountInfo, BalanceIn
<1> HIDE DEF cell
<1>4. /\ Sound(read)
      /\ SameCalls(read, fs)
      /\ Has(read[Len(fs)], cell)
      /\ read[Len(fs)].overlay[cell] = v
  BY <1>1, <1>2, ReadIsSound
<1>5. Len(read) = Len(fs)
  BY <1>4 DEF SameCalls, SameCall
<1>6. \A i \in 0 .. Len(fs) : \A c \in Cell : Lookup(read, i, c) = Lookup(fs, i, c)
  BY <1>1, ReadViews
<1> HIDE DEF read, v
<1>7. QED
  BY <1>2, <1>3, <1>4, <1>5, <1>6 DEF SameViews, cell, v

\* What a transfer that goes through does to the world of the running context.
Covered(fs, from, to, amount) ==
  amount = 0 \/ from = to \/ Lookup(fs, Len(fs), <<from, Balance>>) >= amount

AfterMove(fs, from, to, amount, c) ==
  IF amount = 0 \/ from = to THEN Lookup(fs, Len(fs), c)
  ELSE IF c = <<from, Balance>> THEN Lookup(fs, Len(fs), c) - amount
  ELSE IF c = <<to, Balance>> THEN AddWord(Lookup(fs, Len(fs), c), amount)
  ELSE Lookup(fs, Len(fs), c)

LEMMA TransferredIs ==
  ASSUME chain \in World, ConstantsAssumption,
         NEW fs, Sound(fs), Len(fs) > 0, NEW amount \in Word,
         CanTransfer(fs, amount)
  PROVE  LET n    == Len(fs)
             from == fs[n].caller
             to   == fs[n].address
             t    == Transferred(fs, amount)
         IN  /\ Sound(t)
             /\ SameCalls(t, fs)
             /\ \A i \in 0 .. n - 1 : \A c \in Cell : Lookup(t, i, c) = Lookup(fs, i, c)
             /\ \A c \in Cell : Lookup(t, n, c) = AfterMove(fs, from, to, amount, c)
             /\ Covered(fs, from, to, amount)
<1> DEFINE n    == Len(fs)
           from == fs[n].caller
           to   == fs[n].address
           r    == GetAccountInfo(fs, to)
           paid == Put(r, <<to, Balance>>, AddWord(BalanceIn(r, to), amount))
           r2   == GetAccountInfo(paid, from)
           done == Put(r2, <<from, Balance>>, BalanceIn(r2, from) - amount)
           Bal(a) == <<a, Balance>>
<1>0. /\ fs \in Seq(Frame) /\ n \in Nat /\ n > 0 /\ n \in 1 .. n
      /\ fs[n] \in Frame /\ from \in Address /\ to \in Address
      /\ Bal(from) \in Cell /\ Bal(to) \in Cell
  BY LenProperties, ElementOfSeq, FrameFacts DEF Sound, Cell
<1>1. CASE amount = 0
  <2>1. Transferred(fs, amount) = fs
    BY <1>1 DEF Transferred
  <2>2. SameCalls(fs, fs)
    BY DEF SameCalls, SameCall
  <2>3. QED
    BY <1>0, <1>1, <2>1, <2>2 DEF AfterMove, Covered
<1>2. CASE amount # 0
  <2>1. /\ Transferred(fs, amount) = done
        /\ ~fs[n].isStatic
        /\ BalanceIn(r2, from) >= amount
    BY <1>2 DEF Transferred, CanTransfer, Credited, PayAccount, DeductAccount, CanDeduct
  <2>2. /\ Sound(r) /\ SameCalls(r, fs) /\ SameViews(r, fs)
        /\ Has(r[Len(r)], Bal(to))
        /\ BalanceIn(r, to) = Lookup(fs, n, Bal(to))
        /\ BalanceIn(r, to) \in Word
    BY <1>0, AccountRead
  <2>3. Len(r) = n /\ ~r[n].isStatic
    BY <1>0, <2>1, <2>2 DEF SameCalls, SameCall
  <2> DEFINE u == AddWord(BalanceIn(r, to), amount)
  <2>4. u \in Word
    BY <2>2, AddWordInWord
  <2> HIDE DEF r, u
  <2>5. /\ Sound(Put(r, Bal(to), u)) /\ SameCalls(Put(r, Bal(to), u), r)
        /\ \A i \in 0 .. n : \A c \in Cell :
             Lookup(Put(r, Bal(to), u), i, c) =
               IF i = n /\ c = Bal(to) THEN u ELSE Lookup(r, i, c)
    <3>1. r \in Seq(Frame)
      BY <2>2 DEF Sound
    <3>2. SameCalls(Put(r, Bal(to), u), r)
      BY <1>0, <2>3, <2>4, <3>1, PutIs
    <3>3. QED
      BY SMTT(30), <1>0, <2>2, <2>3, <2>4, <3>2, PutIsSound, PutViews
  <2>6. paid = Put(r, Bal(to), u)
    BY DEF u
  <2> HIDE DEF paid
  <2>7. /\ Sound(paid) /\ SameCalls(paid, fs) /\ Len(paid) = n /\ ~paid[n].isStatic
        /\ \A i \in 0 .. n : \A c \in Cell :
             Lookup(paid, i, c) = IF i = n /\ c = Bal(to) THEN u ELSE Lookup(fs, i, c)
    <3>1. Len(paid) = n /\ Len(r) = n
      BY <2>3, <2>5, <2>6 DEF SameCalls, SameCall
    <3>2. SameCalls(paid, fs)
      BY <2>2, <2>5, <2>6, <3>1 DEF SameCalls, SameCall
    <3>3. \A i \in 0 .. n : \A c \in Cell : Lookup(r, i, c) = Lookup(fs, i, c)
      BY <2>2, <3>1 DEF SameViews
    <3>4. ~paid[n].isStatic
      BY <1>0, <2>1, <3>1, <3>2 DEF SameCalls, SameCall
    <3>5. QED
      BY <2>5, <2>6, <3>1, <3>2, <3>3, <3>4
  <2>8. /\ Sound(r2) /\ SameCalls(r2, paid) /\ SameViews(r2, paid)
        /\ Has(r2[Len(r2)], Bal(from))
        /\ BalanceIn(r2, from) = Lookup(paid, n, Bal(from))
        /\ BalanceIn(r2, from) \in Word
    BY <1>0, <2>7, AccountRead
  <2> DEFINE v == BalanceIn(r2, from) - amount
  <2>9. v \in Word
    BY <2>1, <2>8 DEF Word, ConstantsAssumption
  <2>10. Len(r2) = n /\ ~r2[n].isStatic /\ r2 \in Seq(Frame)
    <3>1. Len(r2) = n
      BY <2>7, <2>8 DEF SameCalls, SameCall
    <3>2. QED
      BY <1>0, <2>7, <2>8, <3>1 DEF SameCalls, SameCall, Sound
  <2> HIDE DEF r2
  <2>11. done = Put(r2, Bal(from), v)
    OBVIOUS
  <2> HIDE DEF v, done
  <2>12. /\ Sound(done) /\ SameCalls(done, r2)
         /\ \A i \in 0 .. n : \A c \in Cell :
              Lookup(done, i, c) = IF i = n /\ c = Bal(from) THEN v ELSE Lookup(r2, i, c)
    <3>1. SameCalls(done, r2)
      BY <1>0, <2>9, <2>10, <2>11, PutIs
    <3>2. Len(r2) > 0 /\ Has(r2[Len(r2)], Bal(from)) /\ ~r2[Len(r2)].isStatic
      BY <1>0, <2>8, <2>10
    <3>3. Sound(done)
      BY <1>0, <2>8, <2>9, <2>11, <3>2, PutIsSound
    <3>4. \A i \in 0 .. Len(r2) : \A c \in Cell :
            Lookup(done, i, c) = IF i = Len(r2) /\ c = Bal(from) THEN v ELSE Lookup(r2, i, c)
      BY SMTT(30), <1>0, <2>8, <2>9, <2>11, <3>2, PutViews
    <3>5. QED
      BY <2>10, <3>1, <3>3, <3>4
  <2>13. SameCalls(done, fs)
    <3>1. Len(done) = n /\ Len(r2) = n /\ Len(paid) = n
      BY <2>7, <2>10, <2>12 DEF SameCalls, SameCall
    <3>2. QED
      BY <2>7, <2>8, <2>12, <3>1 DEF SameCalls, SameCall
  <2>14. \A i \in 0 .. n : \A c \in Cell :
           Lookup(done, i, c) =
             IF i = n /\ c = Bal(from) THEN v
             ELSE IF i = n /\ c = Bal(to) THEN u ELSE Lookup(fs, i, c)
    <3>1. \A i \in 0 .. n : \A c \in Cell : Lookup(r2, i, c) = Lookup(paid, i, c)
      BY <2>8, <2>10 DEF SameViews
    <3>2. QED
      BY <2>7, <2>12, <3>1
  <2>15. \A i \in 0 .. n - 1 : \A c \in Cell : Lookup(done, i, c) = Lookup(fs, i, c)
    BY <1>0, <2>14
  <2> DEFINE x == Lookup(fs, n, Bal(from))
             y == Lookup(fs, n, Bal(to))
  <2>16. x \in Word /\ y \in Word
    BY <1>0, LookupInWord
  <2>17. u = AddWord(y, amount)
    BY <2>2 DEF u
  <2>18. v = Lookup(paid, n, Bal(from)) - amount
    BY <2>8 DEF v
  <2>19. CASE from = to
    <3>1. v = u - amount /\ u >= amount /\ x = y
      BY <1>0, <2>1, <2>7, <2>8, <2>18, <2>19
    <3>2. v = x
      <4> HIDE DEF x, y
      <4>1. QED
        BY <2>16, <2>17, <3>1 DEF AddWord, Word, ConstantsAssumption
    <3>3. \A c \in Cell : Lookup(done, n, c) = Lookup(fs, n, c)
      BY <1>0, <2>14, <2>19, <3>2
    <3>4. QED
      BY <2>1, <2>12, <2>13, <2>15, <2>19, <3>3 DEF AfterMove, Covered
  <2>20. CASE from # to
    <3>1. Bal(from) # Bal(to)
      BY <2>20
    <3>2. v = x - amount /\ x >= amount
      BY <1>0, <2>1, <2>7, <2>8, <2>18, <3>1
    <3>3. ASSUME NEW c \in Cell
          PROVE  Lookup(done, n, c) = AfterMove(fs, from, to, amount, c)
      <4>0. n \in 0 .. n
        BY <1>0
      <4>1. CASE c = Bal(from)
        <5>1. Lookup(done, n, c) = v
          BY <2>14, <4>0, <4>1
        <5>2. AfterMove(fs, from, to, amount, c) = x - amount
          BY <1>2, <2>20, <4>1 DEF AfterMove
        <5>3. QED
          BY <3>2, <5>1, <5>2
      <4>2. CASE c = Bal(to) /\ c # Bal(from)
        <5>1. Lookup(done, n, c) = u
          BY <2>14, <4>0, <4>2
        <5>2. AfterMove(fs, from, to, amount, c) = AddWord(y, amount)
          BY <1>2, <2>20, <4>2 DEF AfterMove
        <5>3. QED
          BY <2>17, <5>1, <5>2
      <4>3. CASE c # Bal(to) /\ c # Bal(from)
        <5>1. Lookup(done, n, c) = Lookup(fs, n, c)
          BY <2>14, <4>0, <4>3
        <5>2. AfterMove(fs, from, to, amount, c) = Lookup(fs, n, c)
          BY <1>2, <2>20, <4>3 DEF AfterMove
        <5>3. QED
          BY <5>1, <5>2
      <4>4. QED
        BY <4>1, <4>2, <4>3
    <3>4. QED
      BY <2>1, <2>12, <2>13, <2>15, <3>2, <3>3 DEF Covered
  <2>21. QED
    BY <2>19, <2>20
<1>3. QED
  BY <1>1, <1>2

\* A refused transfer only leaves copies in the contexts below.
LEMMA RefusedIs ==
  ASSUME chain \in World, ConstantsAssumption,
         NEW fs, Sound(fs), Len(fs) > 0, NEW amount
  PROVE  LET n == Len(fs)
             left == Refused(fs, amount)
         IN  /\ Sound(left)
             /\ Len(left) = n - 1
             /\ \A i \in 1 .. n - 1 : SameCall(left[i], fs[i])
             /\ \A i \in 0 .. n - 1 : \A c \in Cell : Lookup(left, i, c) = Lookup(fs, i, c)
<1> DEFINE n == Len(fs)
           r == GetAccountInfo(fs, fs[n].address)
           r2 == GetAccountInfo(r, fs[n].caller)
           read == IF fs[n].isStatic THEN fs ELSE r2
           left == SubSeq(read, 1, n - 1)
<1>0. /\ fs \in Seq(Frame) /\ n \in Nat /\ n > 0
      /\ fs[n].address \in Address /\ fs[n].caller \in Address
  BY LenProperties, ElementOfSeq, FrameFacts DEF Sound
<1>1. Refused(fs, amount) = left
  BY DEF Refused
<1>2. Sound(r) /\ SameCalls(r, fs) /\ SameViews(r, fs)
  BY <1>0, AccountRead
<1>3. Len(r) = n
  BY <1>2 DEF SameCalls, SameCall
<1> HIDE DEF r
<1>4. Sound(r2) /\ SameCalls(r2, r) /\ SameViews(r2, r)
  BY <1>0, <1>2, <1>3, AccountRead
<1>5. Len(r2) = n
  BY <1>3, <1>4 DEF SameCalls, SameCall
<1> HIDE DEF r2
<1>6. /\ Sound(read) /\ Len(read) = n
      /\ \A i \in 1 .. n : SameCall(read[i], fs[i])
      /\ \A i \in 0 .. n : \A c \in Cell : Lookup(read, i, c) = Lookup(fs, i, c)
  <2>1. \A i \in 1 .. n : SameCall(r2[i], fs[i])
    BY <1>2, <1>3, <1>4, <1>5 DEF SameCalls, SameCall
  <2>2. \A i \in 0 .. n : \A c \in Cell : Lookup(r2, i, c) = Lookup(fs, i, c)
    BY <1>2, <1>3, <1>4, <1>5 DEF SameViews
  <2>3. CASE fs[n].isStatic
    BY <2>3 DEF SameCall
  <2>4. CASE ~fs[n].isStatic
    BY <1>4, <1>5, <2>1, <2>2, <2>4
  <2>5. QED
    BY <2>3, <2>4
<1> HIDE DEF read
<1>7. read \in Seq(Frame)
  BY <1>6 DEF Sound
<1>8. /\ Sound(left)
      /\ Len(left) = n - 1
      /\ \A i \in 1 .. n - 1 : left[i] = read[i]
  BY <1>0, <1>6, <1>7, PopIs, PopIsSound
<1>9. \A i \in 0 .. n - 1 : \A c \in Cell : Lookup(left, i, c) = Lookup(read, i, c)
  BY <1>0, <1>6, PopViews
<1> HIDE DEF left, n
<1>10. /\ \A i \in 1 .. n - 1 : i \in 1 .. n
       /\ \A i \in 0 .. n - 1 : i \in 0 .. n
  BY <1>0
<1>11. \A i \in 1 .. n - 1 : SameCall(left[i], fs[i])
  BY <1>6, <1>8, <1>10
<1>12. \A i \in 0 .. n - 1 : \A c \in Cell : Lookup(left, i, c) = Lookup(fs, i, c)
  BY <1>6, <1>9, <1>10
<1>13. QED
  BY <1>1, <1>8, <1>11, <1>12 DEF n

-----------------------------------------------------------------------------
(* The invariant *)

LEMMA NewFrameIs ==
  ASSUME ConstantsAssumption,
         NEW kind \in CallKinds \cup {"transaction"},
         NEW caller \in Address, NEW address \in Address, NEW isStatic \in BOOLEAN
  PROVE  LET f == NewFrame(kind, caller, address, isStatic)
         IN  /\ f \in Frame
             /\ f.kind = kind /\ f.caller = caller /\ f.address = address
             /\ f.isStatic = isStatic
             /\ \A c \in Cell : ~Has(f, c)
BY DEF NewFrame, Frame, Overlay, Transient, Has

LEMMA EmptyStackIsSound == Sound(<<>>)
<1>1. <<>> \in Seq(Frame) /\ Len(<<>>) = 0
  BY EmptySeq
<1>2. Nests(<<>>)
  BY <1>1 DEF Nests, HeldUpTo
<1>3. QED
  BY <1>1, <1>2 DEF Sound, OnlyCaches, Inherits, Rooted

LEMMA OpenedIs ==
  ASSUME ConstantsAssumption, NEW from \in Address, NEW to \in Address
  PROVE  LET fs == Opened(from, to)
         IN  /\ Sound(fs) /\ Len(fs) = 1
             /\ fs[1].caller = from /\ fs[1].address = to /\ ~fs[1].isStatic
             /\ \A i \in 0 .. 1 : \A c \in Cell : Lookup(fs, i, c) = chain[c]
<1> DEFINE f == NewFrame("transaction", from, to, FALSE)
<1>1. /\ f \in Frame
      /\ f.kind = "transaction" /\ f.caller = from /\ f.address = to /\ ~f.isStatic
      /\ \A c \in Cell : ~Has(f, c)
  BY DEF NewFrame, Frame, Overlay, Transient, Has
<1> HIDE DEF f
<1> DEFINE none == <<>>
<1>2. Opened(from, to) = Append(none, f)
  BY <1>1, EmptySeq DEF Opened, f
<1>3. Len(none) = 0 /\ none \in Seq(Frame) /\ Sound(none)
  BY EmptySeq, EmptyStackIsSound
<1> HIDE DEF none
<1>4. Sound(Append(none, f))
  <2>1. /\ Len(none) > 0 => (none[Len(none)].isStatic \/ f.kind = "staticcall" => f.isStatic)
        /\ Len(none) = 0 => ~f.isStatic /\ f.kind # "staticcall"
    BY <1>1, <1>3
  <2>2. QED
    BY <1>1, <1>3, <2>1, PushIsSound
<1>5. Len(Append(none, f)) = 1 /\ Append(none, f)[1] = f
  BY <1>1, <1>3
<1>6. ASSUME NEW c \in Cell
      PROVE  Lookup(none, 0, c) = chain[c]
  BY <1>3, LookupChain
<1>7. \A i \in 0 .. 1 : \A c \in Cell : Lookup(Append(none, f), i, c) = chain[c]
  <2> SUFFICES ASSUME NEW i \in 0 .. 1, NEW c \in Cell
               PROVE  Lookup(Append(none, f), i, c) = chain[c]
    OBVIOUS
  <2>1. i \in 0 .. Len(none) + 1 /\ (i # 1 => i = 0)
    BY <1>3
  <2>2. CASE i = 1
    <3>1. i \in 0 .. Len(none) + 1 /\ i = Len(none) + 1
      BY <1>3, <2>2
    <3>2. Lookup(Append(none, f), i, c) = Lookup(none, Len(none), c)
      BY <1>1, <1>3, <3>1, PushViews
    <3>3. QED
      BY <1>3, <1>6, <3>2
  <2>3. CASE i = 0
    BY <1>4, <2>3, LookupChain
  <2>4. QED
    BY <2>2, <2>3
<1>8. QED
  BY <1>1, <1>2, <1>4, <1>5, <1>7

LEMMA WithChildIs ==
  ASSUME ConstantsAssumption, Inv, NEW kind \in CallKinds, NEW target \in Address, Depth > 0
  PROVE  LET fs == WithChild(kind, target)
             child == Child(kind, target)
         IN  /\ Sound(fs) /\ Len(fs) = Depth + 1
             /\ fs[Depth + 1] = child
             /\ \A i \in 1 .. Depth : fs[i] = frames[i]
             /\ child.kind = kind
             /\ child.isStatic <=> Top.isStatic \/ kind = "staticcall"
             /\ child.address = IF kind = "delegatecall" THEN Top.address ELSE target
             /\ child.caller = IF kind = "delegatecall" THEN Top.caller ELSE Top.address
             /\ \A i \in 0 .. Depth : \A c \in Cell : Lookup(fs, i, c) = Lookup(frames, i, c)
             /\ \A c \in Cell : Lookup(fs, Depth + 1, c) = Lookup(frames, Depth, c)
<1> DEFINE child == Child(kind, target)
<1>1. /\ Sound(frames) /\ frames \in Seq(Frame) /\ Depth \in Nat
      /\ Top \in Frame /\ Top.address \in Address /\ Top.caller \in Address
      /\ Top.isStatic \in BOOLEAN
  BY LenProperties, ElementOfSeq, FrameFacts DEF Inv, Sound, Top, Depth
<1>2. /\ child \in Frame
      /\ child.kind = kind
      /\ child.isStatic <=> Top.isStatic \/ kind = "staticcall"
      /\ child.address = IF kind = "delegatecall" THEN Top.address ELSE target
      /\ child.caller = IF kind = "delegatecall" THEN Top.caller ELSE Top.address
      /\ \A c \in Cell : ~Has(child, c)
  <2>1. CASE kind = "delegatecall"
    BY <1>1, <2>1, NewFrameIs DEF Child
  <2>2. CASE kind # "delegatecall"
    <3> DEFINE static == Top.isStatic \/ kind = "staticcall"
    <3>1. child = NewFrame(kind, Top.address, target, static) /\ static \in BOOLEAN
      BY <2>2 DEF Child
    <3>2. static <=> Top.isStatic \/ kind = "staticcall"
      OBVIOUS
    <3> HIDE DEF static
    <3>3. QED
      BY <1>1, <2>2, <3>1, <3>2, NewFrameIs
  <2>3. QED
    BY <2>1, <2>2
<1> HIDE DEF child
<1>3. WithChild(kind, target) = Append(frames, child)
  BY DEF WithChild, child
<1>4. Sound(Append(frames, child))
  <2>1. frames[Len(frames)].isStatic \/ child.kind = "staticcall" => child.isStatic
    BY <1>2 DEF Top, Depth
  <2>2. QED
    BY <1>1, <1>2, <2>1, PushIsSound DEF Depth
<1>5. /\ Len(Append(frames, child)) = Depth + 1
      /\ Append(frames, child)[Depth + 1] = child
      /\ \A i \in 1 .. Depth : Append(frames, child)[i] = frames[i]
  BY <1>1, <1>2 DEF Depth
<1>6. /\ \A i \in 0 .. Depth : \A c \in Cell :
           Lookup(Append(frames, child), i, c) = Lookup(frames, i, c)
      /\ \A c \in Cell : Lookup(Append(frames, child), Depth + 1, c) = Lookup(frames, Depth, c)
  BY <1>1, <1>2, PushViews DEF Depth
<1>7. QED
  BY <1>2, <1>3, <1>4, <1>5, <1>6 DEF child

LEMMA DepthFacts ==
  ASSUME Inv
  PROVE  /\ Depth \in Nat /\ frames \in Seq(Frame) /\ Sound(frames) /\ chain \in World
         /\ Depth = Len(frames)
         /\ Depth > 0 => /\ mode \in {"simulate", "execute"}
                         /\ Top = frames[Len(frames)]
                         /\ Top \in Frame
                         /\ Top.address \in Address /\ Top.isStatic \in BOOLEAN
BY LenProperties, EmptySeq, ElementOfSeq, FrameFacts DEF Inv, TypeOK, Sound, Depth, Top

LEMMA StepKeepsInv ==
  ASSUME Inv, Depth > 0, NEW fs, Sound(fs), Len(fs) > 0, Step(fs)
  PROVE  Inv'
<1>1. mode # "idle" /\ fs # <<>>
  BY DepthFacts, EmptySeq
<1>2. fs \in Seq(Frame)
  BY DEF Sound
<1>3. TypeOK'
  BY <1>1, <1>2 DEF Inv, TypeOK, Step
<1>4. QED
  BY <1>3 DEF Inv, Step

LEMMA InitInv == ASSUME Init PROVE Inv
BY ConstantsAssumption, EmptySeq, EmptyStackIsSound DEF Init, Inv, TypeOK, ConstantsAssumption

LEMMA TransactionKeepsInv == ASSUME Inv, Transaction PROVE Inv'
<1>0. ConstantsAssumption /\ chain \in World
  BY ConstantsAssumption DEF Inv, TypeOK
<1>1. PICK from \in Sender, to \in Address, amount \in Amounts :
        \/ \E m \in {"simulate", "execute"} :
             Begin(m, from, to, amount) \/ TransferToAccount(m, from, to, amount)
        \/ InsufficientEth(from, to, amount)
  BY DEF Transaction
<1>2. from \in Address /\ amount \in Word
  BY <1>0 DEF ConstantsAssumption
<1>3. Sound(Opened(from, to)) /\ Len(Opened(from, to)) = 1
  BY <1>0, <1>2, OpenedIs
<1>4. Started(from) => sender' \in Address /\ transactions' \in 0 .. MaxTransactions /\ mode = "idle"
  BY <1>0, <1>2 DEF Started, Inv, TypeOK, ConstantsAssumption
<1> DEFINE fs == Transferred(Opened(from, to), amount)
<1>5. ASSUME CanTransfer(Opened(from, to), amount)
      PROVE  Sound(fs) /\ Len(fs) = 1 /\ fs \in Seq(Frame)
  <2>1. Sound(fs) /\ SameCalls(fs, Opened(from, to))
    BY <1>0, <1>2, <1>3, <1>5, TransferredIs
  <2>2. QED
    BY <1>3, <2>1 DEF SameCalls, SameCall, Sound
<1> HIDE DEF fs
<1>6. ASSUME NEW m \in {"simulate", "execute"}, Begin(m, from, to, amount)
      PROVE  Inv'
  <2>1. Sound(fs) /\ Len(fs) = 1 /\ fs \in Seq(Frame) /\ frames' = fs /\ mode' = m
    BY <1>5, <1>6 DEF Begin, fs
  <2>2. fs # <<>>
    <3>1. Len(fs) # 0
      BY <2>1
    <3>2. QED
      BY <2>1, <3>1, EmptySeq
  <2>3. TypeOK'
    BY <1>0, <1>4, <1>6, <2>1, <2>2 DEF Begin, TypeOK
  <2>4. QED
    BY <2>1, <2>3 DEF Inv
<1>7. ASSUME NEW m \in {"simulate", "execute"}, TransferToAccount(m, from, to, amount)
      PROVE  Inv'
  <2>1. fs[1] \in Frame
    BY <1>5, <1>7, ElementOfSeq DEF TransferToAccount
  <2>2. WriteToChain(fs[1]) \in World
    BY <1>0, <2>1, FrameFacts DEF WriteToChain, World
  <2>3. chain' \in World
    BY <1>0, <1>7, <2>2 DEF TransferToAccount, fs
  <2>4. QED
    BY <1>4, <1>7, <2>3 DEF TransferToAccount, Inv, TypeOK
<1>8. ASSUME InsufficientEth(from, to, amount)
      PROVE  Inv'
  BY <1>0, <1>4, <1>8 DEF InsufficientEth, Inv, TypeOK
<1>9. QED
  BY <1>1, <1>6, <1>7, <1>8

LEMMA SlotValueIs ==
  ASSUME Inv, Depth > 0, NEW cell \in Cell, NEW v \in SlotValues(frames, cell)
  PROVE  /\ v \in Word
         /\ Holder(frames, Len(frames), cell) = 0 \/ v = Lookup(frames, Len(frames), cell)
         /\ ~ProviderMayFail => v = Lookup(frames, Len(frames), cell)
<1>1. 0 \in Word
  BY ConstantsAssumption DEF ConstantsAssumption, Word
<1>2. Lookup(frames, Len(frames), cell) \in Word
  BY DepthFacts, LookupInWord
<1>3. QED
  BY <1>1, <1>2 DEF SlotValues

\* A change of transient storage leaves everything the invariant speaks of.
LEMMA TransientKeepsSound ==
  ASSUME NEW fs, Sound(fs), NEW gs \in Seq(Frame), Len(gs) = Len(fs),
         \A i \in 1 .. Len(fs) : /\ gs[i].kind = fs[i].kind
                                 /\ gs[i].isStatic = fs[i].isStatic
                                 /\ gs[i].overlay = fs[i].overlay
  PROVE  Sound(gs)
<1>0. Len(fs) \in Nat
  BY LenProperties DEF Sound
<1>1. \A i \in 1 .. Len(fs) : \A c \in Cell : Has(gs[i], c) <=> Has(fs[i], c)
  BY DEF Has
<1>2. Nests(gs)
  BY <1>1 DEF Sound, Nests, HeldUpTo
<1>3. OnlyCaches(gs)
  <2> SUFFICES ASSUME NEW i \in 2 .. Len(fs), gs[i].isStatic,
                      NEW c \in Cell, Has(gs[i], c)
               PROVE  gs[i].overlay[c] = gs[i - 1].overlay[c]
    BY DEF OnlyCaches
  <2>1. i \in 1 .. Len(fs) /\ i - 1 \in 1 .. Len(fs)
    BY <1>0
  <2>2. QED
    BY <1>1, <2>1 DEF Sound, OnlyCaches
<1>4. Inherits(gs)
  BY <1>0 DEF Sound, Inherits
<1>5. Rooted(gs)
  BY <1>0 DEF Sound, Rooted
<1>6. QED
  BY <1>2, <1>3, <1>4, <1>5 DEF Sound

-----------------------------------------------------------------------------
(* Transient storage *)

\* Everything under a static context is static.
LEMMA StaticBelowStatic ==
  ASSUME NEW fs \in Seq(Frame), Inherits(fs),
         NEW i \in 1 .. Len(fs), NEW j \in 1 .. i, fs[j].isStatic
  PROVE  fs[i].isStatic
<1> SUFFICES ASSUME ~fs[i].isStatic
             PROVE  FALSE
  OBVIOUS
<1> DEFINE T == {k \in j .. i : ~fs[k].isStatic}
<1>1. T \in SUBSET Nat /\ T # {}
  <2>1. i \in T
    OBVIOUS
  <2>2. QED
    BY <2>1
<1>2. PICK m \in T : \A k \in T : m <= k
  <2> HIDE DEF T
  <2>1. QED
    BY <1>1, LeastElement
<1>3. m \in 2 .. Len(fs) /\ m - 1 \in j .. i /\ m - 1 \notin T
  BY <1>2
<1>4. fs[m - 1].isStatic
  BY <1>3
<1>5. QED
  BY <1>2, <1>3, <1>4 DEF Inherits

\* The search of tload ends at a context that has an entry, or at none.
LEMMA TransientHolderIs ==
  ASSUME Inv, NEW i \in 0 .. Depth, NEW k \in TransientKey
  PROVE  /\ TransientHolder(i, k) \in 0 .. i
         /\ TransientValue(i, k) \in Word
<1> DEFINE Hit(j) == j > 0 => frames[j].transient[<<frames[j].address, k>>] # Absent
           S == {j \in 0 .. i : Hit(j)}
<1>1. i \in Nat /\ i <= Depth /\ Depth \in Nat
  BY DepthFacts
<1>2. PICK h \in S : \A j \in S : j <= h
  <2>1. 0 \in S
    BY <1>1
  <2>2. S \in SUBSET (0 .. i) /\ S # {}
    BY <2>1
  <2> HIDE DEF S
  <2>3. QED
    BY <1>1, <2>2, GreatestElement
<1>3. h \in 0 .. i /\ Hit(h)
  OBVIOUS
<1>4. \A j \in (h + 1) .. i : frames[j].transient[<<frames[j].address, k>>] = Absent
  <2> SUFFICES ASSUME NEW j \in (h + 1) .. i,
                      frames[j].transient[<<frames[j].address, k>>] # Absent
               PROVE  FALSE
    OBVIOUS
  <2>1. j \in 0 .. i /\ j > h
    BY <1>1, <1>3
  <2>2. j \in S
    BY <2>1
  <2>3. QED
    BY <1>2, <1>3, <2>1, <2>2
<1> DEFINE c == TransientHolder(i, k)
<1>5. c \in 0 .. i /\ Hit(c)
  BY <1>3, <1>4 DEF TransientHolder
<1>6. TransientValue(i, k) \in Word
  <2>1. CASE c = 0
    BY <2>1, ConstantsAssumption DEF TransientValue, ConstantsAssumption, Word
  <2>2. CASE c # 0
    <3>1. c \in 1 .. Len(frames) /\ c > 0
      BY <1>1, <1>5, <2>2, DepthFacts
    <3> HIDE DEF c
    <3>2. frames[c] \in Frame
      BY <3>1, DepthFacts, ElementOfSeq
    <3>3. <<frames[c].address, k>> \in Address \X TransientKey
      BY <3>2, FrameFacts
    <3>4. frames[c].transient[<<frames[c].address, k>>] \in Word \cup {Absent}
      BY <3>2, <3>3, FrameFacts DEF Transient
    <3>5. QED
      BY <1>5, <2>2, <3>1, <3>4 DEF TransientValue, c
  <2>3. QED
    BY <2>1, <2>2
<1>7. QED
  BY <1>5, <1>6

-----------------------------------------------------------------------------
(* Every action keeps the invariant. *)

LEMMA OwnCell ==
  ASSUME Inv, Depth > 0, NEW k \in Key
  PROVE  <<Top.address, k>> \in Cell
BY DepthFacts DEF Cell

LEMMA SLoadKeepsInv == ASSUME Inv, NEW k \in Key, SLoad(k) PROVE Inv'
<1> DEFINE cell == <<Top.address, k>>
<1>1. Depth > 0 /\ cell \in Cell
  BY OwnCell DEF SLoad
<1>2. PICK v \in SlotValues(frames, cell) : Step(ReadThrough(frames, cell, v))
  BY DEF SLoad
<1> HIDE DEF cell
<1> DEFINE read == ReadThrough(frames, cell, v)
<1>3. Sound(read) /\ Len(read) > 0
  <2>1. /\ v \in Word
        /\ Holder(frames, Len(frames), cell) = 0 \/ v = Lookup(frames, Len(frames), cell)
    BY <1>1, SlotValueIs
  <2>2. Sound(read) /\ SameCalls(read, frames)
    BY <1>1, <2>1, DepthFacts, ConstantsAssumption, ReadIsSound
  <2>3. QED
    BY <1>1, <2>2, DepthFacts DEF SameCalls, SameCall
<1> HIDE DEF read
<1>4. Step(read)
  BY <1>2 DEF read
<1>5. QED
  BY <1>1, <1>3, <1>4, StepKeepsInv

LEMMA SStoreKeepsInv ==
  ASSUME Inv, NEW k \in Key, NEW value \in StoredValues, SStore(k, value)
  PROVE  Inv'
<1> DEFINE cell == <<Top.address, k>>
<1>1. Depth > 0 /\ cell \in Cell /\ ~Top.isStatic /\ value \in Word
  BY OwnCell, ConstantsAssumption DEF SStore, ConstantsAssumption
<1>2. PICK v \in SlotValues(frames, cell) : Step(Put(ReadThrough(frames, cell, v), cell, value))
  BY DEF SStore
<1> HIDE DEF cell
<1> DEFINE read == ReadThrough(frames, cell, v)
<1>3. /\ Sound(read) /\ Len(read) = Depth
      /\ Has(read[Len(read)], cell)
      /\ ~read[Len(read)].isStatic
  <2>1. /\ v \in Word
        /\ Holder(frames, Len(frames), cell) = 0 \/ v = Lookup(frames, Len(frames), cell)
    BY <1>1, SlotValueIs
  <2>2. Sound(read) /\ SameCalls(read, frames) /\ Has(read[Len(frames)], cell)
    BY <1>1, <2>1, DepthFacts, ConstantsAssumption, ReadIsSound
  <2>3. Depth \in 1 .. Len(frames)
    BY <1>1, DepthFacts
  <2>4. QED
    BY <1>1, <2>2, <2>3, DepthFacts DEF SameCalls, SameCall
<1> HIDE DEF read
<1> DEFINE put == Put(read, cell, value)
<1>4. Sound(put) /\ Len(put) = Depth
  <2>1. Sound(put)
    BY <1>1, <1>3, ConstantsAssumption, PutIsSound
  <2>2. SameCalls(put, read)
    BY <1>1, <1>3, PutIs DEF Sound
  <2>3. QED
    BY <1>3, <2>1, <2>2 DEF SameCalls, SameCall
<1> HIDE DEF put
<1>5. Step(put)
  BY <1>2 DEF put, read
<1>6. QED
  BY <1>1, <1>4, <1>5, StepKeepsInv

LEMMA BalanceOfKeepsInv == ASSUME Inv, NEW a \in Queried, BalanceOf(a) PROVE Inv'
<1>1. Depth > 0 /\ Step(GetAccountInfo(frames, a)) /\ a \in Address
  BY ConstantsAssumption DEF BalanceOf, ConstantsAssumption
<1> DEFINE read == GetAccountInfo(frames, a)
<1>2. Sound(read) /\ SameCalls(read, frames)
  BY <1>1, DepthFacts, ConstantsAssumption, AccountRead
<1>3. Len(read) > 0
  BY <1>1, <1>2, DepthFacts DEF SameCalls, SameCall
<1>4. QED
  BY <1>1, <1>2, <1>3, StepKeepsInv

\* A new entry in a context's transient map keeps the type of the context.
LEMMA EnterTransient ==
  ASSUME NEW f \in Frame, NEW k \in TransientKey, NEW v \in Word
  PROVE  LET g == [f EXCEPT !.transient[<<f.address, k>>] = v]
         IN  g \in Frame /\ g.kind = f.kind /\ g.isStatic = f.isStatic /\ g.overlay = f.overlay
             /\ g.address = f.address
<1> DEFINE slot == <<f.address, k>>
<1>1. slot \in Address \X TransientKey /\ f.transient \in Transient
  BY FrameFacts
<1> HIDE DEF slot
<1>2. [f.transient EXCEPT ![slot] = v] \in Transient
  BY <1>1 DEF Transient
<1>3. [f EXCEPT !.transient[slot] = v] = [f EXCEPT !.transient = [f.transient EXCEPT ![slot] = v]]
  BY DEF Frame
<1> DEFINE new == [f.transient EXCEPT ![slot] = v]
<1> HIDE DEF new
<1>4. LET g == [f EXCEPT !.transient = new]
      IN  g \in Frame /\ g.kind = f.kind /\ g.isStatic = f.isStatic /\ g.overlay = f.overlay
          /\ g.address = f.address
  BY <1>2 DEF Frame, new
<1>5. QED
  BY <1>3, <1>4 DEF slot, new

LEMMA TLoadKeepsInv == ASSUME Inv, NEW k \in TransientKey, TLoad(k) PROVE Inv'
<1> DEFINE v == TransientValue(Depth, k)
           h == TransientHolder(Depth, k)
           Kept(i) == [frames[i] EXCEPT !.transient[<<frames[i].address, k>>] = v]
           fs == [i \in 1 .. Depth |-> IF i > 1 /\ i > h THEN Kept(i) ELSE frames[i]]
<1>1. Depth > 0 /\ Step(fs)
  BY DEF TLoad
<1>2. v \in Word
  BY <1>1, DepthFacts, TransientHolderIs
<1> HIDE DEF v, h
<1>3. \A i \in 1 .. Depth : /\ fs[i] \in Frame
                            /\ fs[i].kind = frames[i].kind
                            /\ fs[i].isStatic = frames[i].isStatic
                            /\ fs[i].overlay = frames[i].overlay
  <2> SUFFICES ASSUME NEW i \in 1 .. Depth
               PROVE  /\ fs[i] \in Frame
                      /\ fs[i].kind = frames[i].kind
                      /\ fs[i].isStatic = frames[i].isStatic
                      /\ fs[i].overlay = frames[i].overlay
    OBVIOUS
  <2>1. frames[i] \in Frame
    BY DepthFacts, ElementOfSeq
  <2>2. /\ Kept(i) \in Frame
        /\ Kept(i).kind = frames[i].kind
        /\ Kept(i).isStatic = frames[i].isStatic
        /\ Kept(i).overlay = frames[i].overlay
    BY <1>2, <2>1, EnterTransient
  <2> HIDE DEF Kept
  <2>3. fs[i] = Kept(i) \/ fs[i] = frames[i]
    OBVIOUS
  <2>4. QED
    BY <2>1, <2>2, <2>3
<1>4. fs \in Seq(Frame) /\ Len(fs) = Depth
  <2>1. DOMAIN fs = 1 .. Depth /\ Depth \in Nat
    BY DepthFacts
  <2>2. fs = [i \in 1 .. Depth |-> fs[i]]
    OBVIOUS
  <2> HIDE DEF fs
  <2>3. QED
    BY <1>3, <2>1, <2>2, IsASeq, LenProperties
<1> HIDE DEF fs
<1>5. Sound(fs)
  BY <1>3, <1>4, DepthFacts, TransientKeepsSound
<1>6. QED
  BY <1>1, <1>4, <1>5, StepKeepsInv

LEMMA TStoreKeepsInv ==
  ASSUME Inv, NEW k \in TransientKey, NEW value \in StoredValues, TStore(k, value)
  PROVE  Inv'
<1> DEFINE g == [Top EXCEPT !.transient[<<Top.address, k>>] = value]
           fs == [frames EXCEPT ![Depth] = g]
<1>1. Depth > 0 /\ value \in Word /\ Top \in Frame /\ Top = frames[Len(frames)]
  BY DepthFacts, ConstantsAssumption DEF TStore, ConstantsAssumption
<1>2. Step(fs)
  BY DEF TStore, Top
<1>3. g \in Frame /\ g.kind = Top.kind /\ g.isStatic = Top.isStatic /\ g.overlay = Top.overlay
  BY <1>1, EnterTransient
<1> HIDE DEF g
<1>4. Depth \in 1 .. Len(frames) /\ frames \in Seq(Frame) /\ Depth = Len(frames)
  BY <1>1, DepthFacts
<1>5. /\ fs \in Seq(Frame) /\ Len(fs) = Len(frames)
      /\ \A i \in 1 .. Len(frames) : fs[i] = IF i = Depth THEN g ELSE frames[i]
  BY <1>3, <1>4, ExceptSeq
<1> HIDE DEF fs
<1>6. \A i \in 1 .. Len(frames) : /\ fs[i].kind = frames[i].kind
                                  /\ fs[i].isStatic = frames[i].isStatic
                                  /\ fs[i].overlay = frames[i].overlay
  BY <1>1, <1>3, <1>4, <1>5
<1>7. Sound(fs)
  BY <1>5, <1>6, DepthFacts, TransientKeepsSound
<1>8. QED
  BY <1>1, <1>2, <1>4, <1>5, <1>7, StepKeepsInv

LEMMA CallKeepsInv ==
  ASSUME Inv, NEW kind \in CallKinds, NEW target \in Address, NEW amount \in Amounts,
         \/ Call(kind, target, amount)
         \/ CallAccount(kind, target, amount)
         \/ CallRefused(kind, target, amount)
  PROVE  Inv'
<1> DEFINE fs == WithChild(kind, target)
<1>1. Depth > 0 /\ amount \in Word /\ chain \in World /\ Depth \in Nat
  BY DepthFacts, ConstantsAssumption
     DEF Call, CallAccount, CallRefused, Callable, ConstantsAssumption
<1>2. Sound(fs) /\ Len(fs) = Depth + 1
  BY <1>1, ConstantsAssumption, WithChildIs
<1> HIDE DEF fs
<1>3. ASSUME CanTransfer(fs, amount)
      PROVE  Sound(Transferred(fs, amount)) /\ Len(Transferred(fs, amount)) = Depth + 1
  <2>1. Sound(Transferred(fs, amount)) /\ SameCalls(Transferred(fs, amount), fs)
    BY <1>1, <1>2, <1>3, ConstantsAssumption, TransferredIs
  <2>2. QED
    BY <1>2, <2>1 DEF SameCalls, SameCall
<1>4. CASE Call(kind, target, amount)
  <2>1. Step(Transferred(fs, amount)) /\ CanTransfer(fs, amount)
    BY <1>4 DEF Call, fs
  <2>2. QED
    BY <1>1, <1>3, <2>1, StepKeepsInv
<1>5. CASE CallAccount(kind, target, amount)
  <2> DEFINE t == Transferred(fs, amount)
  <2>1. Step(Succeeded(t)) /\ CanTransfer(fs, amount)
    BY <1>5 DEF CallAccount, fs
  <2>2. Sound(t) /\ Len(t) = Depth + 1
    BY <1>3, <2>1
  <2> HIDE DEF t
  <2>3. Sound(Succeeded(t)) /\ Len(Succeeded(t)) = Depth
    BY <1>1, <2>2, SucceededIsSound, SucceededIs DEF Sound
  <2>4. QED
    BY <1>1, <2>1, <2>3, StepKeepsInv
<1>6. CASE CallRefused(kind, target, amount)
  <2>1. Step(Refused(fs, amount))
    BY <1>6 DEF CallRefused, fs
  <2>2. Sound(Refused(fs, amount)) /\ Len(Refused(fs, amount)) = Depth
    BY <1>1, <1>2, ConstantsAssumption, RefusedIs
  <2>3. QED
    BY <1>1, <2>1, <2>2, StepKeepsInv
<1>7. QED
  BY <1>4, <1>5, <1>6

LEMMA ReturnKeepsInv == ASSUME Inv, Return PROVE Inv'
<1>1. Depth > 1 /\ Depth \in Nat /\ Depth = Len(frames) /\ Sound(frames) /\ Step(Succeeded(frames))
  BY DepthFacts DEF Return
<1>2. Sound(Succeeded(frames)) /\ Len(Succeeded(frames)) = Depth - 1
  BY <1>1, SucceededIsSound, SucceededIs DEF Sound
<1>3. QED
  BY <1>1, <1>2, StepKeepsInv

LEMMA FailKeepsInv == ASSUME Inv, Fail PROVE Inv'
<1>1. Depth > 1 /\ Depth \in Nat /\ Depth = Len(frames) /\ Sound(frames) /\ Step(Below)
  BY DepthFacts DEF Fail
<1>2. Sound(Below) /\ Len(Below) = Depth - 1
  BY <1>1, PopIsSound, PopIs DEF Sound, Below
<1>3. QED
  BY <1>1, <1>2, StepKeepsInv

LEMMA FinishKeepsInv == ASSUME Inv, NEW success \in BOOLEAN, Finish(success) PROVE Inv'
<1>1. Depth = 1 /\ Top \in Frame /\ chain \in World
  BY DepthFacts DEF Finish
<1>2. WriteToChain(Top) \in World
  BY <1>1, FrameFacts DEF WriteToChain, World
<1>3. chain' \in World
  BY <1>1, <1>2 DEF Finish
<1>4. TypeOK'
  BY <1>3, EmptySeq DEF Finish, Inv, TypeOK
<1>5. QED
  BY <1>4, EmptyStackIsSound DEF Finish, Inv

LEMMA NextKeepsInv == ASSUME Inv, [Next]_vars PROVE Inv'
<1>1. CASE Transaction
  BY <1>1, TransactionKeepsInv
<1>2. CASE Instruction
  BY <1>2, SLoadKeepsInv, SStoreKeepsInv, BalanceOfKeepsInv, TLoadKeepsInv, TStoreKeepsInv
     DEF Instruction
<1>3. CASE CallInstruction
  BY <1>3, CallKeepsInv DEF CallInstruction
<1>4. CASE Return
  BY <1>4, ReturnKeepsInv
<1>5. CASE Fail
  BY <1>5, FailKeepsInv
<1>6. CASE \E success \in BOOLEAN : Finish(success)
  BY <1>6, FinishKeepsInv
<1>7. CASE UNCHANGED vars
  BY <1>7 DEF vars, Inv, TypeOK
<1>8. QED
  BY <1>1, <1>2, <1>3, <1>4, <1>5, <1>6, <1>7 DEF Next

-----------------------------------------------------------------------------
(* The theorems about safety *)

\* The invariant behind everything else: the contexts are well formed and their
\* caches nest (EVMSimulationContext, callRaw, runEVMRaw).
THEOREM InvHolds == Spec => []Inv
<1>1. Init => Inv
  BY InitInv
<1>2. Inv /\ [Next]_vars => Inv'
  BY NextKeepsInv
<1>3. QED
  BY <1>1, <1>2, PTL DEF Spec

\* The state is well typed: balances stay machine words although payAccount
\* wraps and deductAccount subtracts, and "idle" means that no context is left.
THEOREM TypeCorrect == Spec => []TypeOK
<1>1. Inv => TypeOK
  BY DEF Inv
<1>2. QED
  BY <1>1, InvHolds, PTL

\* Whatever is cached by a context is cached by all its callers
\* (getAccountInfo, getStorageSlots, callRaw).
THEOREM CachesAlwaysNest == Spec => []CachesNest
<1>1. Inv => CachesNest
  BY DEF Inv, Sound, Nests, HeldUpTo, CachesNest, Depth
<1>2. QED
  BY <1>1, InvHolds, PTL

\* No call made under a STATICCALL ever holds a value of its own
\* (generateStaticCall, callRaw, the isStatic tests of SSTORE and runEVMRaw).
THEOREM StaticFramesNeverWrite == Spec => []StaticFramesOnlyCache
<1>1. Inv => StaticFramesOnlyCache
  <2> SUFFICES ASSUME Inv, NEW i \in 2 .. Depth,
                      NEW j \in 1 .. i, frames[j].isStatic,
                      NEW c \in Cell, Has(frames[i], c)
               PROVE  frames[i].overlay[c] = frames[i - 1].overlay[c]
    BY DEF StaticFramesOnlyCache
  <2>1. /\ frames \in Seq(Frame) /\ Len(frames) = Depth
        /\ OnlyCaches(frames) /\ Inherits(frames)
    BY DEF Inv, Sound, Depth
  <2>2. frames[i].isStatic
    BY <2>1, StaticBelowStatic
  <2>3. QED
    BY <2>1, <2>2 DEF OnlyCaches
<1>2. QED
  BY <1>1, InvHolds, PTL

-----------------------------------------------------------------------------
(* The contexts implement NestedState.  StackOf(fs) is the abstract call     *)
(* stack that the contexts fs stand for.                                     *)

ViewIn(fs, i) == [c \in Cell |-> Lookup(fs, i, c)]
StackOf(fs)   == [i \in 1 .. Len(fs) |-> [world    |-> ViewIn(fs, i),
                                          self     |-> fs[i].address,
                                          readOnly |-> fs[i].isStatic]]

CallRecord == [world : World, self : Address, readOnly : BOOLEAN]

LEMMA CallRecordIs ==
  ASSUME NEW w \in World, NEW a \in Address, NEW ro \in BOOLEAN
  PROVE  LET r == [world |-> w, self |-> a, readOnly |-> ro]
         IN  r \in CallRecord /\ r.world = w /\ r.self = a /\ r.readOnly = ro
BY DEF CallRecord

LEMMA StackOfIs ==
  ASSUME chain \in World, NEW fs, Sound(fs)
  PROVE  /\ StackOf(fs) \in Seq(CallRecord)
         /\ Len(StackOf(fs)) = Len(fs)
         /\ Len(fs) \in Nat
         /\ \A i \in 1 .. Len(fs) :
              /\ StackOf(fs)[i] \in CallRecord
              /\ StackOf(fs)[i].world = ViewIn(fs, i)
              /\ StackOf(fs)[i].self = fs[i].address
              /\ StackOf(fs)[i].readOnly = fs[i].isStatic
              /\ ViewIn(fs, i) \in World
<1>1. Len(fs) \in Nat /\ fs \in Seq(Frame)
  BY LenProperties DEF Sound
<1>2. \A i \in 1 .. Len(fs) : ViewIn(fs, i) \in World
  BY <1>1, LookupInWord DEF ViewIn, World
<1>3. \A i \in 1 .. Len(fs) : fs[i].address \in Address /\ fs[i].isStatic \in BOOLEAN
  BY <1>1, ElementOfSeq, FrameFacts
<1>4. \A i \in 1 .. Len(fs) :
        StackOf(fs)[i] = [world |-> ViewIn(fs, i), self |-> fs[i].address,
                          readOnly |-> fs[i].isStatic]
  BY DEF StackOf
<1>5. \A i \in 1 .. Len(fs) : /\ StackOf(fs)[i] \in CallRecord
                              /\ StackOf(fs)[i].world = ViewIn(fs, i)
                              /\ StackOf(fs)[i].self = fs[i].address
                              /\ StackOf(fs)[i].readOnly = fs[i].isStatic
  <2> SUFFICES ASSUME NEW i \in 1 .. Len(fs)
               PROVE  /\ StackOf(fs)[i] \in CallRecord
                      /\ StackOf(fs)[i].world = ViewIn(fs, i)
                      /\ StackOf(fs)[i].self = fs[i].address
                      /\ StackOf(fs)[i].readOnly = fs[i].isStatic
    OBVIOUS
  <2> DEFINE w == ViewIn(fs, i)
             a == fs[i].address
             ro == fs[i].isStatic
             r == [world |-> w, self |-> a, readOnly |-> ro]
  <2>1. w \in World /\ a \in Address /\ ro \in BOOLEAN /\ StackOf(fs)[i] = r
    BY <1>2, <1>3, <1>4
  <2>2. r \in CallRecord /\ r.world = w /\ r.self = a /\ r.readOnly = ro
    <3> HIDE DEF w, a, ro
    <3>1. QED
      BY <2>1, CallRecordIs
  <2> HIDE DEF r
  <2>3. QED
    BY <2>1, <2>2
<1>6. StackOf(fs) = [i \in 1 .. Len(fs) |-> StackOf(fs)[i]]
  BY DEF StackOf
<1> DEFINE s == StackOf(fs)
<1>7. s = [i \in 1 .. Len(fs) |-> s[i]] /\ \A i \in 1 .. Len(fs) : s[i] \in CallRecord
  BY <1>5, <1>6
<1>8. s \in Seq(CallRecord) /\ Len(s) = Len(fs)
  <2> HIDE DEF s
  <2>1. s \in Seq(CallRecord)
    BY <1>1, <1>7, IsASeq
  <2>2. DOMAIN s = 1 .. Len(fs)
    BY <1>7
  <2>3. QED
    BY <1>1, <2>1, <2>2, LenProperties
<1>9. QED
  BY <1>1, <1>2, <1>5, <1>8

LEMMA CallStackIs == CallStack = StackOf(frames)
BY DEF CallStack, StackOf, View, ViewIn, Depth

LEMMA NextCallStackIs ==
  ASSUME UNCHANGED chain
  PROVE  CallStack' = StackOf(frames')
BY DEF CallStack, StackOf, View, ViewIn, Depth, Lookup

\* Two stacks that agree everywhere are equal.
LEMMA SameStack ==
  ASSUME NEW fs, NEW gs, Len(fs) = Len(gs), Len(fs) \in Nat,
         \A i \in 1 .. Len(fs) : /\ fs[i].address = gs[i].address
                                 /\ fs[i].isStatic = gs[i].isStatic
                                 /\ \A c \in Cell : Lookup(fs, i, c) = Lookup(gs, i, c)
  PROVE  StackOf(fs) = StackOf(gs)
<1>1. \A i \in 1 .. Len(fs) : ViewIn(fs, i) = ViewIn(gs, i)
  BY DEF ViewIn
<1>2. QED
  BY <1>1 DEF StackOf

\* How the stack changes when only the world of the last call does.
LEMMA TopWorldChanges ==
  ASSUME chain \in World, NEW fs, NEW gs, Sound(fs), Sound(gs),
         Len(fs) = Len(gs), Len(fs) > 0,
         \A i \in 1 .. Len(fs) : gs[i].address = fs[i].address /\ gs[i].isStatic = fs[i].isStatic,
         \A i \in 1 .. Len(fs) - 1 : \A c \in Cell : Lookup(gs, i, c) = Lookup(fs, i, c)
  PROVE  StackOf(gs) = [StackOf(fs) EXCEPT ![Len(fs)].world = ViewIn(gs, Len(fs))]
<1> DEFINE n == Len(fs)
           s == StackOf(fs)
           t == StackOf(gs)
           w == ViewIn(gs, n)
           u == [s EXCEPT ![n] = [s[n] EXCEPT !.world = w]]
<1>1. n \in Nat /\ n \in 1 .. Len(fs) /\ s \in Seq(CallRecord) /\ Len(s) = n
      /\ t \in Seq(CallRecord) /\ Len(t) = n /\ w \in World
  BY StackOfIs
<1>2. s[n] \in CallRecord /\ t[n] \in CallRecord /\ t[n].world = w
      /\ t[n].self = s[n].self /\ t[n].readOnly = s[n].readOnly
  BY <1>1, StackOfIs
<1>3. \A i \in 1 .. n - 1 : t[i] = s[i]
  <2> SUFFICES ASSUME NEW i \in 1 .. n - 1
               PROVE  t[i] = s[i]
    OBVIOUS
  <2>1. i \in 1 .. Len(fs)
    BY <1>1
  <2>2. ViewIn(gs, i) = ViewIn(fs, i)
    BY DEF ViewIn
  <2>3. QED
    BY <2>1, <2>2 DEF StackOf
<1>4. t[n] = [s[n] EXCEPT !.world = w]
  <2> HIDE DEF w, s, t, n
  <2>1. QED
    BY <1>1, <1>2 DEF CallRecord
<1>5. t = u
  <2>1. [s[n] EXCEPT !.world = w] \in CallRecord
    BY <1>2, <1>4
  <2> DEFINE r == [s[n] EXCEPT !.world = w]
  <2> HIDE DEF w, s, t, n, r
  <2>2. u \in Seq(CallRecord) /\ Len(u) = n /\ \A i \in 1 .. n : u[i] = IF i = n THEN r ELSE s[i]
    BY <1>1, <2>1, ExceptSeq DEF r
  <2>3. \A i \in 1 .. n : u[i] = t[i]
    <3> SUFFICES ASSUME NEW i \in 1 .. n
                 PROVE  u[i] = t[i]
      OBVIOUS
    <3>1. CASE i = n
      BY <1>1, <1>4, <2>2, <3>1 DEF r
    <3>2. CASE i # n
      BY <1>1, <1>3, <2>2, <3>2
    <3>3. QED
      BY <3>1, <3>2
  <2> HIDE DEF u
  <2>4. QED
    BY <1>1, <2>2, <2>3, SeqEqual
<1>6. QED
  BY <1>5

LEMMA CallStackFacts ==
  ASSUME Inv, Depth > 0
  PROVE  /\ CallStack \in Seq(CallRecord) /\ Len(CallStack) = Depth /\ Depth \in Nat
         /\ mode # "idle"
         /\ CallStack[Depth] \in CallRecord
         /\ Nested!Top = CallStack[Depth]
         /\ Nested!Top.world = ViewIn(frames, Depth)
         /\ Nested!Top.self = Top.address
         /\ Nested!Top.readOnly = Top.isStatic
<1>1. /\ Depth \in 1 .. Len(frames) /\ Depth = Len(frames) /\ Sound(frames) /\ chain \in World
      /\ mode # "idle"
  BY DepthFacts
<1>2. Len(CallStack) = Depth
  BY <1>1, CallStackIs, StackOfIs
<1>3. Nested!Top = CallStack[Depth]
  BY <1>2 DEF Nested!Top
<1>4. QED
  BY <1>1, <1>2, <1>3, CallStackIs, StackOfIs DEF Top

LEMMA StutterRefines ==
  ASSUME Inv, NEW fs, Step(fs), Len(fs) = Depth,
         \A i \in 1 .. Depth : /\ fs[i].address = frames[i].address
                               /\ fs[i].isStatic = frames[i].isStatic
                               /\ \A c \in Cell : Lookup(fs, i, c) = Lookup(frames, i, c)
  PROVE  UNCHANGED Nested!vars
<1>1. StackOf(fs) = StackOf(frames)
  BY DepthFacts, SameStack
<1>2. CallStack' = CallStack
  BY <1>1, CallStackIs, NextCallStackIs DEF Step
<1>3. QED
  BY <1>2 DEF Nested!vars, Step

\* The same step when only the world of the running call changes.
LEMMA TopStep ==
  ASSUME Inv, Depth > 0, NEW fs, Step(fs), Sound(fs), Len(fs) = Depth,
         \A i \in 1 .. Depth : /\ fs[i].address = frames[i].address
                               /\ fs[i].isStatic = frames[i].isStatic,
         \A i \in 1 .. Depth - 1 : \A c \in Cell : Lookup(fs, i, c) = Lookup(frames, i, c)
  PROVE  /\ CallStack' = [CallStack EXCEPT ![Len(CallStack)].world = ViewIn(fs, Depth)]
         /\ UNCHANGED <<chain, mode>>
<1>0. chain \in World /\ Sound(frames) /\ Depth = Len(frames)
  BY DepthFacts
<1>1. StackOf(fs) = [StackOf(frames) EXCEPT ![Len(frames)].world = ViewIn(fs, Len(frames))]
  BY <1>0, TopWorldChanges
<1>2. CallStack' = StackOf(fs)
  BY NextCallStackIs DEF Step
<1>3. Len(CallStack) = Len(frames) /\ Depth = Len(frames)
  BY CallStackFacts, DepthFacts
<1>4. QED
  BY <1>1, <1>2, <1>3, CallStackIs DEF Step

\* payAccount and deductAccount together are the abstract Move.
LEMMA MoveIs ==
  ASSUME chain \in World, ConstantsAssumption, NEW fs, Sound(fs), Len(fs) > 0,
         NEW from \in Address, NEW to \in Address, NEW amount \in Word
  PROVE  LET w == ViewIn(fs, Len(fs))
         IN  /\ [c \in Cell |-> AfterMove(fs, from, to, amount, c)] = Nested!Move(w, from, to, amount)
             /\ Covered(fs, from, to, amount) <=> Nested!CanMove(w, from, to, amount)
<1> DEFINE w == ViewIn(fs, Len(fs))
           p == <<from, Balance>>
           q == <<to, Balance>>
           moved == [c \in Cell |-> AfterMove(fs, from, to, amount, c)]
<1>1. p \in Cell /\ q \in Cell /\ (from # to => p # q)
  BY DEF Cell
<1>2. \A c \in Cell : w[c] = Lookup(fs, Len(fs), c)
  BY DEF ViewIn
<1>3. w \in World /\ w = [c \in Cell |-> w[c]]
  BY <1>2, StackOfIs DEF ViewIn
<1>4. moved = Nested!Move(w, from, to, amount)
  <2>1. CASE amount = 0 \/ from = to
    BY <1>2, <1>3, <2>1 DEF AfterMove, Nested!Move
  <2>2. CASE ~(amount = 0 \/ from = to)
    <3> DEFINE u == [w EXCEPT ![p] = @ - amount, ![q] = AddWord(@, amount)]
    <3>1. Nested!Move(w, from, to, amount) = u
      BY <2>2 DEF Nested!Move, Nested!AddWord, AddWord
    <3>2. \A c \in Cell : u[c] = AfterMove(fs, from, to, amount, c)
      <4> SUFFICES ASSUME NEW c \in Cell
                   PROVE  u[c] = AfterMove(fs, from, to, amount, c)
        OBVIOUS
      <4>1. AfterMove(fs, from, to, amount, c) =
              IF c = p THEN w[c] - amount ELSE IF c = q THEN AddWord(w[c], amount) ELSE w[c]
        BY <1>2, <2>2 DEF AfterMove
      <4> HIDE DEF w, p, q
      <4>2. u[c] = IF c = p THEN w[c] - amount ELSE IF c = q THEN AddWord(w[c], amount) ELSE w[c]
        BY <1>1, <1>3, <2>2
      <4>3. QED
        BY <4>1, <4>2
    <3>3. u = [c \in Cell |-> u[c]]
      <4> HIDE DEF w, p, q
      <4>1. QED
        BY <1>3
    <3> HIDE DEF u
    <3>4. QED
      BY <3>1, <3>2, <3>3
  <2>3. QED
    BY <2>1, <2>2
<1>5. Covered(fs, from, to, amount) <=> Nested!CanMove(w, from, to, amount)
  BY <1>1, <1>2 DEF Covered, Nested!CanMove
<1>6. QED
  BY <1>4, <1>5

LEMMA SLoadRefines ==
  ASSUME Inv, ~ProviderMayFail, NEW k \in Key, SLoad(k)
  PROVE  UNCHANGED Nested!vars
<1> DEFINE cell == <<Top.address, k>>
           read == ReadThrough(frames, cell, Lookup(frames, Len(frames), cell))
<1>1. Depth > 0 /\ cell \in Cell
  BY OwnCell DEF SLoad
<1>2. Step(read)
  <2>1. PICK v \in SlotValues(frames, cell) : Step(ReadThrough(frames, cell, v))
    BY DEF SLoad
  <2>2. v = Lookup(frames, Len(frames), cell)
    BY <1>1, <2>1, SlotValueIs
  <2>3. QED
    BY <2>1, <2>2
<1> HIDE DEF cell
<1>3. Lookup(frames, Len(frames), cell) \in Word
  BY <1>1, DepthFacts, LookupInWord
<1>4. SameCalls(read, frames)
  BY <1>1, <1>3, DepthFacts, ConstantsAssumption, ReadIsSound
<1>5. \A i \in 0 .. Depth : \A c \in Cell : Lookup(read, i, c) = Lookup(frames, i, c)
  BY <1>1, DepthFacts, ConstantsAssumption, ReadViews
<1> HIDE DEF read
<1>6. QED
  BY <1>2, <1>4, <1>5, DepthFacts, StutterRefines DEF SameCalls, SameCall

LEMMA SStoreRefines ==
  ASSUME Inv, ~ProviderMayFail, NEW k \in Key, NEW value \in StoredValues, SStore(k, value)
  PROVE  Nested!Store(k, value)
<1> DEFINE cell == <<Top.address, k>>
           read == ReadThrough(frames, cell, Lookup(frames, Len(frames), cell))
           put  == Put(read, cell, value)
<1>1. /\ Depth > 0 /\ cell \in Cell /\ ~Top.isStatic /\ value \in Word
      /\ Depth = Len(frames) /\ Depth \in Nat /\ Depth \in 1 .. Len(frames)
      /\ Top = frames[Len(frames)]
  BY OwnCell, ConstantsAssumption, DepthFacts DEF SStore, ConstantsAssumption
<1>2. Step(put)
  <2>1. PICK v \in SlotValues(frames, cell) : Step(Put(ReadThrough(frames, cell, v), cell, value))
    BY DEF SStore
  <2>2. v = Lookup(frames, Len(frames), cell)
    BY <1>1, <2>1, SlotValueIs
  <2>3. QED
    BY <2>1, <2>2
<1> HIDE DEF cell
<1>3. Sound(read) /\ SameCalls(read, frames) /\ Has(read[Len(frames)], cell)
  <2>1. Lookup(frames, Len(frames), cell) \in Word
    BY <1>1, DepthFacts, LookupInWord
  <2>2. QED
    BY <1>1, <2>1, DepthFacts, ConstantsAssumption, ReadIsSound
<1>4. \A i \in 0 .. Depth : \A c \in Cell : Lookup(read, i, c) = Lookup(frames, i, c)
  BY <1>1, DepthFacts, ConstantsAssumption, ReadViews
<1>5. Len(read) = Depth /\ ~read[Len(read)].isStatic /\ Len(read) > 0
  BY <1>1, <1>3 DEF SameCalls, SameCall
<1> HIDE DEF read
<1>6. Sound(put) /\ SameCalls(put, read)
  BY <1>1, <1>3, <1>5, ConstantsAssumption, PutIsSound, PutIs DEF Sound
<1>7. \A i \in 0 .. Depth : \A c \in Cell :
        Lookup(put, i, c) = IF i = Depth /\ c = cell THEN value ELSE Lookup(frames, i, c)
  BY <1>1, <1>3, <1>4, <1>5, ConstantsAssumption, PutViews
<1> HIDE DEF put
<1>8. /\ Len(put) = Depth
      /\ \A i \in 1 .. Depth : /\ put[i].address = frames[i].address
                               /\ put[i].isStatic = frames[i].isStatic
  BY <1>3, <1>5, <1>6 DEF SameCalls, SameCall
<1>9. \A i \in 1 .. Depth - 1 : \A c \in Cell : Lookup(put, i, c) = Lookup(frames, i, c)
  BY <1>1, <1>7
<1>10. /\ CallStack' = [CallStack EXCEPT ![Len(CallStack)].world = ViewIn(put, Depth)]
       /\ UNCHANGED <<chain, mode>>
  BY <1>1, <1>2, <1>6, <1>8, <1>9, TopStep
<1>11. ViewIn(put, Depth) = [ViewIn(frames, Depth) EXCEPT ![cell] = value]
  <2>1. Depth \in 0 .. Depth
    BY <1>1
  <2>2. QED
    BY <1>1, <1>7, <2>1 DEF ViewIn
<1>12. CallStack' = [CallStack EXCEPT ![Len(CallStack)].world[cell] = value]
  <2>1. CallStack[Len(CallStack)].world = ViewIn(frames, Depth)
    BY <1>1, CallStackFacts
  <2>2. QED
    BY <1>10, <1>11, <2>1
<1>13. QED
  BY <1>1, <1>10, <1>12, CallStackFacts DEF Nested!Store, cell

LEMMA BalanceOfRefines ==
  ASSUME Inv, NEW a \in Queried, BalanceOf(a)
  PROVE  UNCHANGED Nested!vars
<1> DEFINE read == GetAccountInfo(frames, a)
<1>1. Depth > 0 /\ Step(read) /\ a \in Address
  BY ConstantsAssumption DEF BalanceOf, ConstantsAssumption
<1>2. SameCalls(read, frames) /\ SameViews(read, frames)
  BY <1>1, DepthFacts, ConstantsAssumption, AccountRead
<1> HIDE DEF read
<1>3. QED
  BY <1>1, <1>2, DepthFacts, StutterRefines DEF SameCalls, SameCall, SameViews

LEMMA TransientRefines ==
  ASSUME Inv, NEW fs, Step(fs), Len(fs) = Depth,
         \A i \in 1 .. Depth : /\ fs[i].address = frames[i].address
                               /\ fs[i].isStatic = frames[i].isStatic
                               /\ fs[i].overlay = frames[i].overlay
  PROVE  UNCHANGED Nested!vars
<1>1. \A i \in 1 .. Depth : \A c \in Cell : Lookup(fs, i, c) = Lookup(frames, i, c)
  <2> SUFFICES ASSUME NEW i \in 1 .. Depth, NEW c \in Cell
               PROVE  Lookup(fs, i, c) = Lookup(frames, i, c)
    OBVIOUS
  <2>1. \A j \in 1 .. Depth : Has(fs[j], c) <=> Has(frames[j], c)
    BY DEF Has
  <2>2. PICK h \in 0 .. Len(frames) : HeldUpTo(frames, c, h)
    BY DepthFacts DEF Sound, Nests
  <2>3. HeldUpTo(fs, c, h)
    BY <2>1, <2>2, DepthFacts DEF HeldUpTo
  <2>4. i \in 0 .. Len(frames) /\ Depth = Len(frames)
    BY DepthFacts
  <2>5. Holder(frames, i, c) = Holder(fs, i, c)
    <3>1. ASSUME NEW m \in 0 .. i
          PROVE  /\ (m > 0 => Has(frames[m], c)) <=> (m > 0 => Has(fs[m], c))
                 /\ (\A j \in (m + 1) .. i : ~Has(frames[j], c))
                      <=> (\A j \in (m + 1) .. i : ~Has(fs[j], c))
      <4>1. m > 0 => m \in 1 .. Depth
        BY <2>4, DepthFacts
      <4>2. \A j \in (m + 1) .. i : j \in 1 .. Depth
        BY <2>4, DepthFacts
      <4>3. QED
        BY <2>1, <4>1, <4>2
    <3>2. QED
      BY <3>1 DEF Holder
  <2>6. Holder(frames, i, c) \in 0 .. i
    BY <2>2, <2>4, DepthFacts, HolderIs
  <2>7. CASE Holder(frames, i, c) = 0
    BY <2>5, <2>7 DEF Lookup
  <2>8. CASE Holder(frames, i, c) # 0
    <3>1. Holder(frames, i, c) \in 1 .. Depth
      BY <2>4, <2>6, <2>8
    <3>2. QED
      BY <2>5, <2>8, <3>1 DEF Lookup
  <2>9. QED
    BY <2>7, <2>8
<1>2. QED
  BY <1>1, StutterRefines

LEMMA TLoadRefines == ASSUME Inv, NEW k \in TransientKey, TLoad(k) PROVE UNCHANGED Nested!vars
<1> DEFINE v == TransientValue(Depth, k)
           h == TransientHolder(Depth, k)
           Kept(i) == [frames[i] EXCEPT !.transient[<<frames[i].address, k>>] = v]
           fs == [i \in 1 .. Depth |-> IF i > 1 /\ i > h THEN Kept(i) ELSE frames[i]]
<1>1. Depth > 0 /\ Step(fs) /\ Depth \in Nat
  BY DepthFacts DEF TLoad
<1>2. v \in Word
  BY <1>1, DepthFacts, TransientHolderIs
<1> HIDE DEF v, h
<1>3. \A i \in 1 .. Depth : /\ fs[i].address = frames[i].address
                            /\ fs[i].isStatic = frames[i].isStatic
                            /\ fs[i].overlay = frames[i].overlay
  <2> SUFFICES ASSUME NEW i \in 1 .. Depth
               PROVE  /\ fs[i].address = frames[i].address
                      /\ fs[i].isStatic = frames[i].isStatic
                      /\ fs[i].overlay = frames[i].overlay
    OBVIOUS
  <2>1. frames[i] \in Frame
    BY DepthFacts, ElementOfSeq
  <2>2. /\ Kept(i).address = frames[i].address
        /\ Kept(i).isStatic = frames[i].isStatic
        /\ Kept(i).overlay = frames[i].overlay
    BY <1>2, <2>1, EnterTransient
  <2> HIDE DEF Kept
  <2>3. fs[i] = Kept(i) \/ fs[i] = frames[i]
    OBVIOUS
  <2>4. QED
    BY <2>2, <2>3
<1>4. Len(fs) = Depth
  BY <1>1
<1> HIDE DEF fs
<1>5. QED
  BY <1>1, <1>3, <1>4, TransientRefines

LEMMA TStoreRefines ==
  ASSUME Inv, NEW k \in TransientKey, NEW value \in StoredValues, TStore(k, value)
  PROVE  UNCHANGED Nested!vars
<1> DEFINE g == [Top EXCEPT !.transient[<<Top.address, k>>] = value]
           fs == [frames EXCEPT ![Depth] = g]
<1>1. /\ value \in Word /\ Top \in Frame /\ Top = frames[Depth]
      /\ Depth \in 1 .. Len(frames) /\ frames \in Seq(Frame) /\ Depth = Len(frames)
  BY DepthFacts, ConstantsAssumption DEF TStore, ConstantsAssumption
<1>2. Step(fs)
  BY DEF TStore, Top
<1>3. /\ g \in Frame /\ g.address = Top.address
      /\ g.isStatic = Top.isStatic /\ g.overlay = Top.overlay
  BY <1>1, EnterTransient
<1> HIDE DEF g
<1>4. /\ Len(fs) = Depth
      /\ \A i \in 1 .. Depth : fs[i] = IF i = Depth THEN g ELSE frames[i]
  BY <1>1, <1>3, ExceptSeq
<1> HIDE DEF fs
<1>5. \A i \in 1 .. Depth : /\ fs[i].address = frames[i].address
                            /\ fs[i].isStatic = frames[i].isStatic
                            /\ fs[i].overlay = frames[i].overlay
  BY <1>1, <1>3, <1>4
<1>6. QED
  BY <1>2, <1>4, <1>5, TransientRefines

LEMMA FailRefines == ASSUME Inv, Fail PROVE Nested!Fail
<1>1. /\ Depth > 1 /\ Depth \in Nat /\ Depth = Len(frames) /\ Sound(frames) /\ chain \in World
      /\ Step(Below) /\ Below = SubSeq(frames, 1, Len(frames) - 1) /\ frames \in Seq(Frame)
  BY DepthFacts DEF Fail, Below
<1>2. /\ Sound(Below) /\ Len(Below) = Depth - 1
      /\ \A i \in 1 .. Depth - 1 : Below[i] = frames[i]
  BY <1>1, PopIsSound, PopIs
<1>3. \A i \in 1 .. Depth - 1 : \A c \in Cell : Lookup(Below, i, c) = Lookup(frames, i, c)
  BY <1>1, PopViews
<1> DEFINE s == StackOf(frames)
           p == StackOf(Below)
<1>4. \A i \in 1 .. Depth - 1 : p[i] = s[i]
  <2> SUFFICES ASSUME NEW i \in 1 .. Depth - 1
               PROVE  p[i] = s[i]
    OBVIOUS
  <2>1. ViewIn(Below, i) = ViewIn(frames, i)
    BY <1>3 DEF ViewIn
  <2>2. i \in 1 .. Len(frames) /\ i \in 1 .. Len(Below)
    BY <1>1, <1>2
  <2>3. QED
    BY <1>2, <2>1, <2>2 DEF StackOf
<1>5. p = SubSeq(s, 1, Len(s) - 1) /\ Len(s) = Depth
  <2>1. s \in Seq(CallRecord) /\ Len(s) = Depth /\ p \in Seq(CallRecord) /\ Len(p) = Depth - 1
    BY <1>1, <1>2, StackOfIs
  <2> DEFINE q == SubSeq(s, 1, Len(s) - 1)
  <2> HIDE DEF s, p
  <2>2. q \in Seq(CallRecord) /\ Len(q) = Depth - 1 /\ \A i \in 1 .. Depth - 1 : q[i] = s[i]
    BY <1>1, <2>1
  <2> HIDE DEF q
  <2>3. p = q
    BY <1>1, <1>4, <2>1, <2>2, SeqEqual
  <2>4. QED
    BY <2>1, <2>3 DEF q
<1>6. CallStack' = p /\ CallStack = s
  BY <1>1, CallStackIs, NextCallStackIs DEF Step
<1> HIDE DEF s, p
<1>7. QED
  BY <1>1, <1>5, <1>6 DEF Nested!Fail, Nested!Below, Step

LEMMA ReturnRefines == ASSUME Inv, Return PROVE Nested!Return
<1> DEFINE n == Depth
           ret == Succeeded(frames)
           s == StackOf(frames)
           pop == SubSeq(frames, 1, Len(frames) - 1)
           b == SubSeq(s, 1, Len(s) - 1)
<1>1. /\ n > 1 /\ n \in Nat /\ n = Len(frames) /\ Sound(frames) /\ chain \in World
      /\ Step(ret) /\ frames \in Seq(Frame)
  BY DepthFacts DEF Return
<1>2. s \in Seq(CallRecord) /\ Len(s) = n
  BY <1>1, StackOfIs
<1>3. n \in 1 .. Len(frames) /\ n - 1 \in 1 .. Len(frames) /\ n \in 2 .. Len(frames)
  BY <1>1
<1>4. /\ Sound(ret) /\ Len(ret) = n - 1
      /\ \A i \in 1 .. n - 1 : ret[i].address = frames[i].address /\ ret[i].isStatic = frames[i].isStatic
  <2>1. \A i \in 1 .. n - 1 : i \in 1 .. n - 2 \/ i = n - 1
    BY <1>1
  <2>2. QED
    BY <1>1, <2>1, SucceededIsSound, SucceededIs
<1>5. \A i \in 1 .. n - 1 : \A c \in Cell :
        Lookup(ret, i, c) = IF i = n - 1 /\ Merges(frames) THEN Lookup(frames, n, c)
                            ELSE Lookup(frames, i, c)
  BY <1>1, SucceededViews
<1>6. /\ Sound(pop) /\ Len(pop) = n - 1
      /\ \A i \in 1 .. n - 1 : pop[i] = frames[i]
      /\ \A i \in 1 .. n - 1 : \A c \in Cell : Lookup(pop, i, c) = Lookup(frames, i, c)
  BY <1>1, PopIsSound, PopIs, PopViews
<1>7. StackOf(pop) = b
  <2>1. /\ StackOf(pop) \in Seq(CallRecord) /\ Len(StackOf(pop)) = n - 1
    BY <1>1, <1>6, StackOfIs
  <2>2. \A i \in 1 .. n - 1 : StackOf(pop)[i] = s[i]
    <3> SUFFICES ASSUME NEW i \in 1 .. n - 1
                 PROVE  StackOf(pop)[i] = s[i]
      OBVIOUS
    <3>1. ViewIn(pop, i) = ViewIn(frames, i)
      BY <1>6 DEF ViewIn
    <3>2. i \in 1 .. Len(frames) /\ i \in 1 .. Len(pop)
      BY <1>1, <1>6
    <3>3. QED
      BY <1>6, <3>1, <3>2 DEF StackOf
  <2> HIDE DEF s, pop
  <2>3. b \in Seq(CallRecord) /\ Len(b) = n - 1 /\ \A i \in 1 .. n - 1 : b[i] = s[i]
    BY <1>1, <1>2
  <2> HIDE DEF b
  <2>4. QED
    BY <1>1, <2>1, <2>2, <2>3, SeqEqual
<1>8. CallStack' = StackOf(ret) /\ CallStack = s /\ UNCHANGED <<chain, mode>>
  BY <1>1, CallStackIs, NextCallStackIs DEF Step
<1>9. /\ Nested!Top = s[n] /\ s[n].world = ViewIn(frames, n)
      /\ s[n].readOnly = frames[n].isStatic /\ Nested!Below = b
  BY <1>1, <1>2, <1>3, <1>8, StackOfIs DEF Nested!Top, Nested!Below
<1>10. CASE frames[n].isStatic
  \* nothing of a static context is handed on: no merge, or equal values
  <2>1. ~Merges(frames) \/ \A c \in Cell : Lookup(frames, n, c) = Lookup(frames, n - 1, c)
    <3>1. \A c \in Cell : Lookup(frames, n, c) = Lookup(frames, n - 1, c)
      <4> SUFFICES ASSUME NEW c \in Cell
                   PROVE  Lookup(frames, n, c) = Lookup(frames, n - 1, c)
        OBVIOUS
      <4>1. PICK h \in 0 .. Len(frames) : HeldUpTo(frames, c, h)
        BY <1>1 DEF Sound, Nests
      <4>2. Has(frames[n], c) <=> n <= h
        BY <1>3, <4>1 DEF HeldUpTo
      <4>3. Has(frames[n], c) => frames[n].overlay[c] = frames[n - 1].overlay[c]
        BY <1>1, <1>3, <1>10 DEF Sound, OnlyCaches
      <4>4. /\ Lookup(frames, n, c) = IF n = 0 \/ h = 0 THEN chain[c]
                                      ELSE IF n <= h THEN frames[n].overlay[c] ELSE frames[h].overlay[c]
            /\ Lookup(frames, n - 1, c) = IF n - 1 = 0 \/ h = 0 THEN chain[c]
                                      ELSE IF n - 1 <= h THEN frames[n - 1].overlay[c] ELSE frames[h].overlay[c]
        BY <1>1, <1>3, <4>1, LookupIs
      <4>5. h \in 0 .. n
        BY <1>1
      <4> HIDE DEF n
      <4>6. QED
        BY <1>1, <4>2, <4>3, <4>4, <4>5
    <3>2. QED
      BY <3>1
  <2>2. \A i \in 1 .. n - 1 : \A c \in Cell : Lookup(ret, i, c) = Lookup(pop, i, c)
    BY <1>5, <1>6, <2>1
  <2>3. StackOf(ret) = StackOf(pop)
    <3>1. /\ Len(ret) = n - 1 /\ Len(pop) = n - 1 /\ n - 1 \in Nat
          /\ \A i \in 1 .. n - 1 : /\ ret[i].address = pop[i].address
                                   /\ ret[i].isStatic = pop[i].isStatic
      BY <1>1, <1>4, <1>6
    <3> HIDE DEF ret, pop, n
    <3>2. QED
      BY <2>2, <3>1, SameStack
  <2>4. Nested!Top.readOnly
    BY <1>9, <1>10
  <2>5. QED
    BY <1>1, <1>2, <1>7, <1>8, <1>9, <2>3, <2>4 DEF Nested!Return
<1>11. CASE ~frames[n].isStatic
  <2>1. Merges(frames)
    BY <1>1, <1>3, <1>11 DEF Merges, Sound, Inherits
  <2>2. \A i \in 1 .. (n - 1) - 1 : \A c \in Cell : Lookup(ret, i, c) = Lookup(pop, i, c)
    BY <1>1, <1>5, <1>6
  <2>3. \A i \in 1 .. n - 1 : ret[i].address = pop[i].address /\ ret[i].isStatic = pop[i].isStatic
    BY <1>4, <1>6
  <2>4. StackOf(ret) = [StackOf(pop) EXCEPT ![n - 1].world = ViewIn(ret, n - 1)]
    <3>1. /\ Len(ret) = n - 1 /\ Len(pop) = n - 1 /\ n - 1 > 0 /\ Sound(ret) /\ Sound(pop)
          /\ chain \in World
      BY <1>1, <1>4, <1>6
    <3> HIDE DEF ret, pop, n
    <3>2. QED
      BY <2>2, <2>3, <3>1, TopWorldChanges
  <2>5. ViewIn(ret, n - 1) = ViewIn(frames, n)
    <3>1. n - 1 \in 1 .. n - 1
      BY <1>1
    <3>2. QED
      BY <1>5, <2>1, <3>1 DEF ViewIn
  <2>6. StackOf(ret) = [b EXCEPT ![n - 1].world = s[n].world]
    BY <1>7, <1>9, <2>4, <2>5
  <2>7. ~Nested!Top.readOnly
    BY <1>9, <1>11
  <2>8. QED
    BY <1>1, <1>2, <1>8, <1>9, <2>6, <2>7 DEF Nested!Return
<1>12. QED
  BY <1>10, <1>11

\* How the stack changes when a call is opened.
LEMMA CallOpens ==
  ASSUME chain \in World, NEW fs, NEW gs, Sound(fs), Sound(gs), Len(gs) = Len(fs) + 1,
         \A i \in 1 .. Len(fs) : gs[i].address = fs[i].address /\ gs[i].isStatic = fs[i].isStatic,
         \A i \in 1 .. Len(fs) : \A c \in Cell : Lookup(gs, i, c) = Lookup(fs, i, c)
  PROVE  StackOf(gs) = Append(StackOf(fs), StackOf(gs)[Len(gs)])
<1> DEFINE n == Len(fs)
           s == StackOf(fs)
           t == StackOf(gs)
           r == t[Len(gs)]
           u == Append(s, r)
<1>1. n \in Nat /\ Len(gs) = n + 1 /\ s \in Seq(CallRecord) /\ Len(s) = n
      /\ t \in Seq(CallRecord) /\ Len(t) = n + 1
  BY StackOfIs
<1>2. Len(gs) \in 1 .. Len(gs) /\ r \in CallRecord
  BY <1>1, StackOfIs
<1>3. \A i \in 1 .. n : t[i] = s[i]
  <2> SUFFICES ASSUME NEW i \in 1 .. n
               PROVE  t[i] = s[i]
    OBVIOUS
  <2>1. ViewIn(gs, i) = ViewIn(fs, i)
    BY DEF ViewIn
  <2>2. i \in 1 .. Len(fs) /\ i \in 1 .. Len(gs)
    BY <1>1
  <2>3. QED
    BY <2>1, <2>2 DEF StackOf
<1>4. t[n + 1] = r
  BY <1>1
<1> HIDE DEF n, s, t, r
<1>5. u \in Seq(CallRecord) /\ Len(u) = n + 1
      /\ \A i \in 1 .. n + 1 : u[i] = IF i = n + 1 THEN r ELSE s[i]
  BY <1>1, <1>2
<1>6. \A i \in 1 .. n + 1 : u[i] = t[i]
  <2> SUFFICES ASSUME NEW i \in 1 .. n + 1
               PROVE  u[i] = t[i]
    OBVIOUS
  <2>1. CASE i = n + 1
    BY <1>4, <1>5, <2>1
  <2>2. CASE i # n + 1
    <3>1. i \in 1 .. n
      BY <1>1, <2>2
    <3>2. QED
      BY <1>3, <1>5, <2>2, <3>1
  <2>3. QED
    BY <2>1, <2>2
<1> HIDE DEF u
<1>7. t = u
  BY <1>1, <1>5, <1>6, SeqEqual
<1>8. QED
  BY <1>7 DEF u, s, t, r

\* A delegated call moves no value, so the payer may as well be the account
\* whose code runs.
LEMMA PayerIs ==
  ASSUME NEW w, NEW from, NEW payer, NEW to, NEW amount, from = payer \/ amount = 0
  PROVE  /\ Nested!Move(w, from, to, amount) = Nested!Move(w, payer, to, amount)
         /\ Nested!CanMove(w, from, to, amount) <=> Nested!CanMove(w, payer, to, amount)
BY DEF Nested!Move, Nested!CanMove

\* What the start of a call does, when its transfer can be made.
LEMMA TransferRefines ==
  ASSUME Inv, Depth > 0, NEW kind \in CallKinds, NEW target \in Address, NEW amount \in Word,
         kind \in {"delegatecall", "staticcall"} => amount = 0,
         CanTransfer(WithChild(kind, target), amount)
  PROVE  LET t == Transferred(WithChild(kind, target), amount)
             to == t[Depth + 1].address
             w == ViewIn(frames, Depth)
         IN  /\ Sound(t) /\ Len(t) = Depth + 1
             /\ t[Depth + 1].kind = kind
             /\ to = IF kind = "delegatecall" THEN Top.address ELSE target
             /\ t[Depth + 1].isStatic <=> Top.isStatic \/ kind = "staticcall"
             /\ t[Depth + 1].isStatic => amount = 0
             /\ \A i \in 1 .. Depth : /\ t[i].address = frames[i].address
                                      /\ t[i].isStatic = frames[i].isStatic
             /\ \A i \in 1 .. Depth : \A c \in Cell : Lookup(t, i, c) = Lookup(frames, i, c)
             /\ ViewIn(t, Depth + 1) = Nested!Move(w, Top.address, to, amount)
             /\ Nested!CanMove(w, Top.address, to, amount)
<1> DEFINE fs == WithChild(kind, target)
           child == Child(kind, target)
           t == Transferred(fs, amount)
           n == Depth
           w == ViewIn(frames, n)
<1>1. /\ n \in Nat /\ n = Len(frames) /\ chain \in World /\ ConstantsAssumption
      /\ Top \in Frame /\ Top.address \in Address /\ Top.caller \in Address
      /\ n + 1 \in 1 .. n + 1
  BY DepthFacts, FrameFacts, ConstantsAssumption
<1>2. /\ Sound(fs) /\ Len(fs) = n + 1 /\ fs[n + 1] = child
      /\ \A i \in 1 .. n : fs[i] = frames[i]
      /\ child.kind = kind
      /\ child.isStatic <=> Top.isStatic \/ kind = "staticcall"
      /\ child.address = IF kind = "delegatecall" THEN Top.address ELSE target
      /\ child.caller = IF kind = "delegatecall" THEN Top.caller ELSE Top.address
      /\ \A i \in 0 .. n : \A c \in Cell : Lookup(fs, i, c) = Lookup(frames, i, c)
      /\ \A c \in Cell : Lookup(fs, n + 1, c) = Lookup(frames, n, c)
  BY <1>1, WithChildIs
<1>3. CanTransfer(fs, amount)
  OBVIOUS
<1> HIDE DEF fs, child
<1>4. /\ Sound(t) /\ SameCalls(t, fs)
      /\ \A i \in 0 .. n : \A c \in Cell : Lookup(t, i, c) = Lookup(fs, i, c)
      /\ \A c \in Cell : Lookup(t, n + 1, c) = AfterMove(fs, child.caller, child.address, amount, c)
      /\ Covered(fs, child.caller, child.address, amount)
  BY <1>1, <1>2, <1>3, TransferredIs
<1> HIDE DEF t
<1>5. child.isStatic => amount = 0
  BY <1>1, <1>2, <1>3 DEF CanTransfer
<1>6. /\ Len(t) = n + 1
      /\ t[n + 1].kind = child.kind /\ t[n + 1].address = child.address
      /\ t[n + 1].isStatic = child.isStatic
      /\ \A i \in 1 .. n : t[i].address = frames[i].address /\ t[i].isStatic = frames[i].isStatic
  <2>1. Len(t) = n + 1 /\ \A i \in 1 .. n : i \in 1 .. Len(t)
    BY <1>1, <1>2, <1>4 DEF SameCalls, SameCall
  <2>2. QED
    BY <1>1, <1>2, <1>4, <2>1 DEF SameCalls, SameCall
<1>7. child.caller \in Address /\ child.address \in Address
  BY <1>1, <1>2
<1>8. /\ ViewIn(t, n + 1) = Nested!Move(w, child.caller, child.address, amount)
      /\ Nested!CanMove(w, child.caller, child.address, amount)
  <2>1. ViewIn(fs, n + 1) = w
    BY <1>2 DEF ViewIn
  <2>2. ViewIn(t, n + 1) = [c \in Cell |-> AfterMove(fs, child.caller, child.address, amount, c)]
    BY <1>4 DEF ViewIn
  <2> HIDE DEF w
  <2>3. /\ [c \in Cell |-> AfterMove(fs, child.caller, child.address, amount, c)]
             = Nested!Move(ViewIn(fs, Len(fs)), child.caller, child.address, amount)
        /\ Covered(fs, child.caller, child.address, amount)
             <=> Nested!CanMove(ViewIn(fs, Len(fs)), child.caller, child.address, amount)
    BY <1>1, <1>2, <1>7, MoveIs
  <2>4. QED
    BY <1>2, <1>4, <2>1, <2>2, <2>3
<1>9. child.caller = Top.address \/ amount = 0
  BY <1>2
<1>10. /\ Nested!Move(w, child.caller, child.address, amount)
            = Nested!Move(w, Top.address, child.address, amount)
       /\ Nested!CanMove(w, child.caller, child.address, amount)
            <=> Nested!CanMove(w, Top.address, child.address, amount)
  <2> HIDE DEF w
  <2>1. QED
    BY <1>9, PayerIs
<1> HIDE DEF w
<1>11. \A i \in 1 .. n : \A c \in Cell : Lookup(t, i, c) = Lookup(frames, i, c)
  <2>1. \A i \in 1 .. n : i \in 0 .. n
    BY <1>1
  <2>2. QED
    BY <1>2, <1>4, <2>1
<1>12. QED
  BY <1>2, <1>4, <1>5, <1>6, <1>8, <1>10, <1>11 DEF t, fs, w

LEMMA CallRefines ==
  ASSUME Inv, NEW kind \in CallKinds, NEW target \in Address, NEW amount \in Amounts,
         Call(kind, target, amount)
  PROVE  \E self \in Address, value \in Word, readOnly \in BOOLEAN :
           Nested!Open(self, value, readOnly)
<1> DEFINE t == Transferred(WithChild(kind, target), amount)
           w == ViewIn(frames, Depth)
           self == t[Depth + 1].address
           readOnly == t[Depth + 1].isStatic
<1>1. /\ Depth > 0 /\ Depth \in Nat /\ Depth = Len(frames) /\ amount \in Word
      /\ kind \in {"delegatecall", "staticcall"} => amount = 0
      /\ CanTransfer(WithChild(kind, target), amount)
      /\ Step(t) /\ chain \in World /\ Sound(frames)
  BY DepthFacts, ConstantsAssumption DEF Call, Callable, ConstantsAssumption
<1>2. /\ Sound(t) /\ Len(t) = Depth + 1
      /\ self = IF kind = "delegatecall" THEN Top.address ELSE target
      /\ readOnly <=> Top.isStatic \/ kind = "staticcall"
      /\ readOnly => amount = 0
      /\ \A i \in 1 .. Depth : t[i].address = frames[i].address /\ t[i].isStatic = frames[i].isStatic
      /\ \A i \in 1 .. Depth : \A c \in Cell : Lookup(t, i, c) = Lookup(frames, i, c)
      /\ ViewIn(t, Depth + 1) = Nested!Move(w, Top.address, self, amount)
      /\ Nested!CanMove(w, Top.address, self, amount)
  BY <1>1, TransferRefines
<1> HIDE DEF t
<1>3. StackOf(t) = Append(StackOf(frames), StackOf(t)[Len(t)])
  BY <1>1, <1>2, CallOpens
<1>4. /\ self \in Address /\ readOnly \in BOOLEAN
      /\ StackOf(t)[Len(t)] = [world |-> ViewIn(t, Depth + 1), self |-> self, readOnly |-> readOnly]
  <2>1. Depth + 1 \in 1 .. Len(t)
    BY <1>1, <1>2
  <2>2. t[Depth + 1] \in Frame
    BY <1>2, <2>1, ElementOfSeq DEF Sound
  <2>3. QED
    BY <1>2, <2>1, <2>2, FrameFacts DEF StackOf
<1>5. CallStack' = StackOf(t) /\ CallStack = StackOf(frames) /\ UNCHANGED <<chain, mode>>
  BY <1>1, CallStackIs, NextCallStackIs DEF Step
<1>6. /\ mode # "idle" /\ Nested!Top.world = w /\ Nested!Top.self = Top.address
      /\ Nested!Top.readOnly = Top.isStatic
  BY <1>1, CallStackFacts
<1> HIDE DEF w, self, readOnly
<1>7. CallStack' = Append(CallStack, [world |-> Nested!Move(Nested!Top.world, Nested!Top.self, self, amount),
                                      self |-> self, readOnly |-> readOnly])
  BY <1>2, <1>3, <1>4, <1>5, <1>6
<1>8. Nested!Open(self, amount, readOnly)
  BY <1>2, <1>5, <1>6, <1>7 DEF Nested!Open
<1>9. QED
  BY <1>1, <1>4, <1>8

LEMMA CallRefusedRefines ==
  ASSUME Inv, NEW kind \in CallKinds, NEW target \in Address, NEW amount \in Amounts,
         CallRefused(kind, target, amount)
  PROVE  UNCHANGED Nested!vars
<1> DEFINE fs == WithChild(kind, target)
           left == Refused(fs, amount)
<1>1. /\ Depth > 0 /\ Depth \in Nat /\ Step(left) /\ chain \in World
  BY DepthFacts DEF CallRefused, Callable
<1>2. /\ Sound(fs) /\ Len(fs) = Depth + 1
      /\ \A i \in 1 .. Depth : fs[i] = frames[i]
      /\ \A i \in 0 .. Depth : \A c \in Cell : Lookup(fs, i, c) = Lookup(frames, i, c)
  BY <1>1, ConstantsAssumption, WithChildIs
<1> HIDE DEF fs
<1>3. /\ Len(left) = Depth
      /\ \A i \in 1 .. Depth : left[i].address = fs[i].address /\ left[i].isStatic = fs[i].isStatic
      /\ \A i \in 0 .. Depth : \A c \in Cell : Lookup(left, i, c) = Lookup(fs, i, c)
  BY <1>1, <1>2, ConstantsAssumption, RefusedIs DEF SameCall
<1> HIDE DEF left
<1>4. \A i \in 1 .. Depth : i \in 0 .. Depth
  BY <1>1
<1>5. QED
  BY <1>1, <1>2, <1>3, <1>4, StutterRefines

LEMMA CallAccountRefines ==
  ASSUME Inv, NEW kind \in CallKinds, NEW target \in Address, NEW amount \in Amounts,
         CallAccount(kind, target, amount)
  PROVE  \/ \E to \in Address, value \in Word : Nested!Pay(to, value)
         \/ UNCHANGED Nested!vars
<1> DEFINE t == Transferred(WithChild(kind, target), amount)
           ret == Succeeded(t)
           w == ViewIn(frames, Depth)
           n == Depth + 1
<1>1. /\ Depth > 0 /\ Depth \in Nat /\ Depth = Len(frames) /\ amount \in Word
      /\ kind \in {"delegatecall", "staticcall"} => amount = 0
      /\ CanTransfer(WithChild(kind, target), amount)
      /\ Step(ret) /\ chain \in World /\ Sound(frames)
  BY DepthFacts, ConstantsAssumption DEF CallAccount, Callable, ConstantsAssumption
<1>2. /\ Sound(t) /\ Len(t) = n
      /\ t[n].kind = kind
      /\ t[n].address = IF kind = "delegatecall" THEN Top.address ELSE target
      /\ t[n].isStatic <=> Top.isStatic \/ kind = "staticcall"
      /\ t[n].isStatic => amount = 0
      /\ \A i \in 1 .. Depth : t[i].address = frames[i].address /\ t[i].isStatic = frames[i].isStatic
      /\ \A i \in 1 .. Depth : \A c \in Cell : Lookup(t, i, c) = Lookup(frames, i, c)
      /\ ViewIn(t, n) = Nested!Move(w, Top.address, t[n].address, amount)
      /\ Nested!CanMove(w, Top.address, t[n].address, amount)
  BY <1>1, TransferRefines
<1> HIDE DEF t
<1>3. /\ Sound(ret) /\ Len(ret) = Depth
      /\ \A i \in 1 .. Depth : ret[i].address = t[i].address /\ ret[i].isStatic = t[i].isStatic
  <2>1. /\ Len(t) > 1 /\ Len(t) - 1 = Depth
        /\ \A i \in 1 .. Depth : i \in 1 .. Len(t) - 2 \/ i = Len(t) - 1
    BY <1>1, <1>2
  <2>2. Sound(ret)
    BY <1>2, <2>1, SucceededIsSound
  <2>3. /\ Len(ret) = Len(t) - 1
        /\ \A i \in 1 .. Len(t) - 2 : ret[i] = t[i]
        /\ ret[Len(t) - 1].address = t[Len(t) - 1].address
        /\ ret[Len(t) - 1].isStatic = t[Len(t) - 1].isStatic
    BY <1>2, <2>1, SucceededIs DEF Sound
  <2> HIDE DEF ret
  <2>4. QED
    BY <2>1, <2>2, <2>3
<1>4. \A i \in 1 .. Depth : \A c \in Cell :
        Lookup(ret, i, c) = IF i = Depth /\ Merges(t) THEN Lookup(t, n, c) ELSE Lookup(t, i, c)
  <2>1. Len(t) - 1 = Depth /\ Len(t) > 1 /\ \A i \in 1 .. Depth : i \in 0 .. Len(t) - 1
    BY <1>1, <1>2
  <2>2. QED
    BY <1>2, <2>1, SucceededViews
<1> HIDE DEF ret
<1>5. \A c \in Cell : Lookup(t, n, c) = Nested!Move(w, Top.address, t[n].address, amount)[c]
  <2>1. \A c \in Cell : ViewIn(t, n)[c] = Lookup(t, n, c)
    BY DEF ViewIn
  <2>2. QED
    BY <1>2, <2>1
<1>6. CASE amount = 0
  <2>1. Nested!Move(w, Top.address, t[n].address, amount) = w
    BY <1>6 DEF Nested!Move
  <2>2. \A c \in Cell : w[c] = Lookup(frames, Depth, c)
    BY DEF ViewIn
  <2>3. \A i \in 1 .. Depth : \A c \in Cell : Lookup(ret, i, c) = Lookup(frames, i, c)
    BY <1>2, <1>4, <1>5, <2>1, <2>2
  <2>4. UNCHANGED Nested!vars
    BY <1>1, <1>2, <1>3, <2>3, StutterRefines
  <2>5. QED
    BY <2>4
<1>7. CASE amount # 0
  <2>1. /\ kind # "staticcall" /\ ~Top.isStatic /\ t[n].address = target
    BY <1>1, <1>2, <1>7
  <2>2. Merges(t)
    <3>1. Top = frames[Depth] /\ Depth \in 1 .. Depth /\ n - 1 = Depth
      BY <1>1 DEF Top
    <3>2. QED
      BY <1>2, <2>1, <3>1 DEF Merges
  <2>3. ViewIn(ret, Depth) = ViewIn(t, n)
    <3>1. Depth \in 1 .. Depth
      BY <1>1
    <3>2. QED
      BY <1>4, <2>2, <3>1 DEF ViewIn
  <2>4. \A i \in 1 .. Depth - 1 : \A c \in Cell : Lookup(ret, i, c) = Lookup(frames, i, c)
    <3>1. \A i \in 1 .. Depth - 1 : i \in 1 .. Depth /\ i # Depth
      BY <1>1
    <3>2. QED
      BY <1>2, <1>4, <3>1
  <2>5. /\ CallStack' = [CallStack EXCEPT ![Len(CallStack)].world = ViewIn(ret, Depth)]
        /\ UNCHANGED <<chain, mode>>
    BY <1>1, <1>2, <1>3, <2>4, TopStep
  <2>6. /\ mode # "idle" /\ Nested!Top.world = w /\ Nested!Top.self = Top.address
        /\ Nested!Top.readOnly = Top.isStatic /\ Nested!Top = CallStack[Depth]
        /\ Len(CallStack) = Depth
    BY <1>1, CallStackFacts
  <2> HIDE DEF w
  <2>7. CallStack' = [CallStack EXCEPT ![Len(CallStack)].world =
                        Nested!Move(@, Nested!Top.self, target, amount)]
    BY <1>2, <2>1, <2>3, <2>5, <2>6
  <2>8. Nested!Pay(target, amount)
    BY <1>2, <2>1, <2>5, <2>6, <2>7 DEF Nested!Pay
  <2>9. QED
    BY <1>1, <2>8
<1>8. QED
  BY <1>6, <1>7

\* What an opened transaction amounts to, when its transfer can be made.
LEMMA OpeningRefines ==
  ASSUME Inv, NEW from \in Address, NEW to \in Address, NEW amount \in Word,
         CanTransfer(Opened(from, to), amount)
  PROVE  LET t == Transferred(Opened(from, to), amount)
         IN  /\ Sound(t) /\ Len(t) = 1
             /\ t[1].address = to /\ ~t[1].isStatic /\ t[1] \in Frame
             /\ ViewIn(t, 1) = Nested!Move(chain, from, to, amount)
             /\ Nested!CanMove(chain, from, to, amount)
<1> DEFINE fs == Opened(from, to)
           t == Transferred(fs, amount)
<1>1. /\ chain \in World /\ ConstantsAssumption
      /\ Sound(fs) /\ Len(fs) = 1
      /\ fs[1].caller = from /\ fs[1].address = to /\ ~fs[1].isStatic
      /\ \A i \in 0 .. 1 : \A c \in Cell : Lookup(fs, i, c) = chain[c]
      /\ CanTransfer(fs, amount)
  BY DepthFacts, ConstantsAssumption, OpenedIs
<1> HIDE DEF fs
<1>2. /\ Sound(t) /\ SameCalls(t, fs)
      /\ \A c \in Cell : Lookup(t, 1, c) = AfterMove(fs, from, to, amount, c)
      /\ Covered(fs, from, to, amount)
  BY <1>1, TransferredIs
<1>3. ViewIn(fs, 1) = chain
  BY <1>1 DEF ViewIn, World
<1>4. /\ ViewIn(t, 1) = [c \in Cell |-> AfterMove(fs, from, to, amount, c)]
  BY <1>2 DEF ViewIn
<1>5. /\ [c \in Cell |-> AfterMove(fs, from, to, amount, c)]
           = Nested!Move(ViewIn(fs, Len(fs)), from, to, amount)
      /\ Covered(fs, from, to, amount) <=> Nested!CanMove(ViewIn(fs, Len(fs)), from, to, amount)
  <2>1. chain \in World /\ ConstantsAssumption /\ Sound(fs) /\ Len(fs) > 0
    BY <1>1
  <2>2. QED
    BY <2>1, MoveIs
<1> HIDE DEF t
<1>6. Len(t) = 1 /\ t[1].address = to /\ ~t[1].isStatic
  BY <1>1, <1>2 DEF SameCalls, SameCall
<1>7. t[1] \in Frame
  BY <1>2, <1>6, ElementOfSeq DEF Sound
<1>8. QED
  BY <1>1, <1>2, <1>3, <1>4, <1>5, <1>6, <1>7 DEF t, fs

LEMMA BeginRefines ==
  ASSUME Inv, NEW m \in {"simulate", "execute"},
         NEW from \in Sender, NEW to \in Address, NEW amount \in Amounts,
         Begin(m, from, to, amount)
  PROVE  Nested!Begin(m, from, to, amount)
<1> DEFINE t == Transferred(Opened(from, to), amount)
           r == StackOf(t)[1]
<1>1. /\ from \in Address /\ amount \in Word /\ chain \in World
      /\ mode = "idle" /\ mode' = m /\ frames' = t /\ UNCHANGED chain
      /\ CanTransfer(Opened(from, to), amount)
  BY DepthFacts, ConstantsAssumption DEF Begin, Started, ConstantsAssumption
<1>2. /\ Sound(t) /\ Len(t) = 1
      /\ t[1].address = to /\ ~t[1].isStatic /\ t[1] \in Frame
      /\ ViewIn(t, 1) = Nested!Move(chain, from, to, amount)
      /\ Nested!CanMove(chain, from, to, amount)
  BY <1>1, OpeningRefines
<1> HIDE DEF t
<1>3. /\ StackOf(t) \in Seq(CallRecord) /\ Len(StackOf(t)) = 1
      /\ r \in CallRecord
      /\ r = [world |-> ViewIn(t, 1), self |-> t[1].address, readOnly |-> t[1].isStatic]
  <2>1. 1 \in 1 .. Len(t)
    BY <1>2
  <2>2. StackOf(t) \in Seq(CallRecord) /\ Len(StackOf(t)) = 1 /\ r \in CallRecord
    BY <1>1, <1>2, <2>1, StackOfIs
  <2>3. r = [world |-> ViewIn(t, 1), self |-> t[1].address, readOnly |-> t[1].isStatic]
    BY <2>1 DEF StackOf
  <2>4. QED
    BY <2>2, <2>3
<1>4. t[1].isStatic = FALSE
  BY <1>2, FrameFacts
<1>5. StackOf(t) = <<r>>
  <2> DEFINE s == StackOf(t)
  <2>1. s \in Seq(CallRecord) /\ Len(s) = 1 /\ s[1] = r /\ r \in CallRecord
    BY <1>3
  <2> HIDE DEF s, r
  <2>2. <<r>> \in Seq(CallRecord) /\ Len(<<r>>) = 1 /\ <<r>>[1] = r
    BY <2>1
  <2>3. \A i \in 1 .. 1 : s[i] = <<r>>[i]
    BY <2>1, <2>2
  <2>4. s = <<r>>
    BY <2>1, <2>2, <2>3, SeqEqual
  <2>5. QED
    BY <2>4 DEF s
<1>6. CallStack' = StackOf(t)
  BY <1>1, NextCallStackIs
<1> HIDE DEF r
<1>7. CallStack' = <<[world |-> Nested!Move(chain, from, to, amount), self |-> to, readOnly |-> FALSE]>>
  BY <1>2, <1>3, <1>4, <1>5, <1>6
<1>8. QED
  BY <1>1, <1>2, <1>7 DEF Nested!Begin

LEMMA EmptyCallStack ==
  ASSUME frames = <<>>
  PROVE  CallStack = <<>>
<1>1. Depth = 0
  BY Len(<<>>) = 0 DEF Depth
<1>2. QED
  BY <1>1 DEF CallStack

\* Writing the outermost context to the provider commits what it sees.
LEMMA WriteToChainIs ==
  ASSUME chain \in World, NEW fs, Sound(fs), Len(fs) = 1
  PROVE  WriteToChain(fs[1]) = ViewIn(fs, 1)
<1>1. \A c \in Cell : Lookup(fs, 1, c) = IF Has(fs[1], c) THEN fs[1].overlay[c] ELSE chain[c]
  <2> SUFFICES ASSUME NEW c \in Cell
               PROVE  Lookup(fs, 1, c) = IF Has(fs[1], c) THEN fs[1].overlay[c] ELSE chain[c]
    OBVIOUS
  <2>1. PICK h \in 0 .. Len(fs) : HeldUpTo(fs, c, h)
    BY DEF Sound, Nests
  <2>2. Has(fs[1], c) <=> 1 <= h
    BY <2>1 DEF HeldUpTo
  <2>3. h \in 0 .. 1 /\ fs \in Seq(Frame) /\ 1 \in 0 .. Len(fs)
    BY <2>1 DEF Sound
  <2>4. Lookup(fs, 1, c) = IF 1 = 0 \/ h = 0 THEN chain[c]
                           ELSE IF 1 <= h THEN fs[1].overlay[c] ELSE fs[h].overlay[c]
    BY <2>1, <2>3, LookupIs
  <2>5. QED
    BY <2>2, <2>3, <2>4
<1>2. QED
  BY <1>1 DEF WriteToChain, ViewIn

LEMMA TransferToAccountRefines ==
  ASSUME Inv, NEW m \in {"simulate", "execute"},
         NEW from \in Sender, NEW to \in Address, NEW amount \in Amounts,
         TransferToAccount(m, from, to, amount)
  PROVE  Nested!Transfer(m, from, to, amount)
<1> DEFINE t == Transferred(Opened(from, to), amount)
<1>1. /\ from \in Address /\ amount \in Word /\ chain \in World
      /\ mode = "idle" /\ UNCHANGED <<frames, mode>> /\ frames = <<>>
      /\ chain' = IF m = "execute" THEN WriteToChain(t[1]) ELSE chain
      /\ CanTransfer(Opened(from, to), amount)
  <2>1. from \in Address /\ amount \in Word
    BY ConstantsAssumption DEF ConstantsAssumption
  <2>2. mode = "idle"
    BY DEF TransferToAccount, Started
  <2>3. chain \in World /\ frames = <<>>
    BY <2>2 DEF Inv, TypeOK
  <2>4. QED
    BY <2>1, <2>2, <2>3 DEF TransferToAccount
<1>2. /\ Sound(t) /\ Len(t) = 1
      /\ ViewIn(t, 1) = Nested!Move(chain, from, to, amount)
      /\ Nested!CanMove(chain, from, to, amount)
  BY <1>1, OpeningRefines
<1> HIDE DEF t
<1>3. WriteToChain(t[1]) = Nested!Move(chain, from, to, amount)
  BY <1>1, <1>2, WriteToChainIs
<1>4. CallStack = <<>> /\ CallStack' = <<>>
  BY <1>1, EmptyCallStack, Len(<<>>) = 0 DEF CallStack, Depth
<1>5. QED
  BY <1>1, <1>2, <1>3, <1>4 DEF Nested!Transfer

LEMMA InsufficientEthRefines ==
  ASSUME NEW from, NEW to, NEW amount, InsufficientEth(from, to, amount)
  PROVE  UNCHANGED Nested!vars
BY DEF InsufficientEth, Nested!vars, CallStack, View, Lookup, Depth

LEMMA FinishRefines ==
  ASSUME Inv, NEW success \in BOOLEAN, Finish(success)
  PROVE  Nested!Finish(success)
<1>1. /\ Depth = 1 /\ Depth = Len(frames) /\ Sound(frames) /\ chain \in World
      /\ Top = frames[1] /\ Depth > 0
  <2>1. Depth = 1 /\ Depth > 0
    BY DEF Finish
  <2>2. Depth = Len(frames) /\ Sound(frames) /\ chain \in World
    BY DepthFacts
  <2>3. QED
    BY <2>1, <2>2 DEF Top
<1>2. WriteToChain(Top) = ViewIn(frames, 1)
  BY <1>1, WriteToChainIs
<1>3. Len(CallStack) = 1 /\ Nested!Top.world = ViewIn(frames, 1)
  BY <1>1, CallStackFacts
<1>4. CallStack' = <<>>
  BY Len(<<>>) = 0 DEF Finish, CallStack, Depth
<1>5. QED
  BY <1>2, <1>3, <1>4 DEF Finish, Nested!Finish

LEMMA InitRefines == ASSUME Init PROVE Nested!Init
BY EmptyCallStack DEF Init, Nested!Init

\* The only steps whose refinement depends on the provider.
ReadsOrWritesStorage ==
  \/ \E k \in Key : SLoad(k)
  \/ \E k \in Key, value \in StoredValues : SStore(k, value)

LEMMA NextRefines ==
  ASSUME Inv, ReadsOrWritesStorage => ~ProviderMayFail, [Next]_vars
  PROVE  [Nested!Next]_(Nested!vars)
<1>0. ConstantsAssumption /\ Word = Nested!Word
  BY ConstantsAssumption DEF Word, Nested!Word
<1>1. CASE Transaction
  <2>1. PICK from \in Sender, to \in Address, amount \in Amounts :
          \/ \E m \in {"simulate", "execute"} :
               Begin(m, from, to, amount) \/ TransferToAccount(m, from, to, amount)
          \/ InsufficientEth(from, to, amount)
    BY <1>1 DEF Transaction
  <2>2. from \in Address /\ amount \in Nested!Word
    BY <1>0 DEF ConstantsAssumption
  <2>3. CASE InsufficientEth(from, to, amount)
    BY <2>3, InsufficientEthRefines
  <2>4. ASSUME NEW m \in {"simulate", "execute"},
               Begin(m, from, to, amount) \/ TransferToAccount(m, from, to, amount)
        PROVE  Nested!Next
    <3>1. m \in Nested!Modes
      BY DEF Nested!Modes
    <3>2. Nested!Begin(m, from, to, amount) \/ Nested!Transfer(m, from, to, amount)
      BY <2>4, BeginRefines, TransferToAccountRefines
    <3>3. QED
      BY <2>2, <3>1, <3>2 DEF Nested!Next
  <2>5. QED
    BY <2>1, <2>3, <2>4
<1>2. CASE Instruction
  <2>1. ASSUME NEW k \in Key, NEW v \in StoredValues, SStore(k, v)
        PROVE  Nested!Next
    <3>1. v \in Nested!Word /\ Nested!Store(k, v)
      BY <1>0, <2>1, SStoreRefines DEF ConstantsAssumption, ReadsOrWritesStorage
    <3>2. QED
      BY <3>1 DEF Nested!Next
  <2>2. QED
    BY <1>2, <2>1, SLoadRefines, BalanceOfRefines, TLoadRefines, TStoreRefines
       DEF Instruction, ReadsOrWritesStorage
<1>3. CASE CallInstruction
  <2>1. PICK kind \in CallKinds, target \in Address, amount \in Amounts :
          \/ Call(kind, target, amount)
          \/ CallAccount(kind, target, amount)
          \/ CallRefused(kind, target, amount)
    BY <1>3 DEF CallInstruction
  <2>2. CASE Call(kind, target, amount)
    BY <1>0, <2>2, CallRefines DEF Nested!Next
  <2>3. CASE CallAccount(kind, target, amount)
    BY <1>0, <2>3, CallAccountRefines DEF Nested!Next
  <2>4. CASE CallRefused(kind, target, amount)
    BY <2>4, CallRefusedRefines
  <2>5. QED
    BY <2>1, <2>2, <2>3, <2>4
<1>4. CASE Return
  BY <1>4, ReturnRefines DEF Nested!Next
<1>5. CASE Fail
  BY <1>5, FailRefines DEF Nested!Next
<1>6. CASE \E success \in BOOLEAN : Finish(success)
  BY <1>6, FinishRefines DEF Nested!Next
<1>7. CASE UNCHANGED vars
  BY <1>7 DEF vars, Nested!vars, CallStack, View, Lookup, Depth
<1>8. QED
  BY <1>1, <1>2, <1>3, <1>4, <1>5, <1>6, <1>7 DEF Next

\* A call hands its caller exactly what it should, given how it ended, and so
\* does a transaction the chain (callRaw, EVM::execute), short answers of the
\* provider included.
THEOREM OutcomesAlwaysDecide == Spec => OutcomesDecide
<1>1. Inv /\ [Next]_vars =>
        [/\ Return => Nested!Return
         /\ Fail => Nested!Fail
         /\ \A success \in BOOLEAN : Finish(success) => Nested!Finish(success)]_vars
  BY ReturnRefines, FailRefines, FinishRefines
<1>2. QED
  BY <1>1, InvHolds, PTL DEF Spec, OutcomesDecide

\* The contexts behave as private copies of the world: with a provider that
\* answers every request, EVM::simulate, EVM::execute, callRaw and the context
\* operations implement NestedState, for any accounts, keys and call depth.
THEOREM ContextsImplementNestedState ==
  ~ProviderMayFail => (Spec => ImplementsNestedState)
<1> SUFFICES ASSUME ~ProviderMayFail
             PROVE  Spec => Nested!Spec
  BY DEF ImplementsNestedState
<1>1. Init => Nested!Init
  BY InitRefines
<1>2. Inv /\ [Next]_vars => [Nested!Next]_(Nested!vars)
  BY NextRefines
<1>3. QED
  BY <1>1, <1>2, InvHolds, PTL DEF Spec, Nested!Spec

-----------------------------------------------------------------------------
(* Value is conserved.  The total is one of NestedState's worlds, so it is   *)
(* followed through the steps that the contexts' steps map to; only reads    *)
(* and writes of storage are looked at directly, because a provider that     *)
(* answers too few slots is not one that NestedState allows for.             *)

LEMMA TotalsWrap ==
  ASSUME NEW n \in Nat \ {0}, NEW x \in Int
  PROVE  (x - n) % n = x % n
<1> DEFINE q == x \div n
           r == x % n
           p == (x - n) \div n
           s == (x - n) % n
<1>1. q \in Int /\ r \in 0 .. n - 1 /\ x = n * q + r
  OBVIOUS
<1>2. p \in Int /\ s \in 0 .. n - 1 /\ x - n = n * p + s
  OBVIOUS
<1> HIDE DEF q, r, p, s
<1>3. n * (q - 1 - p) = s - r
  BY <1>1, <1>2
<1>4. q - 1 - p = 0
  <2> DEFINE d == q - 1 - p
  <2>1. d \in Int /\ n * d = s - r /\ s - r < n /\ s - r > 0 - n
    BY <1>1, <1>2, <1>3
  <2> HIDE DEF d
  <2>2. CASE d >= 1
    <3>1. n * d >= n
      BY <2>1, <2>2
    <3>2. QED
      BY <2>1, <3>1
  <2>3. CASE d <= -1
    <3>1. n * d <= 0 - n
      BY <2>1, <2>3
    <3>2. QED
      BY <2>1, <3>1
  <2>4. QED
    BY <2>1, <2>2, <2>3 DEF d
<1>5. s = r
  BY <1>1, <1>2, <1>3, <1>4
<1>6. QED
  BY <1>5 DEF s, r

Balances(w) == [x \in Address |-> w[<<x, Balance>>]]

LEMMA BalancesAre ==
  ASSUME NEW w \in World
  PROVE  \A x \in Address : <<x, Balance>> \in Cell /\ Balances(w)[x] \in Word /\ Balances(w)[x] \in Int
<1>1. Word \subseteq Int
  BY DEF Word
<1>2. QED
  BY <1>1 DEF Balances, Cell, World

LEMMA SameBalances ==
  ASSUME NEW w, NEW v, \A x \in Address : w[<<x, Balance>>] = v[<<x, Balance>>]
  PROVE  TotalBalance(w) = TotalBalance(v)
<1>1. Balances(w) = Balances(v)
  BY DEF Balances
<1>2. QED
  BY <1>1 DEF TotalBalance, Balances

\* Moving value between two accounts changes neither the total nor the types.
LEMMA MoveKeepsTotal ==
  ASSUME ConstantsAssumption, SupplyAssumption,
         NEW w \in World, NEW from \in Address, NEW to \in Address, NEW amount \in Word,
         Nested!CanMove(w, from, to, amount)
  PROVE  TotalBalance(Nested!Move(w, from, to, amount)) = TotalBalance(w)
<1> DEFINE m == Nested!Move(w, from, to, amount)
           f == Balances(w)
           g == Balances(m)
<1>1. CASE amount = 0 \/ from = to
  BY <1>1 DEF Nested!Move
<1>2. CASE ~(amount = 0 \/ from = to)
  <2>1. /\ <<from, Balance>> \in Cell /\ <<to, Balance>> \in Cell
        /\ w[<<from, Balance>>] \in Word /\ w[<<to, Balance>>] \in Word
        /\ w[<<from, Balance>>] >= amount
    BY <1>2, BalancesAre DEF Nested!CanMove, World, Cell
  <2>2. m = [w EXCEPT ![<<from, Balance>>] = @ - amount,
                      ![<<to, Balance>>] = Nested!AddWord(@, amount)]
    BY <1>2 DEF Nested!Move
  <2>3. /\ \A x \in Address \ {from, to} : g[x] = f[x]
        /\ g[from] = f[from] - amount
        /\ g[to] = Nested!AddWord(f[to], amount)
    BY <1>2, <2>1, <2>2 DEF Balances, World, Cell
  <2>4. f[from] \in Word /\ f[to] \in Word /\ f[from] >= amount /\ WordMod \in Nat \ {0}
    BY <2>1 DEF Balances, ConstantsAssumption
  <2>5. g[to] = f[to] + amount \/ g[to] = f[to] + amount - WordMod
    BY <2>3 DEF Nested!AddWord
  <2> HIDE DEF m
  <2>6. \A x \in Address : f[x] \in Int /\ g[x] \in Int
    <3>1. \A x \in Address : f[x] \in Int
      BY BalancesAre
    <3>2. g[from] \in Int /\ g[to] \in Int
      BY <2>3, <2>4, <2>5 DEF Word
    <3>3. QED
      BY <2>3, <3>1, <3>2
  <2> DEFINE a == SumFunctionOnSet(f, Address)
             b == SumFunctionOnSet(g, Address)
  <2> HIDE DEF f, g
  <2>7. b = a + (g[from] - f[from]) + (g[to] - f[to])
    <3>1. IsFiniteSet(Address)
      BY DEF SupplyAssumption
    <3>2. from # to /\ \A x \in Address : x # from /\ x # to => g[x] = f[x]
      BY <1>2, <2>3
    <3>3. SumFunctionOnSet(g, Address)
            = SumFunctionOnSet(f, Address) + (g[from] - f[from]) + (g[to] - f[to])
      <4>1. \A y, z \in Address :
              y # z /\ (\A x \in Address : x # y /\ x # z => g[x] = f[x]) =>
                SumFunctionOnSet(g, Address)
                  = SumFunctionOnSet(f, Address) + (g[y] - f[y]) + (g[z] - f[z])
        BY <2>6, <3>1, SumChangesAtTwo
      <4>2. QED
        BY <3>2, <4>1
    <3>4. QED
      BY <3>3
  <2>8. a \in Int
    BY <2>6, SumInt DEF SupplyAssumption
  <2>9. f[from] \in Int /\ f[to] \in Int /\ g[to] \in Int /\ g[from] \in Int /\ amount \in Int
    BY <2>6 DEF Word
  <2> HIDE DEF a, b
  <2>10. b = a \/ b = a - WordMod
    BY <2>3, <2>5, <2>7, <2>8, <2>9, <2>4
  <2>11. b % WordMod = a % WordMod
    BY <2>4, <2>8, <2>10, TotalsWrap
  <2>12. QED
    BY <2>11 DEF a, b, f, g, m, Balances, TotalBalance
<1>3. QED
  BY <1>1, <1>2

\* The chain and every running call account for the supply.
SuppliesHold(world, calls) ==
  /\ TotalBalance(world) = Supply
  /\ \A i \in 1 .. Len(calls) : TotalBalance(calls[i].world) = Supply

LEMMA SupplyOfStack ==
  chain \in World /\ Sound(frames) => (SupplyConserved <=> SuppliesHold(chain, CallStack))
<1> SUFFICES ASSUME chain \in World, Sound(frames)
             PROVE  SupplyConserved <=> SuppliesHold(chain, CallStack)
  OBVIOUS
<1>1. Depth = Len(frames) /\ Depth \in Nat /\ Len(CallStack) = Depth
      /\ \A i \in 1 .. Depth : CallStack[i].world = View(i)
  BY CallStackIs, StackOfIs DEF Depth, View, ViewIn
<1>2. TotalBalance(View(0)) = TotalBalance(chain)
  <2>1. \A x \in Address : <<x, Balance>> \in Cell
    BY DEF Cell
  <2>2. \A x \in Address : View(0)[<<x, Balance>>] = chain[<<x, Balance>>]
    BY <2>1, LookupChain DEF View
  <2>3. QED
    BY <2>2, SameBalances
<1>3. \A i \in 0 .. Depth : i = 0 \/ i \in 1 .. Depth
  BY <1>1
<1>4. 0 \in 0 .. Depth /\ \A i \in 1 .. Depth : i \in 0 .. Depth
  BY <1>1
<1>5. QED
  BY <1>1, <1>2, <1>3, <1>4 DEF SupplyConserved, SuppliesHold

\* NestedState's steps keep the total of every world.
LEMMA NestedKeepsSupply ==
  ASSUME ConstantsAssumption, SupplyAssumption,
         chain \in World, CallStack \in Seq(CallRecord),
         mode # "idle" => Len(CallStack) > 0,
         SuppliesHold(chain, CallStack), Nested!Next
  PROVE  SuppliesHold(chain', CallStack')
<1> DEFINE n == Len(CallStack)
           Holds(w) == TotalBalance(w) = Supply
<1>1. /\ n \in Nat /\ \A i \in 1 .. n : CallStack[i] \in CallRecord /\ CallStack[i].world \in World
      /\ Holds(chain) /\ \A i \in 1 .. n : Holds(CallStack[i].world)
  <2>1. n \in Nat /\ \A i \in 1 .. n : CallStack[i] \in CallRecord
    BY LenProperties, ElementOfSeq
  <2>2. \A r \in CallRecord : r.world \in World
    BY DEF CallRecord
  <2>3. QED
    BY <2>1, <2>2 DEF SuppliesHold
<1>2. Nested!Word = Word /\ \A i \in 1 .. n - 1 : i \in 1 .. n
  BY <1>1 DEF Nested!Word, Word
<1>3. \A w \in World, from, to \in Address, amount \in Word :
        Holds(w) /\ Nested!CanMove(w, from, to, amount) => Holds(Nested!Move(w, from, to, amount))
  BY MoveKeepsTotal
<1> DEFINE top == CallStack[n]
<1>4. n > 0 => /\ Nested!Top = top /\ top.world \in World /\ top.self \in Address /\ Holds(top.world)
               /\ top \in CallRecord
  BY <1>1 DEF Nested!Top, CallRecord
<1>5. n > 1 => /\ Nested!Below \in Seq(CallRecord) /\ Len(Nested!Below) = n - 1
               /\ \A i \in 1 .. n - 1 : Nested!Below[i] = CallStack[i]
  BY <1>1 DEF Nested!Below
<1>6. ASSUME NEW m \in Nested!Modes, NEW from \in Address, NEW to \in Address,
             NEW amount \in Word, Nested!Begin(m, from, to, amount)
      PROVE  SuppliesHold(chain', CallStack')
  <2> DEFINE r == [world |-> Nested!Move(chain, from, to, amount), self |-> to, readOnly |-> FALSE]
  <2>1. CallStack' = <<r>> /\ chain' = chain /\ Holds(r.world)
    BY <1>1, <1>3, <1>6 DEF Nested!Begin
  <2> HIDE DEF r
  <2>2. Len(<<r>>) = 1 /\ \A i \in 1 .. 1 : <<r>>[i] = r
    OBVIOUS
  <2>3. QED
    BY <1>1, <2>1, <2>2 DEF SuppliesHold
<1>7. ASSUME NEW m \in Nested!Modes, NEW from \in Address, NEW to \in Address,
             NEW amount \in Word, Nested!Transfer(m, from, to, amount)
      PROVE  SuppliesHold(chain', CallStack')
  <2>1. CallStack' = CallStack /\ (chain' = chain \/ chain' = Nested!Move(chain, from, to, amount))
    BY <1>7 DEF Nested!Transfer
  <2>2. Holds(chain')
    BY <1>1, <1>3, <1>7, <2>1 DEF Nested!Transfer
  <2>3. QED
    BY <1>1, <2>1, <2>2 DEF SuppliesHold
\* The steps that give the last call another world of the same total.
<1>8. ASSUME NEW w, Holds(w), n > 0, CallStack' = [CallStack EXCEPT ![n].world = w], chain' = chain
      PROVE  SuppliesHold(chain', CallStack')
  <2>1. /\ Len(CallStack') = n
        /\ \A i \in 1 .. n : CallStack'[i].world = IF i = n THEN w ELSE CallStack[i].world
    BY <1>1, <1>4, <1>8 DEF CallRecord
  <2>2. QED
    BY <1>1, <1>8, <2>1 DEF SuppliesHold
<1>9. ASSUME NEW k \in Key, NEW v \in Word, Nested!Store(k, v)
      PROVE  SuppliesHold(chain', CallStack')
  <2> DEFINE w == [top.world EXCEPT ![<<top.self, k>>] = v]
  <2>1. /\ n > 0 /\ chain' = chain
        /\ CallStack' = [CallStack EXCEPT ![n].world[<<Nested!Top.self, k>>] = v]
    BY <1>9 DEF Nested!Store
  <2>2. CallStack' = [CallStack EXCEPT ![n].world = w]
    BY <1>1, <1>4, <2>1
  <2>3. \A x \in Address : w[<<x, Balance>>] = top.world[<<x, Balance>>]
    BY <1>4, <2>1 DEF World, Cell, ConstantsAssumption
  <2> HIDE DEF w
  <2>4. Holds(w)
    BY <1>4, <2>1, <2>3, SameBalances
  <2>5. QED
    BY <1>8, <2>1, <2>2, <2>4
<1>10. ASSUME NEW to \in Address, NEW amount \in Word, Nested!Pay(to, amount)
       PROVE  SuppliesHold(chain', CallStack')
  <2> DEFINE w == Nested!Move(top.world, top.self, to, amount)
  <2>1. /\ n > 0 /\ chain' = chain
        /\ CallStack' = [CallStack EXCEPT ![n].world = Nested!Move(@, Nested!Top.self, to, amount)]
        /\ Nested!CanMove(Nested!Top.world, Nested!Top.self, to, amount)
    BY <1>10 DEF Nested!Pay
  <2>2. CallStack' = [CallStack EXCEPT ![n].world = w]
    BY <1>1, <1>4, <2>1
  <2>3. Holds(w)
    BY <1>3, <1>4, <2>1
  <2> HIDE DEF w
  <2>4. QED
    BY <1>8, <2>1, <2>2, <2>3
<1>11. ASSUME NEW self \in Address, NEW amount \in Word, NEW readOnly \in BOOLEAN,
              Nested!Open(self, amount, readOnly)
       PROVE  SuppliesHold(chain', CallStack')
  <2> DEFINE r == [world |-> Nested!Move(Nested!Top.world, Nested!Top.self, self, amount),
                   self |-> self, readOnly |-> readOnly]
  <2>1. /\ n > 0 /\ chain' = chain /\ CallStack' = Append(CallStack, r)
        /\ Nested!CanMove(Nested!Top.world, Nested!Top.self, self, amount)
    BY <1>11 DEF Nested!Open
  <2>2. Holds(r.world)
    BY <1>3, <1>4, <2>1
  <2> HIDE DEF r
  <2>3. /\ Len(CallStack') = n + 1 /\ n \in Nat
        /\ \A i \in 1 .. n + 1 : CallStack'[i] = IF i = n + 1 THEN r ELSE CallStack[i]
    BY <1>1, <2>1
  <2>4. \A i \in 1 .. n + 1 : i = n + 1 \/ i \in 1 .. n
    BY <2>3
  <2>5. QED
    BY <1>1, <2>1, <2>2, <2>3, <2>4 DEF SuppliesHold
<1>12. ASSUME Nested!Fail
       PROVE  SuppliesHold(chain', CallStack')
  <2>1. n > 1 /\ CallStack' = Nested!Below /\ chain' = chain
    BY <1>12 DEF Nested!Fail
  <2>2. QED
    BY <1>1, <1>2, <1>5, <2>1 DEF SuppliesHold
<1>13. ASSUME Nested!Return
       PROVE  SuppliesHold(chain', CallStack')
  <2> DEFINE below == Nested!Below
  <2>1. /\ n > 1 /\ chain' = chain
        /\ CallStack' = IF Nested!Top.readOnly THEN below
                        ELSE [below EXCEPT ![n - 1].world = Nested!Top.world]
    BY <1>13 DEF Nested!Return
  <2>2. /\ below \in Seq(CallRecord) /\ Len(below) = n - 1 /\ n - 1 \in Nat
        /\ \A i \in 1 .. n - 1 : below[i] \in CallRecord /\ Holds(below[i].world)
    BY <1>1, <1>2, <1>5, <2>1
  <2> HIDE DEF below
  <2>3. /\ Len(CallStack') = n - 1
        /\ \A i \in 1 .. n - 1 : CallStack'[i].world \in {below[i].world, Nested!Top.world}
    BY <2>1, <2>2 DEF CallRecord
  <2>4. QED
    BY <1>1, <1>4, <2>1, <2>2, <2>3 DEF SuppliesHold
<1>14. ASSUME NEW success \in BOOLEAN, Nested!Finish(success)
       PROVE  SuppliesHold(chain', CallStack')
  <2>1. n = 1 /\ CallStack' = <<>> /\ chain' \in {Nested!Top.world, chain}
    BY <1>14 DEF Nested!Finish
  <2>2. QED
    BY <1>1, <1>4, <2>1, Len(<<>>) = 0 DEF SuppliesHold
<1>15. QED
  BY <1>2, <1>6, <1>7, <1>9, <1>10, <1>11, <1>12, <1>13, <1>14 DEF Nested!Next

\* A read leaves every view of the other cells as it was, whatever it answers.
LEMMA ReadViewsElsewhere ==
  ASSUME chain \in World, ConstantsAssumption,
         NEW fs, Sound(fs), Len(fs) > 0, NEW cell \in Cell, NEW v \in Word,
         NEW c \in Cell, c # cell, NEW i \in 0 .. Len(fs)
  PROVE  Lookup(ReadThrough(fs, cell, v), i, c) = Lookup(fs, i, c)
<1> DEFINE n == Len(fs)
           read == ReadThrough(fs, cell, v)
<1>1. fs \in Seq(Frame) /\ n \in Nat
  BY LenProperties DEF Sound
<1>2. /\ read \in Seq(Frame) /\ Len(read) = n
      /\ \A j \in 1 .. n : read[j].overlay[c] = fs[j].overlay[c]
  BY ReadThroughIs DEF SameCalls, SameCall
<1>3. PICK m \in 0 .. n : HeldUpTo(fs, c, m)
  BY DEF Sound, Nests
<1> HIDE DEF read
<1>4. HeldUpTo(read, c, m)
  BY <1>2, <1>3 DEF HeldUpTo, Has
<1>5. \A j \in 1 .. n : j \in 0 .. n
  BY <1>1
<1>6. i = 0 \/ i \in 1 .. n
  BY <1>1
<1>7. m = 0 \/ m \in 1 .. n
  BY <1>1
<1>8. Lookup(fs, i, c) = IF i = 0 \/ m = 0 THEN chain[c]
                         ELSE IF i <= m THEN fs[i].overlay[c] ELSE fs[m].overlay[c]
  BY <1>1, <1>3, LookupIs
<1>9. Lookup(read, i, c) = IF i = 0 \/ m = 0 THEN chain[c]
                           ELSE IF i <= m THEN read[i].overlay[c] ELSE read[m].overlay[c]
  BY <1>1, <1>2, <1>4, LookupIs
<1>10. QED
  BY <1>2, <1>6, <1>7, <1>8, <1>9 DEF read

\* Reads and writes of storage leave every view of the balances as it was.
LEMMA StorageKeepsSupply ==
  ASSUME Inv, SupplyConserved,
         NEW k \in Key, SLoad(k) \/ \E value \in StoredValues : SStore(k, value)
  PROVE  SupplyConserved'
<1> DEFINE cell == <<Top.address, k>>
<1>1. /\ Depth > 0 /\ cell \in Cell /\ Depth = Len(frames) /\ Depth \in Nat
      /\ chain \in World /\ Sound(frames) /\ ConstantsAssumption
  BY OwnCell, DepthFacts, ConstantsAssumption DEF SLoad, SStore
<1>2. \A x \in Address : <<x, Balance>> \in Cell /\ <<x, Balance>> # cell
  BY <1>1 DEF Cell, ConstantsAssumption
<1> HIDE DEF cell
<1>3. PICK v \in SlotValues(frames, cell) : \E fs :
        /\ Step(fs)
        /\ \/ fs = ReadThrough(frames, cell, v)
           \/ \E value \in StoredValues : fs = Put(ReadThrough(frames, cell, v), cell, value)
  BY DEF SLoad, SStore, cell
<1>4. PICK fs :
        /\ Step(fs)
        /\ \/ fs = ReadThrough(frames, cell, v)
           \/ \E value \in StoredValues : fs = Put(ReadThrough(frames, cell, v), cell, value)
  BY <1>3
<1> DEFINE read == ReadThrough(frames, cell, v)
<1>5. v \in Word /\ (Holder(frames, Len(frames), cell) = 0 \/ v = Lookup(frames, Len(frames), cell))
  BY <1>1, SlotValueIs
<1>6. /\ Sound(read) /\ Len(read) = Depth /\ Has(read[Len(read)], cell)
  BY <1>1, <1>5, ReadIsSound DEF SameCalls, SameCall
<1>7. \A i \in 0 .. Depth : \A x \in Address :
        Lookup(read, i, <<x, Balance>>) = Lookup(frames, i, <<x, Balance>>)
  BY <1>1, <1>2, <1>5, ReadViewsElsewhere
<1> HIDE DEF read
<1>8. /\ Len(fs) = Depth
      /\ \A i \in 0 .. Depth : \A x \in Address :
           Lookup(fs, i, <<x, Balance>>) = Lookup(frames, i, <<x, Balance>>)
  <2>1. CASE fs = read
    BY <1>6, <1>7, <2>1
  <2>2. ASSUME NEW value \in StoredValues, fs = Put(read, cell, value)
        PROVE  <1>8!1 /\ <1>8!2
    <3>1. value \in Word
      BY <1>1 DEF ConstantsAssumption
    <3>2. \A i \in 0 .. Len(read) : \A c \in Cell :
            Lookup(fs, i, c) = IF i = Len(read) /\ c = cell THEN value ELSE Lookup(read, i, c)
      BY <1>1, <1>6, <2>2, <3>1, PutViews
    <3>3. Len(fs) = Depth
      BY <1>1, <1>6, <2>2, <3>1, PutIs DEF SameCalls, SameCall, Sound
    <3>4. QED
      BY <1>2, <1>6, <1>7, <3>2, <3>3
  <2>3. QED
    BY <1>4, <2>1, <2>2 DEF read
<1>9. Depth' = Depth /\ chain' = chain /\ frames' = fs
  BY <1>1, <1>4, <1>8 DEF Step, Depth
<1>10. \A i \in 0 .. Depth : TotalBalance(View(i)') = TotalBalance(View(i))
  <2> SUFFICES ASSUME NEW i \in 0 .. Depth
               PROVE  TotalBalance(View(i)') = TotalBalance(View(i))
    OBVIOUS
  <2>1. \A x \in Address : View(i)'[<<x, Balance>>] = View(i)[<<x, Balance>>]
    <3>1. View(i)' = [c \in Cell |-> Lookup(fs, i, c)]
      BY <1>9 DEF View, Lookup
    <3>2. QED
      BY <1>2, <1>8, <3>1 DEF View
  <2>2. QED
    BY <2>1, SameBalances
<1>11. QED
  BY <1>9, <1>10 DEF SupplyConserved, TotalBalance

\* A step that NestedState has keeps the supply.
LEMMA RefiningKeepsSupply ==
  ASSUME Inv, Inv', SupplyConserved, [Nested!Next]_(Nested!vars)
  PROVE  SupplyConserved'
<1>1. /\ chain \in World /\ Sound(frames) /\ ConstantsAssumption /\ SupplyAssumption
      /\ CallStack \in Seq(CallRecord)
  BY DepthFacts, ConstantsAssumption, SupplyAssumption, CallStackIs, StackOfIs
<1>2. SuppliesHold(chain, CallStack)
  BY <1>1, SupplyOfStack
<1>3. (chain \in World /\ Sound(frames))'
  BY DEF Inv, TypeOK
<1>4. SuppliesHold(chain, CallStack)'
  <2>1. CASE Nested!Next
    <3>1. mode # "idle" => Len(CallStack) > 0
      <4>1. mode # "idle" => Depth > 0
        BY DepthFacts, EmptySeq DEF Inv, TypeOK
      <4>2. QED
        BY <4>1, CallStackFacts
    <3>2. QED
      BY <1>1, <1>2, <2>1, <3>1, NestedKeepsSupply
  <2>2. CASE UNCHANGED Nested!vars
    BY <1>2, <2>2 DEF Nested!vars
  <2>3. QED
    BY <2>1, <2>2
<1>5. QED
  BY <1>3, <1>4, SupplyOfStack, PTL

LEMMA NextKeepsSupply ==
  ASSUME Inv, SupplyConserved, [Next]_vars
  PROVE  SupplyConserved'
<1>1. Inv'
  BY NextKeepsInv
<1>2. CASE ReadsOrWritesStorage
  BY <1>2, StorageKeepsSupply DEF ReadsOrWritesStorage
<1>3. CASE ~ReadsOrWritesStorage
  <2>1. [Nested!Next]_(Nested!vars)
    BY <1>3, NextRefines
  <2>2. QED
    BY <1>1, <2>1, RefiningKeepsSupply
<1>4. QED
  BY <1>2, <1>3

\* Value is neither made nor lost: at any depth of calls, every running call and
\* the chain account for the same total, modulo the word size (payAccount,
\* deductAccount, runEVMRaw), short answers of the provider included.
THEOREM SupplyIsConserved == Spec => []SupplyConserved
<1>1. Init => SupplyConserved
  <2> SUFFICES ASSUME Init PROVE SupplyConserved
    OBVIOUS
  <2>1. Inv /\ chain \in Genesis /\ frames = <<>>
    BY InitInv DEF Init
  <2>2. CallStack = <<>>
    BY <2>1, EmptyCallStack
  <2>3. SuppliesHold(chain, CallStack)
    BY <2>1, <2>2, SupplyAssumption, Len(<<>>) = 0 DEF SuppliesHold, SupplyAssumption
  <2>4. QED
    BY <2>1, <2>3, DepthFacts, SupplyOfStack
<1>2. Inv /\ SupplyConserved /\ [Next]_vars => SupplyConserved'
  BY NextKeepsSupply
<1>3. QED
  BY <1>1, <1>2, InvHolds, PTL DEF Spec

-----------------------------------------------------------------------------
(* Transient storage is stable under the calls of a frame *)

\* A context is static because of its kind or because its caller is.
StaticHasCause(fs) ==
  \A i \in 2 .. Len(fs) :
    fs[i].isStatic => fs[i].kind = "staticcall" \/ fs[i - 1].isStatic

TransientInv == Inv /\ StaticHasCause(frames)

\* The first n contexts of fs and gs serve the same calls.
AgreeOnCalls(fs, gs, n) ==
  \A i \in 1 .. n : /\ fs[i].kind = gs[i].kind
                    /\ fs[i].address = gs[i].address
                    /\ fs[i].isStatic = gs[i].isStatic

AgreeOnTransients(fs, gs, n) ==
  \A i \in 1 .. n : fs[i].transient = gs[i].transient

\* What a step does to contexts that are suspended and stay.
SuspendedKeep(fs) ==
  /\ AgreeOnCalls(fs, frames, Depth)
  /\ AgreeOnTransients(fs, frames, Depth - 1)

LEMMA SameCallsAgree ==
  ASSUME NEW fs, NEW gs, NEW n \in 0 .. Len(fs), Len(fs) \in Nat, SameCalls(fs, gs)
  PROVE  Len(fs) = Len(gs) /\ AgreeOnCalls(fs, gs, n) /\ AgreeOnTransients(fs, gs, n)
<1>1. \A i \in 1 .. n : i \in 1 .. Len(fs)
  OBVIOUS
<1> QED BY <1>1 DEF SameCalls, SameCall, AgreeOnCalls, AgreeOnTransients

LEMMA CauseIsKept ==
  ASSUME NEW fs, NEW gs, Len(fs) \in Nat, Len(gs) \in Nat, Len(fs) <= Len(gs),
         AgreeOnCalls(fs, gs, Len(fs)), StaticHasCause(gs)
  PROVE  StaticHasCause(fs)
<1> SUFFICES ASSUME NEW i \in 2 .. Len(fs), fs[i].isStatic
             PROVE  fs[i].kind = "staticcall" \/ fs[i - 1].isStatic
  BY DEF StaticHasCause
<1>1. i \in 2 .. Len(gs) /\ i \in 1 .. Len(fs) /\ i - 1 \in 1 .. Len(fs)
  OBVIOUS
<1> QED BY <1>1 DEF AgreeOnCalls, StaticHasCause

-----------------------------------------------------------------------------
(* What each step does to the contexts of suspended calls *)

LEMMA SLoadKeeps ==
  ASSUME Inv, NEW k \in Key, SLoad(k)
  PROVE  Len(frames') = Depth /\ SuspendedKeep(frames')
<1> DEFINE cell == <<Top.address, k>>
<1>1. Depth > 0 /\ cell \in Cell
  BY OwnCell DEF SLoad
<1>2. PICK v \in SlotValues(frames, cell) : Step(ReadThrough(frames, cell, v))
  BY DEF SLoad
<1> HIDE DEF cell
<1>3. SameCalls(frames', frames)
  <2>1. v \in Word /\ Sound(frames) /\ Len(frames) > 0
    BY <1>1, SlotValueIs, DepthFacts
  <2>2. SameCalls(ReadThrough(frames, cell, v), frames)
    BY <1>1, <2>1, ReadThroughIs
  <2> QED BY <1>2, <2>2 DEF Step
<1>4. Len(frames') = Depth /\ Depth \in Nat /\ Depth \in 0 .. Depth /\ Depth - 1 \in 0 .. Depth
  BY <1>1, <1>3, DepthFacts DEF SameCalls
<1> QED BY <1>3, <1>4, SameCallsAgree DEF SuspendedKeep

LEMMA SStoreKeeps ==
  ASSUME Inv, NEW k \in Key, NEW value \in StoredValues, SStore(k, value)
  PROVE  Len(frames') = Depth /\ SuspendedKeep(frames')
<1> DEFINE cell == <<Top.address, k>>
<1>1. Depth > 0 /\ cell \in Cell /\ value \in Word
  BY OwnCell, ConstantsAssumption DEF SStore, ConstantsAssumption
<1>2. PICK v \in SlotValues(frames, cell) : Step(Put(ReadThrough(frames, cell, v), cell, value))
  BY DEF SStore
<1> HIDE DEF cell
<1> DEFINE read == ReadThrough(frames, cell, v)
<1>3. SameCalls(read, frames) /\ read \in Seq(Frame)
  <2>1. v \in Word /\ Sound(frames) /\ Len(frames) > 0
    BY <1>1, SlotValueIs, DepthFacts
  <2> QED BY <1>1, <2>1, ReadThroughIs
<1> HIDE DEF read
<1>4. Len(read) = Depth /\ Depth \in Nat /\ Depth \in 0 .. Depth /\ Depth - 1 \in 0 .. Depth
  BY <1>1, <1>3, DepthFacts DEF SameCalls
<1>5. SameCalls(frames', read)
  <2>1. SameCalls(Put(read, cell, value), read)
    BY <1>1, <1>3, <1>4, PutIs
  <2> QED BY <1>2, <2>1 DEF Step, read
<1>6. SameCalls(frames', frames)
  BY <1>3, <1>4, <1>5 DEF SameCalls, SameCall
<1>7. Len(frames') = Depth
  BY <1>4, <1>5 DEF SameCalls
<1> QED BY <1>4, <1>6, <1>7, SameCallsAgree DEF SuspendedKeep

LEMMA BalanceOfKeeps ==
  ASSUME Inv, NEW a \in Queried, BalanceOf(a)
  PROVE  Len(frames') = Depth /\ SuspendedKeep(frames')
<1>1. Depth > 0 /\ Step(GetAccountInfo(frames, a)) /\ a \in Address
  BY ConstantsAssumption DEF BalanceOf, ConstantsAssumption
<1>2. SameCalls(GetAccountInfo(frames, a), frames)
  BY <1>1, DepthFacts, ConstantsAssumption, AccountRead
<1>3. SameCalls(frames', frames)
  BY <1>1, <1>2 DEF Step
<1>4. Len(frames') = Depth /\ Depth \in Nat /\ Depth \in 0 .. Depth /\ Depth - 1 \in 0 .. Depth
  BY <1>1, <1>3, DepthFacts DEF SameCalls
<1> QED BY <1>3, <1>4, SameCallsAgree DEF SuspendedKeep

LEMMA TStoreKeeps ==
  ASSUME Inv, NEW k \in TransientKey, NEW value \in StoredValues, TStore(k, value)
  PROVE  Len(frames') = Depth /\ SuspendedKeep(frames')
<1> DEFINE g == [Top EXCEPT !.transient[<<Top.address, k>>] = value]
<1>1. Depth > 0 /\ value \in Word /\ Top \in Frame /\ Top = frames[Len(frames)]
  BY DepthFacts, ConstantsAssumption DEF TStore, ConstantsAssumption
<1>2. frames' = [frames EXCEPT ![Depth] = g]
  BY DEF TStore, Top, Step
<1>3. g \in Frame /\ g.kind = Top.kind /\ g.isStatic = Top.isStatic /\ g.address = Top.address
  BY <1>1, EnterTransient
<1> HIDE DEF g
<1>4. Depth \in 1 .. Len(frames) /\ frames \in Seq(Frame) /\ Depth = Len(frames) /\ Depth \in Nat
  BY <1>1, DepthFacts
<1>5. /\ Len(frames') = Depth
      /\ \A i \in 1 .. Depth : frames'[i] = IF i = Depth THEN g ELSE frames[i]
  BY <1>2, <1>3, <1>4, ExceptSeq
<1> QED BY <1>1, <1>3, <1>4, <1>5 DEF SuspendedKeep, AgreeOnCalls, AgreeOnTransients

LEMMA CallKeeps ==
  ASSUME Inv, NEW kind \in CallKinds, NEW target \in Address, NEW amount \in Amounts,
         Call(kind, target, amount)
  PROVE  /\ Len(frames') = Depth + 1 /\ SuspendedKeep(frames')
         /\ frames'[Depth + 1].isStatic =>
              frames'[Depth + 1].kind = "staticcall" \/ frames'[Depth].isStatic
<1> DEFINE fs == WithChild(kind, target)
<1>1. Depth > 0 /\ amount \in Word /\ chain \in World /\ Depth \in Nat /\ Top = frames[Depth]
  BY DepthFacts, ConstantsAssumption DEF Call, Callable, ConstantsAssumption
<1>2. /\ Sound(fs) /\ Len(fs) = Depth + 1
      /\ \A i \in 1 .. Depth : fs[i] = frames[i]
      /\ fs[Depth + 1].isStatic <=> Top.isStatic \/ kind = "staticcall"
      /\ fs[Depth + 1].kind = kind
  BY <1>1, ConstantsAssumption, WithChildIs
<1> HIDE DEF fs
<1>3. SameCalls(frames', fs)
  <2>1. CanTransfer(fs, amount) /\ frames' = Transferred(fs, amount)
    BY DEF Call, Step, fs
  <2> QED BY <1>1, <1>2, <2>1, ConstantsAssumption, TransferredIs
<1>4. Len(frames') = Depth + 1 /\ \A i \in 1 .. Depth + 1 : SameCall(frames'[i], fs[i])
  BY <1>2, <1>3 DEF SameCalls
<1>5. Depth \in 1 .. Depth + 1 /\ Depth + 1 \in 1 .. Depth + 1 /\ Depth \in 1 .. Depth
      /\ (1 .. Depth) \subseteq (1 .. Depth + 1)
      /\ \A i \in 1 .. Depth - 1 : i \in 1 .. Depth
  BY <1>1
<1>6. \A i \in 1 .. Depth : SameCall(frames'[i], frames[i])
  BY <1>2, <1>4, <1>5
<1>7. SuspendedKeep(frames')
  BY <1>5, <1>6 DEF SuspendedKeep, AgreeOnCalls, AgreeOnTransients, SameCall
<1>8. /\ frames'[Depth + 1].isStatic = fs[Depth + 1].isStatic
      /\ frames'[Depth + 1].kind = kind
      /\ frames'[Depth].isStatic = Top.isStatic
  BY <1>1, <1>2, <1>4, <1>5, <1>6 DEF SameCall
<1> QED BY <1>2, <1>4, <1>7, <1>8

LEMMA CallAccountKeeps ==
  ASSUME Inv, NEW kind \in CallKinds, NEW target \in Address, NEW amount \in Amounts,
         CallAccount(kind, target, amount)
  PROVE  Len(frames') = Depth /\ SuspendedKeep(frames')
<1> DEFINE fs == WithChild(kind, target)
           t == Transferred(fs, amount)
<1>1. Depth > 0 /\ amount \in Word /\ chain \in World /\ Depth \in Nat
  BY DepthFacts, ConstantsAssumption DEF CallAccount, Callable, ConstantsAssumption
<1>2. /\ Sound(fs) /\ Len(fs) = Depth + 1
      /\ \A i \in 1 .. Depth : fs[i] = frames[i]
  BY <1>1, ConstantsAssumption, WithChildIs
<1> HIDE DEF fs
<1>3. CanTransfer(fs, amount) /\ frames' = Succeeded(t)
  BY DEF CallAccount, Step, fs
<1>4. SameCalls(t, fs) /\ t \in Seq(Frame)
  BY <1>1, <1>2, <1>3, ConstantsAssumption, TransferredIs DEF Sound
<1> HIDE DEF t
<1>5. Len(t) = Depth + 1 /\ \A i \in 1 .. Depth + 1 : SameCall(t[i], fs[i])
  BY <1>2, <1>4 DEF SameCalls
<1>6. /\ Len(frames') = Depth
      /\ \A i \in 1 .. Depth - 1 : frames'[i] = t[i]
      /\ frames'[Depth].kind = t[Depth].kind
      /\ frames'[Depth].address = t[Depth].address
      /\ frames'[Depth].isStatic = t[Depth].isStatic
  <2>1. t \in Seq(Frame) /\ Len(t) > 1 /\ Len(t) - 1 = Depth /\ Len(t) - 2 = Depth - 1
    BY <1>1, <1>4, <1>5
  <2> QED BY <1>3, <2>1, SucceededIs
<1>7. \A i \in 1 .. Depth : SameCall(t[i], frames[i])
  BY <1>1, <1>2, <1>5
<1> QED BY <1>1, <1>6, <1>7 DEF SuspendedKeep, AgreeOnCalls, AgreeOnTransients, SameCall

LEMMA CallRefusedKeeps ==
  ASSUME Inv, NEW kind \in CallKinds, NEW target \in Address, NEW amount \in Amounts,
         CallRefused(kind, target, amount)
  PROVE  Len(frames') = Depth /\ SuspendedKeep(frames')
<1> DEFINE fs == WithChild(kind, target)
<1>1. Depth > 0 /\ chain \in World /\ Depth \in Nat
  BY DepthFacts DEF CallRefused, Callable
<1>2. /\ Sound(fs) /\ Len(fs) = Depth + 1
      /\ \A i \in 1 .. Depth : fs[i] = frames[i]
  BY <1>1, ConstantsAssumption, WithChildIs
<1> HIDE DEF fs
<1>3. frames' = Refused(fs, amount)
  BY DEF CallRefused, Step, fs
<1>4. Len(frames') = Depth /\ \A i \in 1 .. Depth : SameCall(frames'[i], fs[i])
  BY <1>1, <1>2, <1>3, ConstantsAssumption, RefusedIs
<1> QED BY <1>1, <1>2, <1>4 DEF SuspendedKeep, AgreeOnCalls, AgreeOnTransients, SameCall

\* A static callee writes nothing back: its caller is static too, or the call
\* was a STATICCALL.
LEMMA ReturnKeeps ==
  ASSUME TransientInv, Return
  PROVE  /\ Len(frames') = Depth - 1 /\ Depth > 1
         /\ AgreeOnCalls(frames', frames, Depth - 1)
         /\ AgreeOnTransients(frames', frames, Depth - 2)
         /\ Top.isStatic => AgreeOnTransients(frames', frames, Depth - 1)
<1>0. /\ Depth > 1 /\ Depth \in Nat /\ Depth = Len(frames) /\ frames \in Seq(Frame)
      /\ frames' = Succeeded(frames) /\ Top = frames[Depth]
  BY DepthFacts DEF Return, TransientInv, Step
<1>1. /\ Len(frames') = Depth - 1
      /\ \A i \in 1 .. Depth - 2 : frames'[i] = frames[i]
      /\ frames'[Depth - 1].kind = frames[Depth - 1].kind
      /\ frames'[Depth - 1].address = frames[Depth - 1].address
      /\ frames'[Depth - 1].isStatic = frames[Depth - 1].isStatic
  BY <1>0, SucceededIs
<1>2. AgreeOnCalls(frames', frames, Depth - 1) /\ AgreeOnTransients(frames', frames, Depth - 2)
  BY <1>0, <1>1 DEF AgreeOnCalls, AgreeOnTransients
<1>3. ASSUME Top.isStatic PROVE AgreeOnTransients(frames', frames, Depth - 1)
  <2> DEFINE rest == SubSeq(frames, 1, Depth - 1)
  <2>1. rest \in Seq(Frame) /\ Len(rest) = Depth - 1 /\ \A i \in 1 .. Depth - 1 : rest[i] = frames[i]
    BY <1>0, PopIs
  <2>2. Depth \in 2 .. Len(frames) /\ Depth - 1 \in 1 .. Len(rest)
    BY <1>0, <2>1
  <2>3. CASE Top.kind = "staticcall"
    <3>1. frames' = rest
      BY <1>0, <2>3 DEF Succeeded
    <3> QED BY <2>1, <3>1 DEF AgreeOnTransients
  <2>4. CASE Top.kind # "staticcall"
    <3>1. frames[Depth - 1].isStatic
      BY <1>0, <1>3, <2>2, <2>4 DEF TransientInv, StaticHasCause
    <3>2. frames' = [rest EXCEPT ![Depth - 1] = WriteChangesTo(Top, @)]
      BY <1>0, <2>1, <2>4 DEF Succeeded
    <3>3. WriteChangesTo(Top, rest[Depth - 1]) = rest[Depth - 1]
      BY <2>1, <2>2, <3>1 DEF WriteChangesTo
    <3>4. frames' = [rest EXCEPT ![Depth - 1] = rest[Depth - 1]]
      BY <3>2, <3>3
    <3>5. rest[Depth - 1] \in Frame
      BY <2>1, <2>2, ElementOfSeq
    <3> HIDE DEF rest
    <3>6. \A i \in 1 .. Depth - 1 : frames'[i] = rest[i]
      BY <2>1, <2>2, <3>4, <3>5, ExceptSeq
    <3> QED BY <2>1, <3>6 DEF AgreeOnTransients
  <2> QED BY <2>3, <2>4
<1> QED BY <1>0, <1>1, <1>2, <1>3

LEMMA FailKeeps ==
  ASSUME Inv, Fail
  PROVE  /\ Len(frames') = Depth - 1 /\ Depth > 1
         /\ AgreeOnCalls(frames', frames, Depth - 1)
         /\ AgreeOnTransients(frames', frames, Depth - 1)
<1>1. /\ Depth > 1 /\ Depth \in Nat /\ Depth = Len(frames) /\ frames \in Seq(Frame)
      /\ frames' = SubSeq(frames, 1, Depth - 1)
  BY DepthFacts DEF Fail, Step, Below
<1>2. Len(frames') = Depth - 1 /\ \A i \in 1 .. Depth - 1 : frames'[i] = frames[i]
  BY <1>1, PopIs
<1> QED BY <1>1, <1>2 DEF AgreeOnCalls, AgreeOnTransients

-----------------------------------------------------------------------------
(* What TLOAD finds depends only on the contexts' slots for their own accounts *)

Slot(fs, j, k) == fs[j].transient[<<fs[j].address, k>>]

Nearest(fs, i, k, h) ==
  /\ h > 0 => Slot(fs, h, k) # Absent
  /\ \A j \in (h + 1) .. i : Slot(fs, j, k) = Absent

NearestSlot(fs, i, k) == CHOOSE h \in 0 .. i : Nearest(fs, i, k, h)

Loaded(fs, i, k) ==
  IF NearestSlot(fs, i, k) = 0 THEN 0 ELSE Slot(fs, NearestSlot(fs, i, k), k)

LEMMA NearestExists ==
  ASSUME NEW fs, NEW i \in Nat, NEW k
  PROVE  /\ NearestSlot(fs, i, k) \in 0 .. i
         /\ Nearest(fs, i, k, NearestSlot(fs, i, k))
<1> DEFINE Hit(j) == j > 0 => Slot(fs, j, k) # Absent
           S == {j \in 0 .. i : Hit(j)}
<1>1. PICK h \in S : \A j \in S : j <= h
  <2>1. 0 \in S
    OBVIOUS
  <2>2. S \in SUBSET (0 .. i) /\ S # {}
    BY <2>1
  <2> HIDE DEF S
  <2> QED BY <2>2, GreatestElement
<1>2. h \in 0 .. i /\ Hit(h)
  OBVIOUS
<1>3. \A j \in (h + 1) .. i : Slot(fs, j, k) = Absent
  <2> SUFFICES ASSUME NEW j \in (h + 1) .. i, Slot(fs, j, k) # Absent
               PROVE  FALSE
    OBVIOUS
  <2>1. j \in 0 .. i /\ j > h
    BY <1>2
  <2>2. j \in S
    BY <2>1
  <2> QED BY <1>1, <1>2, <2>1, <2>2
<1>4. \E n \in 0 .. i : Nearest(fs, i, k, n)
  BY <1>2, <1>3 DEF Nearest
<1> QED BY <1>4 DEF NearestSlot

LEMMA NearestIsUnique ==
  ASSUME NEW fs, NEW i \in Nat, NEW k, NEW h \in 0 .. i, Nearest(fs, i, k, h)
  PROVE  NearestSlot(fs, i, k) = h
<1> DEFINE c == NearestSlot(fs, i, k)
<1>1. c \in 0 .. i /\ Nearest(fs, i, k, c)
  BY NearestExists
<1> HIDE DEF c
<1>2. ASSUME c < h PROVE FALSE
  <2>1. h \in (c + 1) .. i /\ h > 0
    BY <1>1, <1>2
  <2> QED BY <1>1, <2>1 DEF Nearest
<1>3. ASSUME h < c PROVE FALSE
  <2>1. c \in (h + 1) .. i /\ c > 0
    BY <1>1, <1>3
  <2> QED BY <1>1, <2>1 DEF Nearest
<1>4. c = h
  BY <1>1, <1>2, <1>3
<1> QED BY <1>4 DEF c

LEMMA SameSlotsSameValue ==
  ASSUME NEW fs, NEW gs, NEW i \in Nat, NEW k,
         \A j \in 1 .. i : Slot(fs, j, k) = Slot(gs, j, k)
  PROVE  Loaded(fs, i, k) = Loaded(gs, i, k)
<1> DEFINE h == NearestSlot(gs, i, k)
<1>1. h \in 0 .. i /\ Nearest(gs, i, k, h)
  BY NearestExists
<1> HIDE DEF h
<1>2. h > 0 => h \in 1 .. i
  BY <1>1
<1>3. \A j \in (h + 1) .. i : j \in 1 .. i
  BY <1>1
<1>4. Nearest(fs, i, k, h)
  BY <1>1, <1>2, <1>3 DEF Nearest
<1>5. NearestSlot(fs, i, k) = h
  BY <1>1, <1>4, NearestIsUnique
<1>6. h = 0 \/ h > 0
  BY <1>1
<1> QED BY <1>2, <1>5, <1>6 DEF Loaded, h

\* The model's own operators, now and after a step.
LEMMA LoadedIsTransientValue ==
  \A i, k : /\ TransientHolder(i, k) = NearestSlot(frames, i, k)
            /\ TransientValue(i, k) = Loaded(frames, i, k)
            /\ TransientValue(i, k)' = Loaded(frames', i, k)
BY DEF TransientHolder, TransientValue, NearestSlot, Loaded, Nearest, Slot

LEMMA AgreeingFramesLoadTheSame ==
  ASSUME NEW fs, NEW gs, NEW n, NEW i \in Nat, NEW k, i <= n, n \in Nat,
         AgreeOnCalls(fs, gs, n), AgreeOnTransients(fs, gs, n)
  PROVE  Loaded(fs, i, k) = Loaded(gs, i, k)
<1>1. \A j \in 1 .. i : j \in 1 .. n
  OBVIOUS
<1>2. \A j \in 1 .. i : Slot(fs, j, k) = Slot(gs, j, k)
  BY <1>1 DEF AgreeOnCalls, AgreeOnTransients, Slot
<1> QED BY <1>2, SameSlotsSameValue

LEMMA AgreeingStepKeepsValues ==
  ASSUME NEW n \in Nat, AgreeOnCalls(frames', frames, n), AgreeOnTransients(frames', frames, n),
         NEW i \in 1 .. n, NEW k
  PROVE  Loaded(frames', i, k) = Loaded(frames, i, k)
<1>1. i \in Nat /\ i <= n
  OBVIOUS
<1> QED BY <1>1, AgreeingFramesLoadTheSame

LEMMA EnteredSlots ==
  ASSUME NEW f \in Frame, NEW k \in TransientKey, NEW v \in Word, NEW key \in TransientKey
  PROVE  LET g == [f EXCEPT !.transient[<<f.address, k>>] = v]
         IN  g.transient[<<f.address, key>>] =
               IF key = k THEN v ELSE f.transient[<<f.address, key>>]
<1> DEFINE slot == <<f.address, k>>
           other == <<f.address, key>>
<1>1. /\ slot \in Address \X TransientKey /\ other \in Address \X TransientKey
      /\ f.transient \in Transient /\ (other = slot <=> key = k)
  BY FrameFacts
<1> HIDE DEF slot, other
<1>2. [f EXCEPT !.transient[slot] = v].transient = [f.transient EXCEPT ![slot] = v]
  BY DEF Frame
<1>3. [f.transient EXCEPT ![slot] = v][other] = IF other = slot THEN v ELSE f.transient[other]
  BY <1>1 DEF Transient
<1> QED BY <1>1, <1>2, <1>3 DEF slot, other

\* The contexts above the nearest slot keep its value, and found it there before.
LEMMA TLoadKeeps ==
  ASSUME Inv, NEW k \in TransientKey, TLoad(k)
  PROVE  /\ Len(frames') = Depth /\ AgreeOnCalls(frames', frames, Depth)
         /\ \A i \in 1 .. Depth - 1 : \A key \in TransientKey :
              Loaded(frames', i, key) = Loaded(frames, i, key)
<1> DEFINE v == TransientValue(Depth, k)
           h == TransientHolder(Depth, k)
           Kept(i) == [frames[i] EXCEPT !.transient[<<frames[i].address, k>>] = v]
           fs == [i \in 1 .. Depth |-> IF i > 1 /\ i > h THEN Kept(i) ELSE frames[i]]
<1>1. Depth > 0 /\ frames' = fs /\ Depth \in Nat /\ frames \in Seq(Frame) /\ Depth = Len(frames)
  BY DepthFacts DEF TLoad, Step
<1>2. v \in Word /\ v # Absent /\ h \in 0 .. Depth
  BY <1>1, TransientHolderIs, ConstantsAssumption DEF ConstantsAssumption
<1>3. h = NearestSlot(frames, Depth, k) /\ v = Loaded(frames, Depth, k)
  BY LoadedIsTransientValue
<1> HIDE DEF v, h
<1>4. ASSUME NEW i \in 1 .. Depth
      PROVE  /\ frames'[i] \in Frame
             /\ frames'[i].kind = frames[i].kind
             /\ frames'[i].address = frames[i].address
             /\ frames'[i].isStatic = frames[i].isStatic
             /\ \A key \in TransientKey :
                  Slot(frames', i, key) =
                    IF i > 1 /\ i > h /\ key = k THEN v ELSE Slot(frames, i, key)
  <2>1. frames[i] \in Frame
    BY <1>1, ElementOfSeq
  <2>2. /\ Kept(i) \in Frame
        /\ Kept(i).kind = frames[i].kind
        /\ Kept(i).address = frames[i].address
        /\ Kept(i).isStatic = frames[i].isStatic
    BY <1>2, <2>1, EnterTransient
  <2>3. \A key \in TransientKey :
          Kept(i).transient[<<frames[i].address, key>>] =
            IF key = k THEN v ELSE frames[i].transient[<<frames[i].address, key>>]
    BY <1>2, <2>1, EnteredSlots
  <2>4. frames'[i] = IF i > 1 /\ i > h THEN Kept(i) ELSE frames[i]
    BY <1>1
  <2> HIDE DEF Kept
  <2>5. CASE i > 1 /\ i > h
    <3>1. frames'[i] = Kept(i)
      BY <2>4, <2>5
    <3> QED BY <2>2, <2>3, <2>5, <3>1 DEF Slot
  <2>6. CASE ~(i > 1 /\ i > h)
    <3>1. frames'[i] = frames[i]
      BY <2>4, <2>6
    <3>2. \A key : Slot(frames', i, key) = Slot(frames, i, key)
      BY <3>1 DEF Slot
    <3> QED BY <2>1, <2>6, <3>1, <3>2
  <2> QED BY <2>5, <2>6
<1>5. Len(frames') = Depth
  <2>1. DOMAIN fs = 1 .. Depth /\ fs = [i \in 1 .. Depth |-> fs[i]]
    OBVIOUS
  <2> HIDE DEF fs
  <2>2. fs \in Seq(Frame)
    BY <1>1, <1>4, <2>1, IsASeq
  <2> QED BY <1>1, <2>1, <2>2, LenProperties
<1> HIDE DEF fs
<1>6. ASSUME NEW i \in 1 .. Depth - 1, NEW key \in TransientKey
      PROVE  Loaded(frames', i, key) = Loaded(frames, i, key)
  <2>1. i \in Nat /\ i > 0 /\ i \in 1 .. Depth /\ \A j \in 1 .. i : j \in 1 .. Depth /\ j <= i
    BY <1>1
  <2>2. CASE key # k \/ i <= h \/ i = 1
    <3>1. \A j \in 1 .. i : Slot(frames', j, key) = Slot(frames, j, key)
      BY <1>2, <1>4, <2>1, <2>2
    <3> QED BY <2>1, <3>1, SameSlotsSameValue
  <2>3. CASE key = k /\ i > h /\ i > 1
    <3>1. Nearest(frames, Depth, k, h)
      BY <1>1, <1>3, NearestExists
    <3>2. Nearest(frames, i, k, h) /\ h \in 0 .. i
      BY <1>1, <1>2, <2>1, <2>3, <3>1 DEF Nearest
    <3>3. NearestSlot(frames, i, k) = h
      BY <2>1, <3>2, NearestIsUnique
    <3>4. Loaded(frames, i, k) = v
      BY <1>3, <3>3 DEF Loaded
    <3>5. Slot(frames', i, k) = v
      BY <1>4, <2>1, <2>3
    <3>6. Nearest(frames', i, k, i)
      BY <1>2, <2>1, <3>5 DEF Nearest
    <3>7. NearestSlot(frames', i, k) = i
      BY <2>1, <3>6, NearestIsUnique
    <3>8. Loaded(frames', i, k) = v
      BY <2>1, <3>5, <3>7 DEF Loaded
    <3> QED BY <2>3, <3>4, <3>8
  <2> QED BY <1>1, <1>2, <2>2, <2>3
<1> QED BY <1>4, <1>5, <1>6 DEF AgreeOnCalls

-----------------------------------------------------------------------------
(* The invariant and the theorems *)

LEMMA InstructionKeeps ==
  ASSUME Inv, Instruction
  PROVE  /\ Len(frames') = Depth /\ AgreeOnCalls(frames', frames, Depth)
         /\ \A i \in 1 .. Depth - 1 : \A key \in TransientKey :
              Loaded(frames', i, key) = Loaded(frames, i, key)
<1>0. Depth \in Nat
  BY DepthFacts
<1>1. ASSUME SuspendedKeep(frames'), NEW i \in 1 .. Depth - 1, NEW key \in TransientKey
      PROVE  Loaded(frames', i, key) = Loaded(frames, i, key)
  <2>1. i \in Nat /\ i <= Depth - 1 /\ Depth - 1 \in Nat
    BY <1>0
  <2>2. AgreeOnCalls(frames', frames, Depth - 1)
    BY <1>0, <1>1 DEF SuspendedKeep, AgreeOnCalls
  <2> QED BY <1>1, <2>1, <2>2, AgreeingFramesLoadTheSame DEF SuspendedKeep
<1>2. CASE \E k \in TransientKey : TLoad(k)
  BY <1>2, TLoadKeeps
<1>3. CASE Len(frames') = Depth /\ SuspendedKeep(frames')
  BY <1>1, <1>3 DEF SuspendedKeep
<1> QED BY <1>2, <1>3, SLoadKeeps, SStoreKeeps, BalanceOfKeeps, TStoreKeeps DEF Instruction

LEMMA CallInstructionKeeps ==
  ASSUME Inv, CallInstruction
  PROVE  /\ Len(frames') \in {Depth, Depth + 1} /\ SuspendedKeep(frames')
         /\ Len(frames') = Depth + 1 =>
              (frames'[Depth + 1].isStatic =>
                 frames'[Depth + 1].kind = "staticcall" \/ frames'[Depth].isStatic)
<1>1. PICK kind \in CallKinds, target \in Address, amount \in Amounts :
        \/ Call(kind, target, amount)
        \/ CallAccount(kind, target, amount)
        \/ CallRefused(kind, target, amount)
  BY DEF CallInstruction
<1>2. CASE Call(kind, target, amount)
  BY <1>2, CallKeeps
<1>3. Depth # Depth + 1
  BY DepthFacts
<1>4. CASE CallAccount(kind, target, amount)
  BY <1>3, <1>4, CallAccountKeeps
<1>5. CASE CallRefused(kind, target, amount)
  BY <1>3, <1>5, CallRefusedKeeps
<1> QED BY <1>1, <1>2, <1>4, <1>5

\* At most one context is left: the outermost.
LEMMA FewHaveCause ==
  ASSUME NEW fs, Len(fs) \in {0, 1}
  PROVE  StaticHasCause(fs)
BY DEF StaticHasCause

LEMMA TransactionStarts ==
  ASSUME Inv, Transaction
  PROVE  Depth = 0 /\ Len(frames') \in {0, 1}
<1>1. PICK from \in Sender, to \in Address, amount \in Amounts :
        \/ \E m \in {"simulate", "execute"} :
             Begin(m, from, to, amount) \/ TransferToAccount(m, from, to, amount)
        \/ InsufficientEth(from, to, amount)
  BY DEF Transaction
<1>2. frames = <<>>
  BY <1>1 DEF Begin, TransferToAccount, InsufficientEth, Started, Inv, TypeOK
<1>3. Depth = 0
  BY <1>2 DEF Depth
<1>4. CASE frames' = frames
  BY <1>3, <1>4 DEF Depth
<1>5. CASE \E m \in {"simulate", "execute"} : Begin(m, from, to, amount)
  <2>1. /\ CanTransfer(Opened(from, to), amount)
        /\ frames' = Transferred(Opened(from, to), amount)
        /\ from \in Address /\ amount \in Word /\ chain \in World
    BY <1>5, ConstantsAssumption, DepthFacts DEF Begin, ConstantsAssumption
  <2>2. Sound(Opened(from, to)) /\ Len(Opened(from, to)) = 1
    BY <2>1, ConstantsAssumption, OpenedIs
  <2>3. SameCalls(frames', Opened(from, to))
    BY <2>1, <2>2, ConstantsAssumption, TransferredIs
  <2> QED BY <1>3, <2>2, <2>3 DEF SameCalls
<1>6. CASE \/ \E m \in {"simulate", "execute"} : TransferToAccount(m, from, to, amount)
           \/ InsufficientEth(from, to, amount)
  BY <1>4, <1>6 DEF TransferToAccount, InsufficientEth
<1> QED BY <1>1, <1>5, <1>6

LEMMA CausesAreKept == ASSUME TransientInv, [Next]_vars PROVE StaticHasCause(frames)'
<1>0. Inv /\ Depth \in Nat /\ Depth = Len(frames) /\ StaticHasCause(frames)
  BY DepthFacts DEF TransientInv
<1>1. ASSUME Len(frames') \in Nat, Len(frames') <= Depth,
             AgreeOnCalls(frames', frames, Len(frames'))
      PROVE  StaticHasCause(frames)'
  BY <1>0, <1>1, CauseIsKept
<1>2. CASE Transaction
  BY <1>0, <1>2, TransactionStarts, FewHaveCause
<1>3. CASE Instruction
  BY <1>0, <1>1, <1>3, InstructionKeeps
<1>4. CASE CallInstruction
  <2>1. CASE Len(frames') = Depth
    BY <1>0, <1>1, <1>4, <2>1, CallInstructionKeeps DEF SuspendedKeep
  <2>2. CASE Len(frames') = Depth + 1
    <3> SUFFICES ASSUME NEW i \in 2 .. Depth + 1, frames'[i].isStatic
                 PROVE  frames'[i].kind = "staticcall" \/ frames'[i - 1].isStatic
      BY <2>2 DEF StaticHasCause
    <3>1. CASE i = Depth + 1
      BY <1>0, <1>4, <2>2, <3>1, CallInstructionKeeps
    <3>2. CASE i # Depth + 1
      <4>1. i \in 2 .. Depth /\ i \in 1 .. Depth /\ i - 1 \in 1 .. Depth
        BY <1>0, <3>2
      <4> QED BY <1>0, <1>4, <4>1, CallInstructionKeeps
              DEF SuspendedKeep, AgreeOnCalls, StaticHasCause
    <3> QED BY <3>1, <3>2
  <2> QED BY <1>0, <1>4, <2>1, <2>2, CallInstructionKeeps
<1>5. CASE Return
  BY <1>0, <1>1, <1>5, ReturnKeeps
<1>6. CASE Fail
  BY <1>0, <1>1, <1>6, FailKeeps
<1>7. CASE \E success \in BOOLEAN : Finish(success)
  <2>1. Len(frames') = 0
    BY <1>7 DEF Finish
  <2> QED BY <2>1, FewHaveCause
<1>8. CASE UNCHANGED vars
  BY <1>0, <1>8 DEF vars
<1> QED BY <1>2, <1>3, <1>4, <1>5, <1>6, <1>7, <1>8 DEF Next

\* A call is static because it was made by STATICCALL or because its caller is
\* static (callRaw, generateStaticCall): no static context stands without cause.
THEOREM StaticAlwaysHasCause == Spec => []StaticHasCause(frames)
<1>1. Init => TransientInv
  <2> SUFFICES ASSUME Init PROVE TransientInv
    OBVIOUS
  <2>1. Len(frames) = 0
    BY DEF Init
  <2> QED BY <2>1, InitInv, FewHaveCause DEF TransientInv
<1>2. TransientInv /\ [Next]_vars => TransientInv'
  BY NextKeepsInv, CausesAreKept DEF TransientInv
<1>3. TransientInv => StaticHasCause(frames)
  BY DEF TransientInv
<1> QED BY <1>1, <1>2, <1>3, PTL DEF Spec

LEMMA StepsKeepSuspendedValues ==
  ASSUME TransientInv, [Next]_vars,
         NEW i \in 1 .. Depth - 1, NEW k \in TransientKey, i <= Len(frames'),
         ~(i = Depth - 1 /\ ~Top.isStatic /\ Return)
  PROVE  Loaded(frames', i, k) = Loaded(frames, i, k)
<1>0. /\ Inv /\ Depth \in Nat /\ Depth = Len(frames)
      /\ i \in Nat /\ i > 0 /\ i <= Depth - 1 /\ Depth - 1 \in Nat
  BY DepthFacts DEF TransientInv
<1> DEFINE m == Depth - 1
<1>9. m \in Nat /\ i \in 1 .. m
  BY <1>0
<1>10. ASSUME AgreeOnCalls(frames', frames, m), AgreeOnTransients(frames', frames, m)
       PROVE  Loaded(frames', i, k) = Loaded(frames, i, k)
  <2> HIDE DEF m
  <2> QED BY <1>9, <1>10, AgreeingStepKeepsValues
<1>1. CASE Transaction
  BY <1>0, <1>1, TransactionStarts
<1>2. CASE Instruction
  BY <1>0, <1>2, InstructionKeeps
<1>3. CASE CallInstruction
  <2>1. AgreeOnCalls(frames', frames, Depth - 1) /\ AgreeOnTransients(frames', frames, Depth - 1)
    BY <1>0, <1>3, CallInstructionKeeps DEF SuspendedKeep, AgreeOnCalls
  <2> QED BY <1>10, <2>1
<1>4. CASE Return
  <2>0. /\ AgreeOnCalls(frames', frames, Depth - 1)
        /\ AgreeOnTransients(frames', frames, Depth - 2)
        /\ Top.isStatic => AgreeOnTransients(frames', frames, Depth - 1)
    BY <1>4, ReturnKeeps
  <2>1. CASE i = Depth - 1
    <3>1. Top.isStatic
      BY <1>4, <2>1
    <3> QED BY <1>10, <2>0, <3>1
  <2>2. CASE i # Depth - 1
    <3>1. i <= Depth - 2 /\ Depth - 2 \in Nat
      BY <1>0, <2>2
    <3>2. AgreeOnCalls(frames', frames, Depth - 2)
      BY <1>0, <2>0 DEF AgreeOnCalls
    <3> DEFINE l == Depth - 2
    <3>3. /\ l \in Nat /\ i \in 1 .. l
          /\ AgreeOnCalls(frames', frames, l) /\ AgreeOnTransients(frames', frames, l)
      BY <1>0, <2>0, <3>1, <3>2
    <3> HIDE DEF l
    <3> QED BY <3>3, AgreeingStepKeepsValues
  <2> QED BY <2>1, <2>2
<1>5. CASE Fail
  BY <1>0, <1>5, <1>10, FailKeeps
<1>6. CASE \E success \in BOOLEAN : Finish(success)
  BY <1>0, <1>6 DEF Finish
<1>7. CASE UNCHANGED vars
  BY <1>7 DEF vars
<1> QED BY <1>1, <1>2, <1>3, <1>4, <1>5, <1>6, <1>7 DEF Next

\* What a suspended call would read by TLOAD changes only when a callee that may
\* write succeeds (tload, writeChangesTo, callRaw), although the TLOADs of its
\* callees write into its transient map.
THEOREM SuspendedTransientAlwaysStable == Spec => SuspendedTransientStable
<1>1. Init => TransientInv
  <2> SUFFICES ASSUME Init PROVE TransientInv
    OBVIOUS
  <2>1. Len(frames) = 0
    BY DEF Init
  <2> QED BY <2>1, InitInv, FewHaveCause DEF TransientInv
<1>2. TransientInv /\ [Next]_vars => TransientInv'
  BY NextKeepsInv, CausesAreKept DEF TransientInv
<1>3. TransientInv /\ [Next]_vars =>
        [\A i \in 1 .. Depth - 1 : \A k \in TransientKey :
           \/ i > Len(frames')
           \/ i = Depth - 1 /\ ~Top.isStatic /\ Return
           \/ TransientValue(i, k)' = TransientValue(i, k)]_vars
  <2> SUFFICES ASSUME TransientInv, [Next]_vars, NEW i \in 1 .. Depth - 1, NEW k \in TransientKey,
                      ~(i > Len(frames')), ~(i = Depth - 1 /\ ~Top.isStatic /\ Return)
               PROVE  TransientValue(i, k)' = TransientValue(i, k)
    OBVIOUS
  <2>1. Len(frames') \in Nat
    <3>1. Inv'
      BY NextKeepsInv DEF TransientInv
    <3> QED BY <3>1, DepthFacts, LenProperties DEF Inv, TypeOK
  <2>2. i <= Len(frames')
    BY <2>1, DepthFacts DEF TransientInv
  <2>3. Loaded(frames', i, k) = Loaded(frames, i, k)
    BY <2>2, StepsKeepSuspendedValues
  <2> QED BY <2>3, LoadedIsTransientValue
<1> QED BY <1>1, <1>2, <1>3, PTL DEF Spec, SuspendedTransientStable

===============================================================================

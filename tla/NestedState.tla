----------------------------- MODULE NestedState -----------------------------
(***************************************************************************)
(* What the simulator promises about world state while contracts call one  *)
(* another: every call runs on a private copy of the world, a successful   *)
(* call hands its copy to its caller, a failed one is forgotten, and only  *)
(* a successful `execute` reaches the chain.  Nothing here knows about the *)
(* caches and overlays by which EVMSimulationContext achieves this.        *)
(***************************************************************************)
EXTENDS Naturals, Sequences

CONSTANTS
  Address,        \* accounts
  Key,            \* storage keys
  Balance,        \* the "key" under which an account's balance is kept
  WordMod,        \* number of values of a machine word (2^256 in the code)
  Genesis         \* the worlds a chain may start from

Cell  == Address \X (Key \cup {Balance})
Word  == 0 .. (WordMod - 1)
World == [Cell -> Word]

VARIABLES
  base,    \* the committed world
  stack,   \* one record per running call, outermost first
  mode     \* "idle", or which entry point is running

vars == <<base, stack, mode>>

Modes == {"simulate", "execute"}
Call  == [world : World, self : Address, readOnly : BOOLEAN]

TypeOK ==
  /\ base \in World
  /\ stack \in Seq(Call)
  /\ mode \in Modes \cup {"idle"}
  /\ mode = "idle" <=> stack = <<>>

AddWord(x, y) == IF x + y < WordMod THEN x + y ELSE x + y - WordMod

\* Value moves only where it is covered; an account paying itself is a no-op.
CanMove(w, from, to, amount) ==
  amount = 0 \/ from = to \/ w[<<from, Balance>>] >= amount

Move(w, from, to, amount) ==
  IF amount = 0 \/ from = to THEN w
  ELSE [w EXCEPT ![<<from, Balance>>] = @ - amount,
                 ![<<to, Balance>>]   = AddWord(@, amount)]

Top       == stack[Len(stack)]
Caller    == stack[Len(stack) - 1]
Below     == SubSeq(stack, 1, Len(stack) - 1)

-----------------------------------------------------------------------------

Init == base \in Genesis /\ stack = <<>> /\ mode = "idle"

\* A transaction starts on its own copy of the chain, the value already moved.
Begin(m, from, to, amount) ==
  /\ mode = "idle"
  /\ CanMove(base, from, to, amount)
  /\ mode' = m
  /\ stack' = <<[world |-> Move(base, from, to, amount), self |-> to, readOnly |-> FALSE]>>
  /\ UNCHANGED base

\* A transaction to an account without code is over as soon as it has paid.
Transfer(m, from, to, amount) ==
  /\ mode = "idle"
  /\ CanMove(base, from, to, amount)
  /\ base' = IF m = "execute" THEN Move(base, from, to, amount) ELSE base
  /\ UNCHANGED <<stack, mode>>

\* A call writes storage of its own account only, and none when read-only.
Store(k, v) ==
  /\ mode # "idle"
  /\ ~Top.readOnly
  /\ stack' = [stack EXCEPT ![Len(stack)].world[<<Top.self, k>>] = v]
  /\ UNCHANGED <<base, mode>>

\* A call to an account without code only moves value.
Pay(to, amount) ==
  /\ mode # "idle"
  /\ ~Top.readOnly
  /\ CanMove(Top.world, Top.self, to, amount)
  /\ stack' = [stack EXCEPT ![Len(stack)].world = Move(@, Top.self, to, amount)]
  /\ UNCHANGED <<base, mode>>

\* A nested call starts from its caller's world; read-only is inherited and
\* moves no value.
Open(self, amount, readOnly) ==
  /\ mode # "idle"
  /\ Top.readOnly => readOnly
  /\ readOnly => amount = 0
  /\ CanMove(Top.world, Top.self, self, amount)
  /\ stack' = Append(stack, [world    |-> Move(Top.world, Top.self, self, amount),
                             self     |-> self,
                             readOnly |-> readOnly])
  /\ UNCHANGED <<base, mode>>

\* A successful nested call hands its world to its caller.
Return ==
  /\ Len(stack) > 1
  /\ stack' = IF Top.readOnly THEN Below
              ELSE [Below EXCEPT ![Len(stack) - 1].world = Top.world]
  /\ UNCHANGED <<base, mode>>

\* A failed nested call leaves no trace.
Fail ==
  /\ Len(stack) > 1
  /\ stack' = Below
  /\ UNCHANGED <<base, mode>>

\* The outermost call ends: only a successful execute reaches the chain.
Finish(success) ==
  /\ Len(stack) = 1
  /\ base' = IF success /\ mode = "execute" THEN Top.world ELSE base
  /\ stack' = <<>>
  /\ mode' = "idle"

Next ==
  \/ \E m \in Modes, from, to \in Address, amount \in Word :
       Begin(m, from, to, amount) \/ Transfer(m, from, to, amount)
  \/ \E k \in Key, v \in Word : Store(k, v)
  \/ \E to \in Address, amount \in Word : Pay(to, amount)
  \/ \E self \in Address, amount \in Word, readOnly \in BOOLEAN :
       Open(self, amount, readOnly)
  \/ Return
  \/ Fail
  \/ \E success \in BOOLEAN : Finish(success)

Spec == Init /\ [][Next]_vars

\* A read-only call sees exactly its caller's world for as long as it runs,
\* whatever the calls it makes do: nothing under a STATICCALL changes state.
ReadOnlyCallsChangeNothing ==
  \A i \in 2 .. Len(stack) :
    stack[i].readOnly => stack[i].world = stack[i - 1].world
=============================================================================

------------------------ MODULE ParallelExecute_proofs ------------------------
(***************************************************************************)
(* Executes in parallel are a serial chain's but for their conflicts, for  *)
(* any threads, cells and pieces.  The argument: while a cell is not       *)
(* contested, all that is yet to be stored there is the world's value; so  *)
(* an execute that ends without a conflict takes effect at once, and       *)
(* storing it, or failing to, moves the chain under a world that stands    *)
(* still, or goes back.                                                    *)
(***************************************************************************)
EXTENDS ParallelExecute, TLAPS

LEMMA NothingKept == \A c \in Cell : Nothing[c] = None
BY DEF Nothing

LEMMA InitTypeOK == ParallelInit => ParallelTypeOK
BY ParallelAssumption DEF ParallelInit, ParallelTypeOK, Nothing, InCode, Kept

-----------------------------------------------------------------------------
(* The type invariant, action by action *)

LEMMA LockKeepsTypeOK ==
  ASSUME ParallelTypeOK, NEW t \in Thread, Acquire(t) \/ Yield(t)
  PROVE  ParallelTypeOK'
BY DEF Acquire, Yield, ParallelTypeOK, InCode, Kept, Nothing

LEMMA UpdateKeepsTypeOK ==
  ASSUME ParallelTypeOK, NEW t \in Thread, NEW c \in Cell, NEW v \in Value,
         PythonUpdate(t, c, v)
  PROVE  ParallelTypeOK'
BY DEF PythonUpdate, ParallelTypeOK, InCode, Kept, Nothing

LEMMA CallKeepsTypeOK ==
  ASSUME ParallelTypeOK, NEW t \in Thread, NEW how \in {"executing", "simulating"},
         Call(t, how)
  PROVE  ParallelTypeOK'
BY DEF Call, ParallelTypeOK, InCode, Kept, Nothing

LEMMA ReadKeepsTypeOK ==
  ASSUME ParallelTypeOK, NEW t \in Thread, NEW c \in Cell, ReadCell(t, c)
  PROVE  ParallelTypeOK'
BY DEF ReadCell, Cached, Unread, ParallelTypeOK, InCode, Kept

LEMMA WriteKeepsTypeOK ==
  ASSUME ParallelTypeOK, NEW t \in Thread, NEW c \in Cell, NEW v \in Value,
         WriteLocal(t, c, v)
  PROVE  ParallelTypeOK'
BY ParallelAssumption DEF WriteLocal, ParallelTypeOK, InCode, Kept

LEMMA FinishKeepsTypeOK ==
  ASSUME ParallelTypeOK, NEW t \in Thread, NEW success \in BOOLEAN, Finish(t, success)
  PROVE  ParallelTypeOK'
BY DEF Finish, ParallelTypeOK, InCode, Kept, Nothing

LEMMA WriteBackKeepsTypeOK ==
  ASSUME ParallelTypeOK, NEW t \in Thread, NEW piece \in Pieces, WriteBack(t, piece)
  PROVE  ParallelTypeOK'
BY DEF WriteBack, Without, ParallelTypeOK, InCode, Kept, Nothing

LEMMA ThrowKeepsTypeOK ==
  ASSUME ParallelTypeOK, NEW t \in Thread, Throw(t)
  PROVE  ParallelTypeOK'
BY DEF Throw, ParallelTypeOK, InCode, Kept, Nothing

LEMMA ReturnKeepsTypeOK ==
  ASSUME ParallelTypeOK, NEW t \in Thread, Return(t)
  PROVE  ParallelTypeOK'
BY DEF Return, MayReturn, ParallelTypeOK, InCode, Kept, Nothing

LEMMA NextKeepsTypeOK ==
  ParallelTypeOK /\ [ParallelNext]_parallelVars => ParallelTypeOK'
<1> SUFFICES ASSUME ParallelTypeOK, [ParallelNext]_parallelVars PROVE ParallelTypeOK'
  OBVIOUS
<1>1. CASE UNCHANGED parallelVars
  BY <1>1 DEF parallelVars, ParallelTypeOK, InCode, Kept
<1>2. CASE ParallelNext
  <2> PICK t \in Thread : Step(t)
    BY <1>2 DEF ParallelNext
  <2>1. CASE Callback(t)
    BY <2>1, ReadKeepsTypeOK, WriteBackKeepsTypeOK, ThrowKeepsTypeOK, ReturnKeepsTypeOK
       DEF Callback
  <2>2. CASE InPython(t)
    BY <2>2, CallKeepsTypeOK, UpdateKeepsTypeOK DEF InPython
  <2>3. CASE Ends(t)
    BY <2>3, FinishKeepsTypeOK DEF Ends
  <2> QED BY <2>1, <2>2, <2>3, LockKeepsTypeOK, WriteKeepsTypeOK DEF Step
<1> QED BY <1>1, <1>2

\* Every thread's overlay is typed, empty in Python, and holds what its call has
\* read until the code ends (the context of runSimulate and runExecute).
THEOREM OverlaysAreTyped == ParallelSpec => []ParallelTypeOK
<1>1. ParallelTypeOK /\ [ParallelNext]_parallelVars => ParallelTypeOK'
  BY NextKeepsTypeOK
<1> QED BY InitTypeOK, <1>1, PTL DEF ParallelSpec

-----------------------------------------------------------------------------
(* The world behind the chain *)

LEMMA WorldIsChain ==
  ASSUME NEW c \in Cell, \A t \in Thread : c \notin Pending(t)
  PROVE  World[c] = chain[c]
BY DEF World

\* What a thread is to store of a cell that is not contested is what the world has.
OverlayIsWorld ==
  \A t \in Thread, c \in Cell :
    c \in Pending(t) /\ c \notin Contested => World[c] = overlay[t][c]

LEMMA WorldIsOverlay == OverlayIsWorld
<1> SUFFICES ASSUME NEW t \in Thread, NEW c \in Cell, c \in Pending(t), c \notin Contested
             PROVE  World[c] = overlay[t][c]
  BY DEF OverlayIsWorld
<1> DEFINE u == CHOOSE u \in Thread : c \in Pending(u)
<1>1. u \in Thread /\ c \in Pending(u)
  OBVIOUS
<1>2. World[c] = overlay[u][c]
  BY DEF World
<1> HIDE DEF u
<1>3. CASE u = t
  BY <1>2, <1>3
<1>4. CASE u # t
  <2>1. overlay[u][c] = chain[c] /\ overlay[t][c] = chain[c]
    BY <1>1, <1>4 DEF Contested
  <2> QED BY <1>2, <2>1
<1> QED BY <1>3, <1>4

\* Where all that is to be stored is there already, the world is the chain.
SettledIsWorld ==
  \A c \in Cell :
    (\A u \in Thread : c \in Pending(u) => overlay[u][c] = chain[c]) => World[c] = chain[c]

LEMMA WorldOfSettled == SettledIsWorld
<1> SUFFICES ASSUME NEW c \in Cell,
                    \A u \in Thread : c \in Pending(u) => overlay[u][c] = chain[c]
             PROVE  World[c] = chain[c]
  BY DEF SettledIsWorld
<1>1. CASE \A u \in Thread : c \notin Pending(u)
  BY <1>1, WorldIsChain
<1>2. CASE \E u \in Thread : c \in Pending(u)
  <2> DEFINE u == CHOOSE u \in Thread : c \in Pending(u)
  <2>1. u \in Thread /\ c \in Pending(u)
    BY <1>2
  <2>2. World[c] = overlay[u][c]
    BY <1>2 DEF World
  <2> HIDE DEF u
  <2> QED BY <2>1, <2>2
<1> QED BY <1>1, <1>2

\* Both hold after a step as well.
LEMMA WorldNext == OverlayIsWorld' /\ SettledIsWorld'
BY WorldIsOverlay, WorldOfSettled, PTL

\* A step leaves the world at a cell alone if it leaves alone the chain there and
\* who has yet to write what.
LEMMA WorldStands ==
  ASSUME NEW c \in Cell, chain'[c] = chain[c],
         \A u \in Thread : c \in Pending(u)' <=> c \in Pending(u),
         \A u \in Thread : c \in Pending(u) => overlay'[u][c] = overlay[u][c]
  PROVE  World'[c] = World[c]
<1>1. CASE \E u \in Thread : c \in Pending(u)
  <2> DEFINE u == CHOOSE u \in Thread : c \in Pending(u)
  <2>1. u \in Thread /\ c \in Pending(u)
    BY <1>1
  <2>2. (CHOOSE v \in Thread : c \in Pending(v)') = u
    <3> DEFINE P(v) == c \in Pending(v)
               Q(v) == c \in Pending(v)'
    <3>1. \A v \in Thread : P(v) <=> Q(v)
      OBVIOUS
    <3> HIDE DEF P, Q
    <3>2. (CHOOSE v \in Thread : P(v)) = (CHOOSE v \in Thread : Q(v))
      BY <3>1
    <3> QED BY <3>2 DEF P, Q
  <2>3. World'[c] = overlay'[u][c]
    BY <2>1, <2>2 DEF World
  <2> QED BY <2>1, <2>3 DEF World
<1>2. CASE \A u \in Thread : c \notin Pending(u)
  BY <1>2 DEF World
<1> QED BY <1>1, <1>2

LEMMA FunctionsEqual ==
  ASSUME \A c \in Cell : World'[c] = World[c]
  PROVE  World' = World
BY DEF World

\* Who has something to store is returning.
LEMMA PendingMeans ==
  \A t \in Thread, c \in Cell :
    c \in Pending(t) <=> stage[t] = "returning" /\ overlay[t][c] # None
BY DEF Pending, Kept

LEMMA PendingMeansNext ==
  \A t \in Thread, c \in Cell :
    c \in Pending(t)' <=> stage'[t] = "returning" /\ overlay'[t][c] # None
BY DEF Pending, Kept

-----------------------------------------------------------------------------
(* Every step is a step of the serial chain, a conflict, or none *)

LEMMA InitRefines == ParallelInit => Serial!Init
<1> SUFFICES ASSUME ParallelInit PROVE Serial!Init
  OBVIOUS
<1>1. \A t \in Thread : Pending(t) = {}
  BY DEF ParallelInit, Pending
<1>2. World = chain
  BY <1>1 DEF ParallelInit, World
<1>3. Cache = [t \in Thread |-> Nothing]
  BY DEF ParallelInit, Cache
<1>4. Unsettled = [t \in Thread |-> Nothing]
  BY <1>1 DEF Unsettled, Nothing
<1> QED BY <1>2, <1>3, <1>4 DEF ParallelInit, Serial!Init, Serial!Nothing, Nothing

\* The lock changes hands, or a call begins or returns.
LEMMA StutterRefines ==
  ASSUME ParallelTypeOK, NEW t \in Thread,
         \/ Acquire(t) \/ Yield(t) \/ Return(t)
         \/ \E how \in {"executing", "simulating"} : Call(t, how)
         \/ UNCHANGED parallelVars
  PROVE  UNCHANGED Serial!serialVars
<1>1. UNCHANGED <<chain, overlay, seen>>
  BY DEF Acquire, Yield, Return, Call, parallelVars
<1>2. \A u \in Thread : stage'[u] # stage[u] => overlay[u] = Nothing
  BY DEF Acquire, Yield, Return, MayReturn, Call, parallelVars, ParallelTypeOK
<1>3. \A u \in Thread, c \in Cell : c \in Pending(u)' <=> c \in Pending(u)
  BY <1>1, <1>2, NothingKept, PendingMeans, PendingMeansNext
<1>4. World' = World
  BY <1>1, <1>3, WorldStands, FunctionsEqual
<1>5. Cache' = Cache
  BY <1>1, <1>2 DEF Cache
<1>6. Unsettled' = Unsettled
  BY <1>1, <1>3 DEF Unsettled
<1> QED BY <1>1, <1>4, <1>5, <1>6 DEF Serial!serialVars

LEMMA UpdateRefines ==
  ASSUME ParallelTypeOK, NEW t \in Thread, NEW c \in Cell, NEW v \in Value,
         PythonUpdate(t, c, v), ~Undermines
  PROVE  Serial!Update(t, c, v) \/ UNCHANGED Serial!serialVars
<1>1. overlay[t] = Nothing /\ stage[t] = "python"
  BY DEF PythonUpdate, ParallelTypeOK
<1>2. Serial!Idle(t)
  BY <1>1 DEF Serial!Idle, Serial!Nothing, Nothing, Cache, Unsettled, Pending
<1>3. Cache' = Cache
  BY DEF PythonUpdate, Cache
<1>4. \A u \in Thread : Pending(u)' = Pending(u)
  BY DEF PythonUpdate, Pending
<1>5. \A u \in Thread, d \in Cell : d \in Pending(u) => chain'[d] = chain[d]
  BY <1>4 DEF Undermines
<1>6. Unsettled' = Unsettled
  BY <1>4, <1>5 DEF Unsettled
<1>7. \A d \in Cell : d # c => World'[d] = World[d]
  <2> SUFFICES ASSUME NEW d \in Cell, d # c PROVE World'[d] = World[d]
    OBVIOUS
  <2>1. chain'[d] = chain[d] /\ overlay' = overlay
    BY DEF PythonUpdate, ParallelTypeOK
  <2> QED BY <1>4, <2>1, WorldStands
<1>8. CASE \E u \in Thread : c \in Pending(u)
  <2>1. chain'[c] = chain[c] /\ overlay' = overlay /\ seen' = seen
    BY <1>5, <1>8 DEF PythonUpdate
  <2>2. World'[c] = World[c]
    BY <1>4, <2>1, WorldStands
  <2>3. World' = World
    BY <1>7, <2>2, FunctionsEqual
  <2> QED BY <1>3, <1>6, <2>1, <2>3 DEF Serial!serialVars
<1>9. CASE \A u \in Thread : c \notin Pending(u)
  <2>1. World'[c] = v
    BY <1>4, <1>9 DEF PythonUpdate, World, ParallelTypeOK
  <2>2. World' = [World EXCEPT ![c] = v]
    BY ZenonT(30), <1>7, <2>1 DEF World
  <2> QED BY <1>2, <1>3, <1>6, <2>2 DEF Serial!Update, PythonUpdate
<1> QED BY <1>8, <1>9

LEMMA ReadRefines ==
  ASSUME ParallelTypeOK, NEW t \in Thread, NEW c \in Cell, ReadCell(t, c), ~ReadsBehind
  PROVE  Serial!Read(t, c)
<1>1. stage[t] # "returning" /\ overlay[t][c] = None
  BY DEF ReadCell, InCode, Unread
<1>2. World[c] = chain[c]
  <2>1. seen[t][c] = None
    BY <1>1 DEF ReadCell, ParallelTypeOK, Kept
  <2>2. seen'[t][c] = chain[c]
    BY DEF ReadCell, Cached, ParallelTypeOK
  <2>3. chain[c] # None
    BY ParallelAssumption DEF ParallelTypeOK
  <2> QED BY <2>1, <2>2, <2>3 DEF ReadsBehind
<1>3. \A u \in Thread : stage[u] = "returning" => overlay'[u] = overlay[u]
  BY <1>1 DEF ReadCell, ParallelTypeOK
<1>4. \A u \in Thread : Pending(u)' = Pending(u)
  BY <1>3 DEF ReadCell, Pending, Kept
<1>5. World' = World
  BY <1>3, <1>4, PendingMeans, WorldStands, FunctionsEqual DEF ReadCell
<1>6. Unsettled' = Unsettled
  BY <1>4 DEF ReadCell, Unsettled
<1>7. Cache' = [Cache EXCEPT ![t] = [@ EXCEPT ![c] = World[c]]]
  BY <1>1, <1>2 DEF ReadCell, Cached, Cache, ParallelTypeOK
<1>8. Cache[t][c] = None /\ Unsettled[t] = Serial!Nothing
  BY <1>1 DEF Cache, Unsettled, Serial!Nothing, Pending
<1> QED BY <1>2, <1>5, <1>6, <1>7, <1>8 DEF Serial!Read, ReadCell, Cached

LEMMA WriteRefines ==
  ASSUME ParallelTypeOK, NEW t \in Thread, NEW c \in Cell, NEW v \in Value,
         WriteLocal(t, c, v)
  PROVE  Serial!Write(t, c, v)
<1>1. stage[t] # "returning" /\ overlay[t][c] # None
  BY DEF WriteLocal, InCode
<1>2. \A u \in Thread : stage[u] = "returning" => overlay'[u] = overlay[u]
  BY <1>1 DEF WriteLocal, ParallelTypeOK
<1>3. \A u \in Thread : Pending(u)' = Pending(u)
  BY <1>2 DEF WriteLocal, Pending, Kept
<1>4. World' = World
  BY <1>2, <1>3, PendingMeans, WorldStands, FunctionsEqual DEF WriteLocal
<1>5. Unsettled' = Unsettled
  BY <1>3 DEF WriteLocal, Unsettled
<1>6. Cache' = [Cache EXCEPT ![t] = [@ EXCEPT ![c] = v]]
  BY <1>1 DEF WriteLocal, Cache, ParallelTypeOK
<1> QED BY <1>1, <1>4, <1>5, <1>6 DEF Serial!Write, WriteLocal, Cache

\* What clears a call's overlay and what it has read clears the serial one.
LEMMA CloseRefines ==
  ASSUME ParallelTypeOK, NEW t \in Thread, InCode(t),
         stage' = [stage EXCEPT ![t] = "returning"],
         seen' = [seen EXCEPT ![t] = Nothing],
         \A u \in Thread : u # t => overlay'[u] = overlay[u]
  PROVE  Serial!Close(t)
<1>1. Cache' = [Cache EXCEPT ![t] = Nothing]
  BY DEF Cache, ParallelTypeOK
<1> QED BY <1>1 DEF Serial!Close, Serial!Nothing, Nothing

LEMMA ForgetRefines ==
  ASSUME ParallelTypeOK, NEW t \in Thread, InCode(t), UNCHANGED chain,
         stage' = [stage EXCEPT ![t] = "returning"],
         overlay' = [overlay EXCEPT ![t] = Nothing],
         seen' = [seen EXCEPT ![t] = Nothing]
  PROVE  Serial!Forget(t)
<1>1. \A u \in Thread : u # t => overlay'[u] = overlay[u] /\ stage'[u] = stage[u]
  BY DEF ParallelTypeOK
<1>2. \A d \in Cell : d \notin Pending(t) /\ d \notin Pending(t)'
  BY NothingKept, PendingMeans, PendingMeansNext DEF InCode, ParallelTypeOK
<1>3. \A u \in Thread, d \in Cell : d \in Pending(u)' <=> d \in Pending(u)
  BY <1>1, <1>2, PendingMeans, PendingMeansNext
<1>4. World' = World
  BY <1>1, <1>2, <1>3, WorldStands, FunctionsEqual
<1>5. Unsettled' = Unsettled
  BY <1>3 DEF Unsettled
<1> QED BY <1>1, <1>4, <1>5, CloseRefines DEF Serial!Forget

LEMMA CommitRefines ==
  ASSUME ParallelTypeOK, NEW t \in Thread, InCode(t), UNCHANGED <<chain, overlay>>,
         stage' = [stage EXCEPT ![t] = "returning"],
         seen' = [seen EXCEPT ![t] = Nothing],
         ~EndsBehind
  PROVE  Serial!Commit(t)
<1>1. Cache[t] = overlay[t]
  BY DEF Cache, InCode
<1>2. \A c \in Cell : c \notin Pending(t)
  BY PendingMeans DEF InCode
<1>3. \A c \in Cell : c \in Pending(t)' <=> overlay[t][c] # None
  BY PendingMeansNext DEF ParallelTypeOK
<1>4. \A u \in Thread : u # t => Pending(u)' = Pending(u)
  BY DEF Pending, ParallelTypeOK
<1>5. \A c \in Cell : overlay[t][c] # None => World[c] = seen[t][c] /\ c \notin Contested'
  BY <1>2, <1>3 DEF EndsBehind
<1>6. \A c \in Serial!Kept(seen[t]) : World[c] = seen[t][c]
  BY <1>5 DEF Serial!Kept, Kept, ParallelTypeOK
<1>7. ASSUME NEW c \in Cell, overlay[t][c] # None
      PROVE  World[c] = chain[c]
  <2>1. ASSUME NEW u \in Thread, c \in Pending(u)
        PROVE  overlay[u][c] = chain[c]
    <3>1. u # t /\ c \in Pending(u)' /\ c \in Pending(t)'
      BY <1>2, <1>3, <1>4, <1>7, <2>1
    <3>2. overlay'[u][c] = chain'[c]
      BY <1>5, <1>7, <3>1 DEF Contested
    <3> QED BY <3>2
  <2> QED BY <2>1, WorldOfSettled DEF SettledIsWorld
<1>8. ASSUME NEW c \in Cell
      PROVE  World'[c] = IF overlay[t][c] = None THEN World[c] ELSE overlay[t][c]
  <2>1. CASE overlay[t][c] = None
    <3>1. \A u \in Thread : c \in Pending(u)' <=> c \in Pending(u)
      BY <1>2, <1>3, <1>4, <2>1
    <3> QED BY <2>1, <3>1, WorldStands
  <2>2. CASE overlay[t][c] # None
    <3>1. c \in Pending(t)' /\ c \notin Contested'
      BY <1>3, <1>5, <2>2
    <3>2. World'[c] = overlay'[t][c]
      BY <3>1, WorldNext DEF OverlayIsWorld
    <3> QED BY <2>2, <3>2
  <2> QED BY <2>1, <2>2
<1>9. World' = Serial!Over(Cache[t], World)
  BY <1>1, <1>8 DEF World, Serial!Over
<1>10. Unsettled' = [Unsettled EXCEPT ![t] =
                      [c \in Cell |-> IF Cache[t][c] = None THEN None ELSE World[c]]]
  <2>1. \A u \in Thread : u # t => Unsettled'[u] = Unsettled[u]
    BY <1>4 DEF Unsettled
  <2>2. Unsettled'[t] = [c \in Cell |-> IF overlay[t][c] = None THEN None ELSE chain[c]]
    BY <1>3 DEF Unsettled
  <2>3. Unsettled'[t] = [c \in Cell |-> IF Cache[t][c] = None THEN None ELSE World[c]]
    BY <1>1, <1>7, <2>2
  <2> QED BY <2>1, <2>3 DEF Unsettled
<1>11. Serial!Close(t)
  BY CloseRefines
<1> QED BY <1>6, <1>9, <1>10, <1>11 DEF Serial!Commit

LEMMA FinishRefines ==
  ASSUME ParallelTypeOK, NEW t \in Thread, NEW success \in BOOLEAN, Finish(t, success),
         ~EndsBehind
  PROVE  Serial!Commit(t) \/ Serial!Forget(t)
<1>1. CASE success /\ stage[t] = "executing"
  BY <1>1, CommitRefines DEF Finish
<1>2. CASE ~(success /\ stage[t] = "executing")
  BY <1>2, ForgetRefines DEF Finish
<1> QED BY <1>1, <1>2

LEMMA WriteBackRefines ==
  ASSUME ParallelTypeOK, NEW t \in Thread, NEW piece \in Pieces, WriteBack(t, piece),
         ~Undermines, ~SettlesContested
  PROVE  Serial!Settle(t, piece)
<1>1. overlay'[t] = Without(overlay[t], piece) /\ stage[t] = "returning" /\ stage' = stage
  BY DEF WriteBack, ParallelTypeOK
<1>2. \A u \in Thread : u # t => overlay'[u] = overlay[u] /\ Pending(u)' = Pending(u)
  BY DEF WriteBack, Pending, ParallelTypeOK
<1>3. \A u \in Thread, c \in Cell : u # t /\ c \in Pending(u) => chain'[c] = chain[c]
  BY <1>2 DEF Undermines
<1>4. \A c \in Cell :
        c \in Pending(t)' <=> c \in Pending(t) /\ c \notin piece
  BY <1>1, PendingMeans, PendingMeansNext DEF Without
<1>5. \A c \in Cell : c \notin piece \/ c \notin Pending(t) => chain'[c] = chain[c]
  BY <1>1, PendingMeans DEF WriteBack, ParallelTypeOK
<1>6. ASSUME NEW c \in Cell
      PROVE  World'[c] = World[c]
  <2>1. CASE c \notin piece \/ c \notin Pending(t)
    <3>1. \A u \in Thread : c \in Pending(u)' <=> c \in Pending(u)
      BY <1>2, <1>4, <2>1
    <3>2. c \in Pending(t) => overlay'[t][c] = overlay[t][c]
      BY <1>1, <2>1 DEF Without
    <3>3. \A u \in Thread : c \in Pending(u) => overlay'[u][c] = overlay[u][c]
      BY <1>2, <3>2
    <3> QED BY <1>5, <2>1, <3>1, <3>3, WorldStands
  <2>2. CASE c \in piece /\ c \in Pending(t)
    <3>1. c \notin Contested
      BY <1>4, <2>2 DEF SettlesContested
    <3>2. World[c] = overlay[t][c]
      BY <2>2, <3>1, WorldIsOverlay DEF OverlayIsWorld
    <3>3. chain'[c] = overlay[t][c]
      BY <2>2, PendingMeans DEF WriteBack
    <3>4. ASSUME NEW u \in Thread, c \in Pending(u)'
          PROVE  overlay'[u][c] = chain'[c]
      <4>1. u # t /\ c \in Pending(u) /\ overlay'[u][c] = overlay[u][c]
        BY <1>2, <1>4, <2>2, <3>4
      <4>2. overlay[u][c] = chain[c]
        BY <2>2, <3>1, <4>1 DEF Contested
      <4> QED BY <1>3, <4>1, <4>2
    <3>5. World'[c] = chain'[c]
      BY <3>4, WorldNext DEF SettledIsWorld
    <3> QED BY <3>2, <3>3, <3>5
  <2> QED BY <2>1, <2>2
<1>7. World' = World
  BY <1>6, FunctionsEqual
<1>8. Cache' = Cache
  BY <1>1, <1>2 DEF Cache, WriteBack
<1>9. \A c \in Cell : Unsettled[t][c] # None <=> overlay[t][c] # None
  BY <1>1, ParallelAssumption, PendingMeans DEF Unsettled, ParallelTypeOK
<1>10. Unsettled' = [Unsettled EXCEPT ![t] = Serial!Without(Unsettled[t], piece)]
  <2>1. \A u \in Thread : u # t => Unsettled'[u] = Unsettled[u]
    BY <1>2, <1>3 DEF Unsettled
  <2>2. ASSUME NEW c \in Cell
        PROVE  Unsettled'[t][c] = Serial!Without(Unsettled[t], piece)[c]
    BY <1>4, <1>5 DEF Unsettled, Serial!Without
  <2>3. Unsettled'[t] = Serial!Without(Unsettled[t], piece)
    BY <2>2 DEF Unsettled, Serial!Without
  <2> QED BY <2>1, <2>3 DEF Unsettled
<1>11. piece \in StoragePieces
        => \A account \in AccountPieces : account \cap Serial!Kept(Unsettled[t]) = {}
  BY <1>9 DEF WriteBack, Due, Kept, Serial!Kept
<1> QED BY <1>7, <1>8, <1>10, <1>11 DEF Serial!Settle, WriteBack

LEMMA UndoRefines ==
  ASSUME ParallelTypeOK, NEW t \in Thread, Throw(t), ~InCode(t), ~SettlesContested
  PROVE  Serial!Undo(t)
<1>1. stage[t] = "returning"
  <2>1. overlay[t] # Nothing
    BY NothingKept DEF Throw, Due, Kept
  <2> QED BY <2>1 DEF ParallelTypeOK, InCode
<1>2. stage' = stage /\ seen' = seen
  BY <1>1 DEF Throw, ParallelTypeOK
<1>3. \A u \in Thread : u # t => overlay'[u] = overlay[u] /\ Pending(u)' = Pending(u)
  BY <1>2 DEF Throw, Pending, ParallelTypeOK
<1>4. overlay'[t] = Nothing
  BY DEF Throw, ParallelTypeOK
<1>5. \A c \in Cell : c \notin Pending(t)'
  BY <1>4, NothingKept, PendingMeansNext
<1>6. ASSUME NEW c \in Cell
      PROVE  World'[c] = Serial!Over(Unsettled[t], World)[c]
  <2>1. CASE c \notin Pending(t)
    <3>1. World'[c] = World[c]
      BY <1>3, <1>5, <2>1, WorldStands DEF Throw
    <3> QED BY <2>1, <3>1 DEF Serial!Over, Unsettled
  <2>2. CASE c \in Pending(t)
    <3>1. c \notin Contested
      BY <1>5, <2>2 DEF SettlesContested
    <3>2. ASSUME NEW u \in Thread, c \in Pending(u)'
          PROVE  overlay'[u][c] = chain'[c]
      <4>1. u # t /\ c \in Pending(u) /\ overlay'[u][c] = overlay[u][c]
        BY <1>3, <1>5, <3>2
      <4> QED BY <2>2, <3>1, <4>1 DEF Contested, Throw
    <3>3. World'[c] = chain[c]
      BY <3>2, WorldNext DEF Throw, SettledIsWorld
    <3>4. Unsettled[t][c] = chain[c] /\ chain[c] # None
      BY <2>2, ParallelAssumption DEF Unsettled, ParallelTypeOK
    <3> QED BY <3>3, <3>4 DEF Serial!Over
  <2> QED BY <2>1, <2>2
<1>7. World' = Serial!Over(Unsettled[t], World)
  BY <1>6 DEF World, Serial!Over
<1>8. Unsettled' = [Unsettled EXCEPT ![t] = Serial!Nothing]
  <2>1. \A u \in Thread : u # t => Unsettled'[u] = Unsettled[u]
    BY <1>3 DEF Unsettled, Throw
  <2>2. Unsettled'[t] = Serial!Nothing
    BY <1>5 DEF Unsettled, Serial!Nothing
  <2>3. Unsettled' = [u \in Thread |-> IF u = t THEN Serial!Nothing ELSE Unsettled[u]]
    <3>1. Unsettled' = [u \in Thread |-> Unsettled'[u]]
      BY DEF Unsettled
    <3> QED BY <2>1, <2>2, <3>1
  <2>4. Unsettled = [u \in Thread |-> Unsettled[u]]
    BY DEF Unsettled
  <2> QED BY <2>3, <2>4
<1>9. Cache' = Cache
  BY <1>1, <1>2, <1>3 DEF Cache
<1> QED BY <1>2, <1>7, <1>8, <1>9 DEF Serial!Undo

LEMMA ThrowRefines ==
  ASSUME ParallelTypeOK, NEW t \in Thread, Throw(t), ~SettlesContested
  PROVE  Serial!Forget(t) \/ Serial!Undo(t)
<1>1. CASE InCode(t)
  BY <1>1, ForgetRefines DEF Throw
<1>2. CASE ~InCode(t)
  BY <1>2, UndoRefines
<1> QED BY <1>1, <1>2

LEMMA NextRefines ==
  ParallelTypeOK /\ [ParallelNext]_parallelVars
    => [Serial!Next \/ Conflict]_(Serial!serialVars)
<1> SUFFICES ASSUME ParallelTypeOK, [ParallelNext]_parallelVars, ~Conflict
             PROVE  Serial!Next \/ UNCHANGED Serial!serialVars
  OBVIOUS
<1>1. ~ReadsBehind /\ ~EndsBehind /\ ~Undermines /\ ~SettlesContested
  BY DEF Conflict
<1>2. CASE UNCHANGED parallelVars
  <2>1. World' = World /\ Cache' = Cache /\ Unsettled' = Unsettled
    BY <1>2 DEF parallelVars, World, Pending, Cache, Unsettled
  <2> QED BY <1>2, <2>1 DEF parallelVars, Serial!serialVars
<1>3. CASE ParallelNext
  <2> PICK t \in Thread : Step(t)
    BY <1>3 DEF ParallelNext
  <2>1. CASE Callback(t)
    <3>1. ASSUME NEW c \in Cell, ReadCell(t, c) PROVE Serial!Next
      BY <1>1, <3>1, ReadRefines DEF Serial!Next
    <3>2. ASSUME NEW piece \in Pieces, WriteBack(t, piece) PROVE Serial!Next
      BY <1>1, <3>2, WriteBackRefines DEF Serial!Next, Pieces
    <3>3. CASE Throw(t)
      BY <1>1, <3>3, ThrowRefines DEF Serial!Next
    <3> QED BY <2>1, <3>1, <3>2, <3>3, StutterRefines DEF Callback
  <2>2. CASE InPython(t)
    <3>1. ASSUME NEW c \in Cell, NEW v \in Value, PythonUpdate(t, c, v)
          PROVE  Serial!Next \/ UNCHANGED Serial!serialVars
      BY <1>1, <3>1, UpdateRefines DEF Serial!Next
    <3> QED BY <2>2, <3>1, StutterRefines DEF InPython
  <2>3. CASE Ends(t)
    BY <1>1, <2>3, FinishRefines DEF Ends, Serial!Next
  <2>4. ASSUME NEW c \in Cell, NEW v \in Value, WriteLocal(t, c, v) PROVE Serial!Next
    BY <2>4, WriteRefines DEF Serial!Next
  <2> QED BY <2>1, <2>2, <2>3, <2>4, StutterRefines DEF Step
<1> QED BY <1>2, <1>3

\* Executes in parallel, of any threads on any cells, are executes one after the
\* other, up to what an exception of the provider undoes, but for the steps at
\* which one of the four conflicts happens: none but these breaks the serial order.
THEOREM ParallelIsSerialButForConflicts == ParallelSpec => SerialButForConflicts
<1>1. ParallelSpec => [][Serial!Next \/ Conflict]_(Serial!serialVars)
  BY OverlaysAreTyped, NextRefines, PTL DEF ParallelSpec
<1> QED BY <1>1, InitRefines, PTL DEF ParallelSpec, SerialButForConflicts

\* Threads that never come to conflict over a cell, for whatever reason, execute
\* one after the other.
THEOREM ParallelIsSerialWithoutConflicts ==
  ParallelSpec /\ [][~Conflict]_parallelVars => Serial!Spec
<1>1. UNCHANGED parallelVars => UNCHANGED Serial!serialVars
  BY DEF parallelVars, Serial!serialVars, World, Pending, Cache, Unsettled
<1>2. ParallelTypeOK /\ [ParallelNext]_parallelVars /\ [~Conflict]_parallelVars
        => [Serial!Next]_(Serial!serialVars)
  BY <1>1, NextRefines
<1>3. ParallelSpec /\ [][~Conflict]_parallelVars => [][Serial!Next]_(Serial!serialVars)
  BY OverlaysAreTyped, <1>2, PTL DEF ParallelSpec
<1> QED BY <1>3, InitRefines, PTL DEF ParallelSpec, Serial!Spec
=============================================================================

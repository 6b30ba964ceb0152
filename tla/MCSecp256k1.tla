---------------------------- MODULE MCSecp256k1 ----------------------------
(***************************************************************************)
(* The field and signing in one exploration: each while the other is at    *)
(* rest, for a call of either runs to its end in one thread.               *)
(***************************************************************************)
EXTENDS Secp256k1

MCInit == FieldInit /\ SignInit

MCNext ==
  \/ op = "none" /\ result = LimbsOf(0) /\ SignNext /\ UNCHANGED fieldVars
  \/ stage = "idle" /\ FieldNext /\ UNCHANGED signVars

MCSpec ==
  MCInit /\ [][MCNext]_<<fieldVars, signVars>> /\ WF_signVars(Signing /\ UNCHANGED fieldVars)

MCKeys   == {1, 2, 40, N - 1}
MCHashes == {0, 1, N, Size - 1}
MCNonces == {0} \cup {1, N, Size - 1}
MCGivenR == 0 .. (Size - 1)
MCGivenS == {0, 40, N - 1}
=============================================================================

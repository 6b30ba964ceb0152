SPECIFICATION MCSpec
CONSTANTS
  Base = 3
  Limbs = 4
  Fold = 2
  N = 67
  Bits = 7
  GX = 1
  GY = 18
  Keys <- MCKeys
  Hashes <- MCHashes
  Nonces <- MCNonces
  GivenR <- MCGivenR
  GivenS <- MCGivenS
INVARIANTS FieldTypeOK FieldOperationsAreExact ProductsAreReduced
INVARIANTS SignaturesRecoverTheSigner FailsOnlyPastN RecoveredKeysVerify
PROPERTIES SigningEnds

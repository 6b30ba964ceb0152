------------------------------ MODULE Secp256k1 ------------------------------
(***************************************************************************)
(* ECDSA as Secp256k1PrivateKey::sign and Secp256k1Signature::recover do   *)
(* it: a loop for the nonce, a restart when s is 0, the low-s rule by the  *)
(* top bit, and the recovery id found by trying to recover the signer.     *)
(*                                                                         *)
(* Coordinates are computed exactly modulo P: FieldArithmetic says of each *)
(* operation when that is so.  Scalars keep their width where it matters.  *)
(***************************************************************************)
EXTENDS FieldArithmetic

CONSTANTS
  N,         \* SECP256K1_CURVE_N, the order of the group
  Bits,      \* bits of a scalar
  GX, GY,    \* the generator
  Keys,      \* private keys that sign
  Hashes,    \* hashes that are signed, any 256-bit numbers
  Nonces,    \* nonces a caller gives; 0 asks for a random one
  GivenR, GivenS   \* signatures that come from elsewhere

ASSUME Secp256k1Assumption ==
  /\ N \in 2 .. (P - 1) /\ 2 * N > Size
  /\ \A d \in 2 .. (N - 1) : N % d # 0
  /\ Bits \in Nat /\ Size <= 2 ^ Bits
  /\ P % 4 = 3
  /\ {GX, GY} \subseteq 0 .. (P - 1) /\ (GY * GY) % P = (GX * GX * GX + 7) % P
  /\ Keys \subseteq 1 .. (N - 1)
  /\ Hashes \cup Nonces \cup GivenR \cup GivenS \subseteq 0 .. (Size - 1)

VARIABLES
  stage,             \* where signing stands
  key, hash, nonce,  \* the private key, the hash, kScalar
  signature,         \* a Secp256k1Signature
  public             \* what recover returned

signVars == <<stage, key, hash, nonce, signature, public>>

-----------------------------------------------------------------------------
(* The group *)

Point(x, y) == [x |-> x, y |-> y, infinity |-> FALSE]
Infinity    == [x |-> 0, y |-> 0, infinity |-> TRUE]
Generator   == Point(GX, GY)

FieldDifference(x, y) == (x + P - y) % P
FieldInverse(x) == ModInverse(x, P) % P

Curve == {Infinity} \cup
  {a \in [x : 0 .. (P - 1), y : 0 .. (P - 1), infinity : {FALSE}] :
     (a.y * a.y) % P = (a.x * a.x * a.x + 7) % P}

\* The third point of the line with slope m through a and b, mirrored.
OnLine(a, b, m) ==
  LET x == FieldDifference(FieldDifference((m * m) % P, a.x), b.x)
  IN  Point(x, FieldDifference((m * FieldDifference(a.x, x)) % P, a.y))

Slope(rise, run) == (rise * FieldInverse(run)) % P

GroupSum == [a \in Curve |-> [b \in Curve |->
  IF a.infinity THEN b
  ELSE IF b.infinity THEN a
  ELSE IF a.x # b.x
    THEN OnLine(a, b, Slope(FieldDifference(b.y, a.y), FieldDifference(b.x, a.x)))
  ELSE IF a.y # b.y \/ a.y = 0 THEN Infinity
  ELSE OnLine(a, a, Slope((3 * a.x * a.x) % P, (2 * a.y) % P))]]

Doubled == [a \in Curve |-> GroupSum[a][a]]

Opposite(a) == IF a.infinity THEN a ELSE Point(a.x, (P - a.y) % P)

\* The generator added to itself, what Multiple is for.
Sums[k \in Nat] == IF k = 0 THEN Infinity ELSE GroupSum[Sums[k - 1]][Generator]

\* The curve is the group that its generator generates, and N its order.
ASSUME GroupAssumption ==
  /\ \A a, b \in Curve : GroupSum[a][b] \in Curve
  /\ \A a, b \in Curve : GroupSum[GroupSum[a][b]][Generator] = GroupSum[a][GroupSum[b][Generator]]
  /\ Curve = {Sums[k] : k \in 0 .. (N - 1)}
  /\ Sums[N] = Infinity

\* Double and add from the top bit.
Multiple == [a \in Curve |-> [scalar \in 0 .. (Size - 1) |->
  LET product[i \in 0 .. Bits] ==
        IF i = Bits THEN Infinity
        ELSE IF (scalar \div (2 ^ i)) % 2 = 1 THEN GroupSum[Doubled[product[i + 1]]][a]
        ELSE Doubled[product[i + 1]]
  IN  product[0]]]

\* a^((P + 1) / 4) by squaring, 0 if its square is not a.
SquareRoot(a) ==
  LET power[i \in 0 .. Bits] == IF i = 0 THEN a ELSE (power[i - 1] * power[i - 1]) % P
      root[i \in 0 .. Bits] ==
        IF i = 0 THEN 1
        ELSE IF (((P + 1) \div 4) \div (2 ^ (i - 1))) % 2 = 1
          THEN (root[i - 1] * power[i - 1]) % P
        ELSE root[i - 1]
  IN  IF (root[Bits] * root[Bits]) % P = a THEN root[Bits] ELSE 0

-----------------------------------------------------------------------------
(* Scalars: reduced when made from a number, not by a sum *)

ScalarSum(a, b) ==
  LET sum == a + b
  IN  IF sum >= Size \/ sum % Size >= N THEN (sum + Size - N) % Size ELSE sum

ScalarProduct(a, b) == (a * b) % N
ScalarInverse(a)    == ModInverse(a % N, N) % N

IsValid(a, b) == a \in 1 .. (N - 1) /\ b \in 1 .. (N - 1)

\* Mutant of Opposed: the hash keeps its sign.
OpposedNever(z) == z % N
Opposed(z) == N - (z % N)

\* Secp256k1Signature::recover; the point at infinity stands for no key.
Recover(a, b, w, z) ==
  LET x      == Reduced(a)
      root   == SquareRoot((x * x * x + 7) % P)
      y      == IF root % 2 = w THEN P - root ELSE root
      rInv   == ScalarInverse(a)
      negate == Multiple[Generator][Opposed(z)]
  IN  IF root = 0 \/ rInv = 0 THEN Infinity
      ELSE Opposite(Multiple[GroupSum[Multiple[Point(x, y)][b]][Opposite(negate)]][rInv])

-----------------------------------------------------------------------------

\* kScalar of a call of sign(hash, k); random bytes are not reduced.
ScalarOf(k) == IF k = 0 THEN 0 .. (Size - 1) ELSE {k % N}

NoSignature == [r |-> 0, s |-> 0, v |-> 0]

SignInit ==
  /\ stage = "idle"
  /\ key = 0 /\ hash = 0 /\ nonce = 0
  /\ signature = NoSignature
  /\ public = Infinity

Sign(d, z, k) ==
  /\ stage' = "nonce"
  /\ key' = d /\ hash' = z /\ nonce' \in ScalarOf(k)
  /\ UNCHANGED <<signature, public>>

\* Mutant of NextNonce: the nonce is tried again.
NextNonceSame(k) == k
NextNonce(k) == (k + 1) % Size

TryNonce ==
  LET x == Multiple[Generator][nonce].x % N
  IN  /\ stage = "nonce"
      /\ signature' = [signature EXCEPT !.r = x]
      /\ IF x = 0 THEN nonce' = ScalarSum(nonce, 1) /\ UNCHANGED stage
         ELSE stage' = "s" /\ UNCHANGED nonce
      /\ UNCHANGED <<key, hash, public>>

\* Mutant of LowS: subtracted from 2^256.
LowSFromSize(b) == IF 2 * b >= Size THEN Size - b ELSE b

\* The top bit decides.
LowS(b) == IF 2 * b >= Size THEN N - b ELSE b

ComputeS ==
  LET b == ScalarProduct(ScalarSum(ScalarProduct(signature.r, key), hash), ScalarInverse(nonce))
  IN  /\ stage = "s"
      /\ IF b = 0
         THEN /\ nonce' \in ScalarOf(NextNonce(nonce))   \* sign(hash, k + 1)
              /\ stage' = "nonce"
              /\ UNCHANGED signature
         ELSE /\ signature' = [signature EXCEPT !.s = LowS(b)]
              /\ stage' = "recid"
              /\ UNCHANGED nonce
      /\ UNCHANGED <<key, hash, public>>

\* Mutant of IsSigners: any key will do.
IsSignersAny(recovered) == ~recovered.infinity
IsSigners(recovered) == ~recovered.infinity /\ recovered.x = Multiple[Generator][key].x

Recovered == Recover(signature.r, signature.s, signature.v, hash)

\* The first recovery id whose key has the signer's x.
TryRecovery ==
  LET found == IsSigners(Recovered)
  IN  /\ stage = "recid"
      /\ \/ /\ found
            /\ stage' = "signed" /\ UNCHANGED signature
         \/ /\ ~found /\ signature.v = 0
            /\ signature' = [signature EXCEPT !.v = 1] /\ UNCHANGED stage
         \/ /\ ~found /\ signature.v = 1
            /\ stage' = "failed" /\ signature' = NoSignature
      /\ UNCHANGED <<key, hash, nonce, public>>

RecoverSignature(a, b, w, z) ==
  /\ stage' = "recovered"
  /\ signature' = [r |-> a, s |-> b, v |-> w] /\ hash' = z
  /\ public' = Recover(a, b, w, z)
  /\ UNCHANGED <<key, nonce>>

Return ==
  /\ stage \in {"signed", "failed", "recovered"}
  /\ stage' = "idle"
  /\ key' = 0 /\ hash' = 0 /\ nonce' = 0
  /\ signature' = NoSignature
  /\ public' = Infinity

Signing == TryNonce \/ ComputeS \/ TryRecovery

SignNext ==
  \/ stage = "idle" /\ \E d \in Keys, z \in Hashes, k \in Nonces : Sign(d, z, k)
  \/ Signing
  \/ /\ stage = "idle"
     /\ \E a \in GivenR, b \in GivenS, w \in {0, 1}, z \in Hashes : RecoverSignature(a, b, w, z)
  \/ Return

SignSpec == SignInit /\ [][SignNext]_signVars

-----------------------------------------------------------------------------
(* Properties *)

\* What ECDSA asks of a signature (a, b) of hash z under public key q.
Verifies(q, a, b, z) ==
  LET w == ScalarInverse(b)
      x == GroupSum[Multiple[Generator][ScalarProduct(z, w)]][Multiple[q][ScalarProduct(a, w)]]
  IN  IsValid(a, b) /\ ~x.infinity /\ x.x % N = a

SignersKey == Multiple[Generator][key]

\* The nonce's point has an x past N, which recovery ids 0 and 1 cannot say.
PastN == Multiple[Generator][nonce].x >= N

\* A signature verifies under the signer's key, and recover returns that key from
\* it.  sign compares x only, so recover may return the key's opposite for a hash
\* that is 0 modulo N, and for a nonce past N, whose point recover does not find.
SignaturesRecoverTheSigner ==
  stage = "signed" =>
    /\ Verifies(SignersKey, signature.r, signature.s, hash)
    /\ hash % N # 0 /\ ~PastN => Recovered = SignersKey

\* Signing fails, with the signature (0, 0, 0), only for a nonce past N ("Something
\* must have gone very wrong").
FailsOnlyPastN == stage = "failed" => PastN

\* A key that recover returns for a valid signature verifies it.
RecoveredKeysVerify ==
  stage = "recovered" /\ ~public.infinity /\ IsValid(signature.r, signature.s)
    => Verifies(public, signature.r, signature.s, hash)

\* However the random nonces fall, sign returns: the loop for r and the restart
\* for s come to an end.
SigningEnds == stage = "nonce" ~> stage \in {"signed", "failed"}
=============================================================================

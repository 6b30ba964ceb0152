---------------------------- MODULE TransactionBuilder ----------------------------
(***************************************************************************)
(* EthereumTransactionBuilder::signAndExport: RLPEncoder appends the       *)
(* fields to a buffer behind a gap of six bytes, into which type and list  *)
(* header are written backwards, once to sign and, when the signature has  *)
(* been appended, once more to export.  Sizes and bytes are the code's.    *)
(***************************************************************************)
EXTENDS Integers, Sequences, SequencesExt, FiniteSets, FiniteSetsExt

CONSTANTS
  Requests,    \* what builders hold: records of the fields below
  Signatures   \* what Secp256k1PrivateKey::sign returns: records v, r, s,
               \* r and s as their bytes without leading zeros

Field == {"nonce", "maxPriorityFeePerGas", "maxFeePerGas", "gasLimit", "dst", "value",
          "calldata", "accessList"}

\* A number's bytes, most significant first and none for 0.
NumberBytes[n \in Nat] ==
  IF n = 0 THEN <<>> ELSE Append(NumberBytes[n \div 256], n % 256)

\* A uint256_t.
IsWord(n) == n \in Nat /\ Len(NumberBytes[n]) <= 32

ASSUME RequestsAssumption ==
  /\ \A r \in Requests :
       /\ DOMAIN r = Field
       /\ \A f \in Field \ {"dst", "calldata", "accessList"} : IsWord(r[f])
       /\ r.calldata \in Seq(0 .. 255) /\ r.dst \in Seq(0 .. 255) /\ Len(r.dst) = 20
  /\ \A sig \in Signatures :
       /\ IsWord(sig.v) /\ {sig.r, sig.s} \subseteq Seq(0 .. 255)
       /\ Len(sig.r) <= 32 /\ Len(sig.s) <= 32

VARIABLES
  stage,       \* "idle", "encoded", "signed" or "exported"
  request,     \* the builder's fields
  buffer,      \* out
  signed,      \* history: the bytes that were signed
  signature    \* empty before the first

builderVars == <<stage, request, buffer, signed, signature>>

-----------------------------------------------------------------------------
(* RLPEncoder *)

LengthByte(n, i) == (n \div 2 ^ (8 * i)) % 256

\* encodeLength: the bytes of a length are taken from the highest of four on,
\* until one is 0, so that lengths below 2^24 have none.
Header(n, offset) ==
  IF n < 56 THEN <<offset + n>>
  ELSE LET kept == Cardinality({i \in 0 .. 3 : \A j \in i .. 3 : LengthByte(n, j) # 0})
       IN  <<offset + 55 + kept>> \o [i \in 1 .. kept |-> LengthByte(n, 3 - kept + i)]

\* Mutant of StringOf: one byte is its own encoding, whatever it is.
StringOfAnyByte(bytes) ==
  IF Len(bytes) = 1 THEN bytes ELSE Header(Len(bytes), 128) \o bytes

StringOf(bytes) ==
  IF Len(bytes) = 1 /\ bytes[1] < 128 THEN bytes ELSE Header(Len(bytes), 128) \o bytes

NumberOf(n) == StringOf(NumberBytes[n])

CountBits(n) == Min({b \in 0 .. 30 : n < 2 ^ b})

LengthOfLength(n) == IF n < 56 THEN 1 ELSE (CountBits(n) + 15) \div 8

\* lengthOf for storage keys, of 32 bytes, and for the entry that holds them.
KeysLength(keys)    == 33 * Len(keys)
EntryContent(entry) ==
  LengthOfLength(KeysLength(entry.storageKeys)) + KeysLength(entry.storageKeys) + 21

EntryOf(entry) ==
  Header(EntryContent(entry), 192) \o StringOf(entry.address)
    \o Header(KeysLength(entry.storageKeys), 192)
    \o FlattenSeq([i \in 1 .. Len(entry.storageKeys) |-> StringOf(entry.storageKeys[i])])

\* The length of an entry is that of its header only.
AccessListOf(list) ==
  Header(FoldLeft(LAMBDA n, entry : n + LengthOfLength(EntryContent(entry)), 0, list), 192)
    \o FlattenSeq([i \in 1 .. Len(list) |-> EntryOf(list[i])])

-----------------------------------------------------------------------------
(* signAndExport *)

Gap == 6

Content(r) ==
  FlattenSeq(<<NumberOf(1), NumberOf(r.nonce), NumberOf(r.maxPriorityFeePerGas),
           NumberOf(r.maxFeePerGas), NumberOf(r.gasLimit), StringOf(r.dst),
           NumberOf(r.value), StringOf(r.calldata), AccessListOf(r.accessList)>>)

\* encodeListStartAtOffset's header: here the length's bytes go lowest first.
ListHeader(n) ==
  IF n < 56 THEN <<192 + n>>
  ELSE LET count == LengthOfLength(n)
       IN  <<192 + 55 + count - 1>> \o [i \in 1 .. (count - 1) |-> LengthByte(n, i - 1)]

\* Where the type goes, counted from 0, right before the header.
TypeIndex(out) == Gap - Len(ListHeader(Len(out) - Gap)) - 1

\* The buffer with type and header written into its gap.
Headed(out) ==
  LET head == <<2>> \o ListHeader(Len(out) - Gap)
  IN  [i \in 1 .. Len(out) |->
         IF i > TypeIndex(out) /\ i <= Gap THEN head[i - TypeIndex(out)] ELSE out[i]]

From(out, index) == SubSeq(out, index + 1, Len(out))

Encode ==
  /\ stage \in {"idle", "exported"}
  /\ buffer' = [i \in 1 .. Gap |-> 0] \o Content(request)
  /\ stage' = "encoded" /\ signed' = <<>>
  /\ UNCHANGED <<request, signature>>

Sign ==
  /\ stage = "encoded"
  /\ buffer' = Headed(buffer)
  /\ signed' = From(buffer', TypeIndex(buffer))
  /\ signature' \in Signatures
  /\ stage' = "signed"
  /\ UNCHANGED request

\* Mutant of Complete: the signature goes where the header was.
CompleteInPlace(out, sig) == out \o NumberOf(sig.v) \o StringOf(sig.r) \o StringOf(sig.s)

\* The list is longer now, and its header is written again, from further left.
Complete(out, sig) == Headed(CompleteInPlace(out, sig))

\* The first byte of the gap tells the caller where the transaction begins.
Export ==
  /\ stage = "signed"
  /\ LET out == Complete(buffer, signature)
     IN  buffer' = [out EXCEPT ![1] = TypeIndex(out)]
  /\ stage' = "exported"
  /\ UNCHANGED <<request, signed, signature>>

BuilderInit ==
  /\ stage = "idle" /\ buffer = <<>> /\ signed = <<>> /\ signature = <<>>
  /\ request \in Requests

BuilderNext == Encode \/ Sign \/ Export

BuilderSpec == BuilderInit /\ [][BuilderNext]_builderVars

-----------------------------------------------------------------------------
(* RLP as it is defined: the reference *)

PlainHeader(n, offset) ==
  IF n < 56 THEN <<offset + n>>
  ELSE <<offset + 55 + Len(NumberBytes[n])>> \o NumberBytes[n]

PlainString(bytes) ==
  IF Len(bytes) = 1 /\ bytes[1] < 128 THEN bytes
  ELSE PlainHeader(Len(bytes), 128) \o bytes

PlainList(items) == PlainHeader(Len(FlattenSeq(items)), 192) \o FlattenSeq(items)

PlainEntry(entry) ==
  PlainList(<<PlainString(entry.address),
              PlainList([i \in 1 .. Len(entry.storageKeys) |->
                           PlainString(entry.storageKeys[i])])>>)

\* The items of a transaction of type 2 without its signature, and with it.
Unsigned(r) ==
  [i \in 1 .. 5 |->
     PlainString(NumberBytes[<<1, r.nonce, r.maxPriorityFeePerGas, r.maxFeePerGas, r.gasLimit>>[i]])]
  \o <<PlainString(r.dst), PlainString(NumberBytes[r.value]), PlainString(r.calldata),
       PlainList([i \in 1 .. Len(r.accessList) |-> PlainEntry(r.accessList[i])])>>

WithSignature(r, sig) ==
  Unsigned(r) \o <<PlainString(NumberBytes[sig.v]), PlainString(sig.r), PlainString(sig.s)>>

Exported == From(buffer, buffer[1])

Small ==
  /\ Len(request.calldata) < 56 /\ request.accessList = <<>>
  /\ Len(FlattenSeq(WithSignature(request, signature))) < 256

\* What is signed is the transaction's own encoding without its signature, with
\* the header that this needs, as long as every string is short.
SignedIsTheRequest ==
  stage \in {"signed", "exported"} /\ Small
    => signed = <<2>> \o PlainList(Unsigned(request))

\* What is exported, from where the buffer says it begins, is the encoding of
\* the same fields with the signature, although the header was first written for
\* a shorter list and may have been shorter itself.
ExportIsTheTransaction ==
  stage = "exported" /\ Small => Exported = <<2>> \o PlainList(WithSignature(request, signature))

\* The same without bounds on sizes, which the builder promises by taking any
\* calldata and access list.
EveryExportIsTheTransaction ==
  stage = "exported" => Exported = <<2>> \o PlainList(WithSignature(request, signature))
=============================================================================

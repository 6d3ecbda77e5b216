# TLA+ verification of the Go package `jose`

`jose` produces and consumes JOSE objects: JSON Web Signatures (JWS), JSON Web
Encryption (JWE) and JSON Web Keys (JWK).  This directory models it in TLA+,
checks the models with TLC and proves theorems about them with TLAPS.

## The system

The package is a library of pure functions: it keeps no state between calls,
starts no goroutine and does no I/O.  What makes it hard is that a *producer*
and a *consumer*, in different processes, run different code over one document,
that the document is not under the library's control in between, and that calls
on documents with several signatures or recipients iterate, fail in part and
select keys several times over.

| component | source | state | operations | what makes it correct |
|---|---|---|---|---|
| base64url segments | `base64.go` | none | `EncodeSegment`, `DecodeSegment` | round trip; one spelling per octet string |
| headers | `header.go` | the header maps passed in | `decodeHeader`, `encodeHeader`, `mergeHeaders`, `checkCritical`, `checkCriticalProduced`, `resolveKey` | an unprotected member never shadows a protected one; `crit` is enforced alike at both ends |
| JWS | `jws.go` | locals of a call; the document in transit | `Sign`, `SignJSON`, `SignJSONMulti`, `Verify*`, `VerifyJSON*` | authenticity; what is emitted can be read; one good signature suffices |
| signature algorithms | `jwa_sign.go` | a constant table | `lookupSigAlg`, `sign`, `verify`, `defaultSigAlg` | an algorithm only ever runs with a key of its type and curve |
| JWK selection | `jwk.go`, `header.go` | the set passed in | `LookupKeyID`, `Key`, `selectJWK`, `checkJWKUsage` | the key whose restrictions are checked is the key used |
| JWK parameters | `jwk.go` | none | `rsaKey`, `ecKey`, `okpKey`, `octKey`, `FromKey`, `Public`, `Thumbprint`, `ParseJWK*` | `FromKey` and `Key` are inverse; bad parameters are refused |
| AES key wrap | `keywrap.go` | registers of the loop | `AESKeyWrap`, `AESKeyUnwrap` | unwrap inverts wrap; anything else fails the integrity check |
| key management | `jwa_keymgmt.go`, `ecdh.go` | none | `encryptKey`, `decryptKey` of each kind, `headerInt` | both ends derive the same key from what the header carries; the bounds of `p2c` and `p2s` are the same at both ends; failures look alike |
| content encryption | `contentenc.go` | none | `encrypt`, `decrypt`, `encryptCBCHMAC`, `decryptCBCHMAC`, `pkcs7Pad`, `pkcs7Unpad` | decryption inverts encryption; only a message as it was made decrypts |
| KDFs | `pbkdf2.go`, `ecdh.go` | locals of the loops | `PBKDF2`, `ConcatKDF`, `pbes2SaltInput` | the loops cover the requested length; different contexts give unrelated keys |
| JWE | `jwe.go`, `jwe_json.go` | locals of a call; the document in transit | `Encrypt`, `EncryptJSON`, `EncryptJSONMulti`, `Decrypt*`, `DecryptJSON*` | authenticity and secrecy by key; readable by every recipient; one good recipient suffices; the serializations agree |

Interactions: `Sign*` and `Encrypt*` call `resolveKey`, `checkJWKUsage`, the
header code and an algorithm table, in an order that decides which error a
caller sees and whether a document leaves at all; `Verify*` and `Decrypt*` make
the mirrored calls on what arrives.  The document is the only thing the two
ends share.

The hard behaviours, with the properties that cover them or why none does, are the
"hazards" of `PROJECT.json`, each at its line.

## The modules

| module | models | note |
|---|---|---|
| `Base64` | `base64.go` and what it uses of `encoding/base64`, bit by bit | used by the assumptions of `MCJWS` and the theorems of `JOSELemmas` |
| `Octets` | `base64.go`, the sentinels of `errors.go` | an octet string is an innermost text in a number of layers of base64url |
| `Header` | `header.go` but `resolveKey` | a Go map is a function on `Name` with `Absent` for a missing member; a value keeps its Go dynamic type |
| `Keys` | `resolveKey`, `selectJWK`, `checkJWKUsage`, `LookupKeyID`, `Key` | a key is its Go type, curve, size class and the identity of its key pair |
| `SigAlg` | `jwa_sign.go` | a signature is a term: algorithm, key pair, protected segment, payload segment |
| `JWS` | `jws.go` and the way between two calls | the state machine |
| `SignedDelivery` | nothing in the code | the abstract signed channel: facts are signed, only signed facts are delivered |
| `JWSProperties` | | the properties, the refinement mapping, the inductive invariant |
| `MCJWS` | | values of the constants for TLC; assumptions that check `Base64` on segments of up to five octets or characters |
| `JOSELemmas`, `JWSProofs` | | base64url; what `JWS` and `JWE` need of segments, headers and keys; the proofs of `JWS` |
| `KeyWrap` | `keywrap.go` | a state machine of its own: a block operation per step over an abstract permutation |
| `KeyWrapProperties`, `MCKeyWrap`, `KeyWrapProofs` | | its properties, values for TLC, proofs |
| `ContentEnc` | the table and length checks of `contentenc.go`; `deflate`, `inflate` | authenticated encryption is a term |
| `KeyMgmt` | `jwa_keymgmt.go`, key types and curves of `ecdh.go` | an encrypted key is a term: which secret wraps which CEK in which mode |
| `JWE` | `jwe.go`, `jwe_json.go` and the way between two calls | the state machine; extends `KeyMgmt`, and through it `Header` and `Keys` |
| `SealedDelivery` | nothing in the code | the abstract sealed channel: a message is sealed for readers and delivered to one of them |
| `JWEProperties`, `MCJWE` | | properties, refinement mapping and invariants; values for TLC |
| `JWELemmas`, `JWEProofs` | | what each function of `JWE` returns when it succeeds; the proofs |
| `CBCHMAC` | AES-CBC-HMAC-SHA2 of `contentenc.go` | octet sequences, padding and the layout of the tag's input |
| `KDF` | `ConcatKDF`, `PBKDF2` | one block or iteration per step; each octet of a key knows its hashes |
| `MCCBCHMAC`, `MCKDF`, `CBCHMACProofs`, `KDFProofs` | | values for TLC, proofs |
| `JWKParams`, `MCJWKParams` | the key parameters of `jwk.go`: `FromKey`, `Key`, `Public`, `IsPrivate`, `Thumbprint` | numbers and the octets that spell them; values for TLC |
| `JWKParamsProofs` | | what `FromKey` writes of each type of key and `Key` reads of it; the proofs |

`JWS` and `JWE` share `Octets`, `Header` and `Keys`, as their code does.  `JWE` uses
key wrapping, the KDFs and AES-CBC-HMAC as terms that open for exactly what made
them; `KeyWrap`, `KDF` and `CBCHMAC` are where that is shown of the code.

### State and actions of `JWS`

- `signing` holds the locals of `SignJSONMulti` (`payload`, `signers`,
  `out.Signatures`, `encodedPayload`, `out.Payload`); no signers means no call.
- `wire` holds the document, and beside it what it was made from and how often it
  was changed (history for the properties).
- `verifying` holds the locals of `VerifyJSONWithOptions` (the loop index, the
  last error) and the result of the last verification call.
- `issued` is history: every signature a call returned, with payload and signer.

| action | code |
|---|---|
| `Sign` | `Sign`, whole; a call that fails returns nothing and is no step |
| `StartSignJSONMulti`, `SignNext`, `SignReturn` | `SignJSONMulti`: entry, one iteration of the loop, `json.Marshal` and return |
| `Transit` | the way: headers edited, protected segments replaced or respelled, signatures lost or replaced, entries spliced from other documents, dropped, repeated and reordered, payloads replaced, serializations exchanged, documents broken |
| `Verify` | `VerifyWithOptions`, whole |
| `StartVerifyJSON`, `VerifyNext` | `VerifyJSONWithOptions`: the checks before the loop, one iteration |

Calls share no state in the code (all their data are arguments and locals), so
taking them one at a time (`Idle`) loses no behaviour.

### State and actions of `KeyWrap`

- `call` holds the arguments and locals of the latest call, `a` and `r` as the
  record `s`, the loop counters as the place `at`, and what it returned.
- `trace` and `prev` are history: the registers the call had below each block, and
  the call before it with its trace.

| action | code |
|---|---|
| `StartWrap`, `StartUnwrap` | entry of `AESKeyWrap` and `AESKeyUnwrap`: key length, argument length, copy into the registers |
| `WrapBlock`, `UnwrapBlock` | one round of the loops over `j` and `i` |
| `WrapReturn`, `UnwrapReturn` | the result; the integrity check |

AES is any permutation of pairs of 8-octet words per key, and the counter is mixed
in by any operation that undoes itself, which is all that the inverse depends on.
The counter, at most `6n`, stays far below 2^64.  In Go, `i` and `j` are `int`s
and every length is that of a slice in memory, so no width is modelled.

### State and actions of `JWE`

- `encrypting` holds the locals of `EncryptJSONMulti`: the call, `protected`, `cek`
  and the recipients finished so far.
- `wire` holds the document, what it was made as and from which call, and how often
  it was changed.
- `decrypting` holds the locals of `DecryptJSONWithOptions` (the order of
  `recipientOrder`, the index in it, the last error) and the result of the last call.
- `sealed` (history) has every content encryption a call returned; `drawn` counts what
  was taken from the random source.

| action | code |
|---|---|
| `EncryptCompact` | `Encrypt`, whole |
| `StartEncryptJSONMulti`, `EncryptNext`, `EncryptReturn` | `EncryptJSONMulti`: checks, one recipient, content encryption and `json.Marshal` |
| `Transit` | the way: headers, protected segments and "aad" replaced, encrypted keys, IV, ciphertext and tag damaged, recipients and content taken from other documents, recipients dropped, repeated and reordered, serializations exchanged |
| `Decrypt` | `DecryptWithOptions`, whole |
| `StartDecryptJSON`, `DecryptNext` | `DecryptJSONWithOptions`: checks and `recipientOrder`; `decryptOne` for one recipient |
| `ResultSeen` | the caller turns to its next call |

### State and actions of `CBCHMAC` and `KDF`

`CBCHMAC` has the message between `encryptCBCHMAC` and `decryptCBCHMAC` (`wire`), what
was encrypted (`sealed`) and what the latest decryption returned (`result`).  `Encrypt`
and `Decrypt` are the two functions, whole; `Resplit` divides the octets under a tag
anew, `Replace` mixes messages.

`KDF` has the arguments and locals of the call under way (`call`) and the keys derived
so far (`derived`).  `CallConcatKDF`, `ConcatBlock` and `ConcatReturn` are `ConcatKDF`;
`CallPBKDF2`, `StartBlock`, `Iterate`, `EndBlock` and `PBKDF2Return` are the two nested
loops of `PBKDF2`.

### State and actions of `JWKParams`

`jwk` is a JWK in memory or as JSON, `parsed` what the latest `ParseJWK` returned for it.
`origin` (history) is the Go key it was written from, empty once the JWK was changed,
and `edits` counts the changes.

| action | code |
|---|---|
| `Export`, `ExportAgain` | `FromKey` of a key of the caller's, or of the key that `ParseJWK` returned |
| `ParseJWK` | `ParseJWK`, and `JWK.Key` with `rsaKey`, `ecKey`, `okpKey`, `octKey` |
| `Publish` | `JWK.Public` |
| `Touch`, `Paste` | the JSON is edited: a parameter removed, replaced, padded with a zero octet or stripped of one; members taken from another JWK |

### Abstractions

- Octets: `"msg"` in one layer of base64url is what `EncodeSegment` gives for
  `"msg"`, and also a payload whose octets happen to spell it, so the confusion of
  the two forms of RFC 7797 is representable.  Counting layers is sound because
  `Base64`, which works on octets and characters, is shown to round-trip, to leave each
  segment one spelling, and to make every non-empty octet string longer
  (`SegmentRoundTrip`, `SegmentsAreCanonical`, `LayersLengthen`).
- A protected segment is one of: the spelling `encodeHeader` gives, another
  spelling of the same map, empty, null, not JSON, not base64url.
- JSON changes the dynamic type of a Go value, replaces text that is not UTF-8 and
  refuses some values; that is what `JSONValue`, `JSONString` and `Marshals` do.
- Cryptographic primitives are external and taken as sound: only the term the
  key pair made verifies.  The key type, curve and size checks before them are the
  code's.
- An `ecdsa` key without a `Curve` has `crv` `""`; inferring an algorithm for it panics,
  which is an outcome of its own (`"panic"`), after which no document leaves.  An
  `ed25519` private key of the wrong length still has its seed and lost octets of its
  public half, so that it verifies nothing; a shorter one, on which `crypto/ed25519`
  panics, and a longer one, of which verification uses the right half, are left out.
- `int` has 64 bits.  `headerInt` bounds only the `float64` that JSON gives to 32 bits;
  `MaxInt32` is 2000000 in TLC's runs, above the largest iteration count, and 3000000
  stands for the integers beyond it.
- The hash of an algorithm is always linked in (the package imports them), so that
  branch of `lookupSigAlg` is not taken.  A nil element in a JWK Set and a
  `SignJSONMulti` or `EncryptJSONMulti` call with no signers or recipients are left out.
- A secret is a term that says where it comes from: drawn, given, agreed (for `alg`,
  `apu` and `apv`) or derived from a password (with salt and count).  Two secrets are
  the same octets only if the terms are equal.  An ephemeral key is fresh.
- Which of several errors a failing producer call returns is left open in `JWE`, as no
  document leaves either way; which error a consumer returns is not.
- A plaintext has a size and may be a DEFLATE stream by accident, which is what makes
  a "zip" slipped in later dangerous.
- In `CBCHMAC` truncating the HMAC keeps tags apart, and `PutUint64` of a length in bits
  is injective up to the bound on lengths (it is below 2^61 octets in Go).
- In `KDF` the four octets of a 32-bit integer take one place of an octet string, so
  `Word` stands for both 2^8 and 2^32: what the separation of contexts needs is that a
  length prefix has a fixed width and does not wrap.  HMAC pads keys with zero octets,
  so passwords that differ in trailing zeros are one; that is left out.  PBES2's three
  PRFs are one.
- In `JWKParams` an octet string is the number it spells and its length, which is what
  leading zeros are about.  Scalar multiplication, the Ed25519 and X25519 public keys and
  the curves' orders are constants, TLC's being small tables in which some coordinates
  have leading zeros; a point is on the curve when it is a multiple of the generator.
  `rsa.PrivateKey.Validate` is modelled by the arithmetic it checks.  The digest of a
  thumbprint keeps different inputs apart.  "kid", "use", "alg" and "key_ops" are in
  `Keys`.
- Conversions of curve points (`ecdhToECDSAPublic`, `ecdsaToECDHPublic`), the listing
  functions (`KeyManagementAlgorithms`, `ContentEncryptionAlgorithms`) and error texts
  are left out.

## The runs

| run | question | bounds |
|---|---|---|
| `JWSProduce` | is whatever is emitted readable by whoever holds the key, and no JWK used against its restrictions? | every key argument with every algorithm choice and key ID, and every combination of 10 headers, 5 unprotected headers, 6 `crit` lists and detachment; 5 payloads; one signer; no change on the way |
| `JWSRelay` | is what verifies authentic, whatever happens on the way? | 3 signers, 3 payloads, 5 verifiers, 2 signatures issued, 2 changes |
| `JWSMulti` | does one good entry suffice wherever it stands, and do the loops end, by accepting when an entry verifies? | 6 signers in pairs, 6 verifiers, documents of up to 3 entries, 1 change |
| `KeyWrap` | does each operation take the other back, and is nothing else accepted? | words of one bit, keys of 2 and 3 words, 9 inputs with ragged and short ones, results wrapped and unwrapped again without limit |
| `JWEProduce` | is whatever is emitted readable by whoever holds the key, no JWK used against its restrictions, and do `Encrypt` and `EncryptJSON` make the same document? | all 17 algorithms with all 6 encryptions, every key argument, `p2c` and `p2s` at, below and above their bounds in every dynamic type, every combination of 13 headers, 4 unprotected headers, "aad" and compression; no change on the way |
| `JWERelay` | is what is decrypted authentic, and for its reader, whatever happens on the way; do the consumers agree; do failures look alike; does the inductive invariant hold? | a key agreement, a key wrap and an RSA1_5 document, 5 readers, 2 documents, 2 changes |
| `JWEMulti` | does one good recipient suffice wherever it stands, is a matching one tried first, and do the loops end? | 10 calls with two or three recipients, 9 readers, documents of 2 entries when rearranged, 2 changes |
| `CBCHMAC` | does decryption invert encryption, and does only a message as it was made decrypt? | octets of two bits, blocks of two octets, plaintexts of 0, 2 and 3 octets, 3 keys two of which share a MAC key, 2 messages, 2 changes |
| `KDF` | are derived keys whole, RFC 8018's, and unrelated for different contexts? | hashes of 2 octets, keys of 0, 1, 3 and 5, 0, 1 and 3 iterations, contexts whose concatenations coincide, 2 keys |
| `JWKParams` | are `FromKey` and `Key` inverse, is a thumbprint fit to be a key ID, is `Public` public? | octets of four bits, 2 curves with coordinates of 2 and 3 octets, 16 Go keys of every type (three primes, a curve without a name, wrong sizes and no octets included), 2 edits |
| `JWSEmpty`, `JWEPartyInfo` | findings, see below | the calls they are about, next to some that are not |

Two issued signatures or documents are enough for splicing one into another; two
changes are enough to combine one change with its disguise (an entry spliced and
its header edited); three entries are enough for a good entry first, in the middle
and last.  Words of one bit are enough for `KeyWrap` to show a counter that is off by
one, and two lengths an error in the place of a block; the same holds of blocks in
`CBCHMAC` and `KDF`, where the last block is full, part of one, or missing.  The proofs
below remove these bounds where they reach.

Deadlock is checked in every run but `KDF`: a caller can always make another
verification call once a document exists, and can always sign before.  In `KDF`
behaviours end when `MaxDerived` keys are derived; `DerivationReturns` says there that
no call is stuck on the way.

Fairness: the steps of the loops (`SignNext`, `SignReturn`, `VerifyNext`,
`EncryptNext`, `EncryptReturn`, `DecryptNext`, and those of `KDF`) are weakly fair,
because they are the iterations of sequential Go loops with no blocking operation in
them.  No fairness is assumed of callers or of the channel.  In `JWS` and `JWE` some of
these conditions are written out, `[]<>~enabled \/ []<><<A>>_vars`: each such step
changes a variable whenever its guard holds, so that is the same condition, and TLC
need not perform the cryptographic terms of the step to find out whether it is enabled.

### Findings

1. `JWSEmpty`: `Sign` emits a document for an empty payload, which every `Verify`
   refuses with `ErrDetachedPayload` (`jws.go:374`), against the invariant stated
   in `producer_guard_test.go:11`.
2. `JWEPartyInfo`: with several recipients, an `apu` or `apv` of the shared headers
   stands in the document but is not given to the key agreement
   (`jwe_json.go:177`); the consumer derives from the merged header and fails.

Four more have no run of their own.  Each shows up when the named run is given other
calls and, in the first and the last, another invariant:

- `JWSEmpty` with `Payloads <- DetachPayloads`, `Signers <- DetachSigners`,
  `Verifiers <- MultiVerifiers`, `MaxSigners = 2` and the invariant `DetachedIsOmitted`:
  `SignJSONMulti` does not make its signers agree on detachment (`jws.go:134`), although
  its comment (`jws.go:115`) says they must, and embeds the payload of a signer that
  asked for it to be omitted.
- `JWSEmpty` with `Payloads <- RawPayload` and `Signers <- UnencSigner`: with `b64`
  false, `SignJSONMulti` signs octets that `json.Marshal` then replaces
  (`jws.go:143`); the document does not verify.
- `JWEPartyInfo` with `Calls <- ZipCalls`: a `zip` of the caller that is the empty
  string, or no string, is emitted (`jwe.go:148`) and refused by `maybeInflate`
  (`jwe_json.go:385`).
- `JWEPartyInfo` with `Calls <- KeyIDCalls` and the invariant `KeyIDIsWritten`:
  `EncryptJSONMulti` drops `EncryptOptions.KeyID` when there are several recipients
  (`jwe_json.go:108`), against `jwe.go:31`.

And of JWKs, visible in the definitions the properties of `JWKParams` exclude them by:

- `ecKey` and `okpKey` accept a private JWK whose `d` belongs to another public key than
  its `x` and `y` say (`jwk.go:422`); its `Public` is then not the public half of its
  `Key` (`PairsUp`).  `rsaKey` does check that its parameters belong together.
- An X25519 private JWK is accepted with an `x` of any length, although `Public` of it
  does not resolve (`okpKey`).
- An RSA modulus of 0 is accepted, and `FromKey` then writes it as an absent member; of an
  RSA key with more than two primes `FromKey` writes two, which `rsaKey` refuses
  (`Representable`).
- Members with superfluous leading zeros are accepted, so one key has JWKs with different
  thumbprints; those `FromKey` writes have one (`Canonical`).

`EmittedIsReadable` states, in `JWSProperties` and `JWEProperties`, the promise outside
these cases.

## The proofs

For every value of the constants (any sets of names, symbols, keys, payloads, calls,
signers, verifiers, readers and edits, and any bounds):

| module | theorem | statement |
|---|---|---|
| `JOSELemmas` | `SegmentRoundTrip`, `SegmentsAreCanonical` | over `Base64`, for segments of every length: decoding inverts encoding, and no two segments decode alike |
| `JWSProofs` | `TypeCorrect`, `Invariance`, `CheckInvariance`, `LoopInvariance` | `Spec => []TypeOK`, `[]IInv`, `[]CheckInv`, `[]LoopInv` |
| | `Authenticity` | `Spec => []Authentic` |
| | `KeyRestrictions` | `Spec => []KeyRestrictionsHonoured` |
| | `CriticalAgreement` | `Spec => []CriticalHonoured` |
| | `OneGoodEntry` | `Spec => []OneGoodEntrySuffices` |
| | `ReadInvariance`, `Readability` | `Spec => []ReadInv`, `[]EmittedIsReadable` |
| | `Refinement` | `Spec => ImplementsSignedDelivery` |
| `JWEProofs` | `TypeCorrect`, `Invariance`, `LoopInvariance`, `ReturnedInvariance`, `MadeInvariance` | `Spec => []TypeOK`, `[]IInv`, `[]LoopInv`, `[]Returned`, `[]MadeInv` |
| | `Authenticity` | `Spec => []Authentic` |
| | `Confidentiality` | `Spec => []OnlyAddressees` |
| | `CriticalAgreement` | `Spec => []CriticalHonoured` |
| | `KeyRestrictions` | `Spec => []KeyRestrictionsHonoured` |
| | `OneGoodRecipient`, `MatchingFirst` | `Spec => []OneGoodRecipientSuffices`, `[]MatchingRecipientFirst` |
| | `SerializationsAgree`, `ProducersAlike` | `Spec => []ConsumersAgree`, `[]ProducersAgree` |
| | `Readability`, `FailuresUniform` | `Spec => []EmittedIsReadable`, `[]UniformFailure` |
| | `Refinement` | `Spec => ImplementsSealedDelivery` |
| `KeyWrapProofs` | `KeyWrapInvariance` | `Spec => []IInv` |
| | `UnwrapCorrect`, `OnlyWrappings` | `Spec => []UnwrapInvertsWrap`, `[]OnlyWrappingsUnwrap` |
| `CBCHMACProofs` | `UnpadInvertsPad`, `PadInvertsUnpad` | padding and unpadding are inverse, for every block size and length |
| | `IInvInvariant`, `RoundTripInvariant`, `BoundInvariant` | `Spec => []IInv`, `[]RoundTrip`, `[]Bound` |
| `KDFProofs` | `ConcatInvariant` | every octet of a key from `ConcatKDF` is of a hash over the whole context of its call |
| | `KeyInvariant` | `Spec => []KeyInv` |
| | `ContextsInvariant`, `VariantsInvariant` | `Spec => []ContextsSeparated`, `[]VariantsSeparated` |
| | `WholeKeysInvariant`, `RFC8018Invariant` | `Spec => []WholeKeys`, `[]MatchesRFC8018` |
| `JWKParamsProofs` | `Invariance` | `Spec => []IInv` |
| | `Inversion`, `Publicity`, `Identification` | `Spec => []FromKeyInvertsKey`, `[]PublicIsPublic`, `[]ThumbprintIdentifiesKey` |

### `JWS`

`Authentic` is not inductive: it says nothing about what documents hold or what
a signature was made over.  `IInv` adds that every signature in a document was
issued or made by no key (`WireGenuine`), that an issued signature covers the
payload in the form its own protected header declares (`IssuedMade`, and
`SigningMade` for those a call has not returned yet), that a document with one
signature has one (`WellFormed`) and that the loop is in range (`LoopInRange`).
A step that returns a document adds to `issued` exactly what it writes
(`EmitKeeps`); a change on the way moves signatures but makes none (`EditKeeps`); a
verification that succeeds pins the signature to a key pair, a protected segment
and a payload segment (`VerifySignatureSucceeds`), hence to an issued signature,
whose `IssuedMade` says how the payload is to be read (`VerifiedEntryIsCovered`).
The refinement follows step by step from the invariant.

`KeyRestrictionsHonoured` and `CriticalHonoured` compare what a consumer accepted with
the signer's call.  `CheckInv` carries both ends to where they meet: `MadeBy` says of
each issued signature, and of those a call has not returned yet, that its signer's key
permits it and that its header holds what the signer asked for; `CheckedResult` says of
an accepted result that key and `crit` were checked under the header the signature
covers.  That the key whose restrictions are checked is the key used is
`SelectedIsResolved` of `JOSELemmas`: `resolveKey` and `checkJWKUsage` each look through
the set for themselves, and agree on where they stop.

`OneGoodEntrySuffices` speaks of the end of the loop.  Under way, `LoopInv` says that
every entry before the one at hand has failed (`Tried`), so that a return is the first
success, or the last failure after all the others.

`EmittedIsReadable` compares a whole producer's call with a whole consumer's.  `ReadInv`
holds what the two have in common: every signature is what `signOne` returned for its
signer, all of them over one payload segment (`SigningSigned` under way, `AsSigned` in
the document), and `VerifyWithOptions` returned what that one signature gives
(`CompactReturned`; `LoopInv` says it of the loop).  What remains is to follow one
signature through `verifySignature`, check by check.  The headers merge, and the merged
header has the algorithm the signer chose and its "kid", although encoding/json lies in
between.  `crit` passes, because `checkCriticalProduced` refused every list that
`checkCritical` would.  The consumer selects a JWK of the signer's key pair, because the
"kid" written is the one `resolveKey` went by.  And the payload is decoded as it was
encoded, because both ends read "b64" in the protected header.  `Unreadable` has the two
ways this fails in the code: an empty payload, and octets that encoding/json replaces.

### `JWE`

A signature names who made it; a ciphertext names nobody.  What `IInv` adds to
`Authentic` is where keys come from: each call draws a CEK of its own (`SealMade`,
`CEKMade`, `SealsDistinct`), it wraps it for its addressees and for nobody else
(`Carries`; `EncryptingMade` for the recipients a call has finished so far), and on the
way keys and ciphertexts move but none is made (`WireSealed`).  A ciphertext that opens
pins the CEK; a drawn CEK pins the call; an agreed or given one pins the key pair, and
the ciphertext is then one that call made.  `Vouched` says this of an accepted result,
and `Authentic`, `OnlyAddressees` and `CriticalHonoured` are about the one call it
names.  `Asked` is the header a call asks for: for a single recipient that is folded
together with the recipient's own, as the code folds it.

`LoopInv` is that of `JWS` with `recipientOrder` in the place of the index: the order
has each recipient once (`RecipientOrderTriesAll`), and those whose "kid" matches come
first, in the order of the document.

`Returned` says that where no loop ran the result held is what `DecryptWithOptions`, or
the checks before the loop, make of the document.  With `LoopInv` it gives
`ConsumersAgree`: with one recipient, both make the same calls on the same header.

`MadeInv` says that the locals of `EncryptJSONMulti` are what its first iterations make
of the call and of what it drew (`Locals`, `Looped`), and the document last made what
the producer's functions make of them (`MadeBy`).  From there, `KeyRestrictionsHonoured`
follows as every recipient of the document is told the "alg" and "enc" its key was
checked for (`Entitled`), in whichever header they end up and although JSON lies in
between; and `ProducersAgree` as the two producers write one header: what
`EncryptJSONMulti` folds together (`FoldIsCompact`), checks for "crit" after key
management where `Encrypt` does so before (`CriticalUnchanged`), and marshals
(`SameWire`), is what `Encrypt` does at once.  `BothAccept` has the conditions under
which either succeeds, and they are the same ones.

`EmittedIsReadable` needs of `MadeInv` what the document tells each recipient.  `Wrote`
says in which of the three headers key management read its inputs and left its outputs
(`WroteHeaders`, `WroteKey`) and what the content is (`WrittenContent`); it is proved of
`Encrypt`, and of `EncryptJSONMulti` with one recipient, where the recipient's header is
folded into the protected one, and with several.  The consumer merges the headers, which
keeps every member (`MergedReads`), so that the recipient is `Told` what its key
management was given, unless an "apu" or "apv" stands where key management did not look
(`StrayPartyInfo`).  Then `decryptKey` gives back the CEK, for RSA, ECDH, key wrapping,
GCM key wrapping, PBES2 and "dir" in turn (`DecryptKeyRecovers`); the CEK opens the
content; and `inflate` undoes `deflate`, if the "zip" is "DEF" or absent (`IdleZip`).

`UniformFailure` is about the same steps when octets were changed: each may now fail, and
what is shown is that it fails in one way (`DecryptOneUniform`).  The hypotheses are those
without which the code does tell more: the key has the type, length and curve the
algorithm needs (`Fits`), and what any call sealed inflates within the consumer's limit,
as spliced content opens under a CEK spliced with it and is then inflated.

### `KeyWrap`, `CBCHMAC`, `KDF`

For `KeyWrap` neither property is inductive, because they speak of the ends of two
calls and nothing of what happens between.  Its `IInv` says that a call leaves a
chain behind in which each place follows from the one below by `wrapBlock` and
leads back to it by `unwrapBlock` (`Sound`), and that a call undoing the one before
it holds, at every place, the registers the other held there (`Retraced`).  One
block undoes the other (`WrapBlockInverse`, `UnwrapBlockInverse`); going round the
loop passes one block and overwrites none of those passed (`AfterOrder`,
`AfterApart`); so a call that succeeded leaves the whole chain (`ChainComplete`),
along which the next one comes down, or up, to where the first began.

For `CBCHMAC`, `Bound` needs to know where tags come from: `IInv` says that every seal
is what `encryptCBCHMAC` makes of some call, that the tag on the wire is none or that of
a seal, and that a result is that of the message now on the wire.  A tag that
verifies then has the octets AAD || IV || E || AL of a seal; the fixed width of AL
gives its last eight octets, hence the length of the AAD; the IV has one block; and
what is left is the ciphertext.  `RoundTrip` follows from `UnpadInvertsPad` and the
inverse of CBC.

For `KDF`, `ContextsSeparated` speaks of finished keys only; the invariant behind
`ConcatInvariant` says where each octet of `out` comes from while the loop is under
way.  Two hashes are equal only if their inputs are, and the inputs of two contexts
differ: after the secret, of one length, each length prefix fixes where its member
ends.  `KeyInv` does this for both functions and with the place of each octet: the
locals of the two nested loops of `PBKDF2` are the blocks finished (`Blocked`) and the
HMACs of the next one, and each octet of a key is that of the block it falls in
(`Octetwise`).  Block numbers are taken modulo `Word`, so that no octet occurs twice up
to the length 32 bits can count the blocks of (`Counted`), which is RFC 8018's limit.
The salt inputs of two PBES2 algorithms differ because no name has a zero octet in it.

### `JWKParams`

`FromKeyInvertsKey` speaks of keys that came out of an edited JWK as well as of callers'
keys, so `IInv` says what all keys have in common: `Key` returns only keys whose numbers
belong together (`Valid`: an RSA key passes `Validate`, a point is on its curve, an octet
key has its length), whatever JWK it is given, and the JWK of a key in `origin` is what
`FromKey` writes of it.  For each of the Go types, `Exported` then says that `Key` reads
back what `FromKey` wrote, and that the JWK `Shows` the public half: each member `Spells`
its number, in the width the type asks for, and is not empty.  An empty text is how an
absent member is written, and is what would be lost, so the lemmas on `Bytes` and `padBig`
are about that.

`PublicIsPublic` holds of any JWK.  `Key` looks only at members that `Public` keeps, and at
`d`; without `d` it takes the other branch, whose result is the public half of the first
(`PublicKeyRead`), if the private part belongs to the public one (`PairsUp`; for RSA
`Validate` has checked it).

For `ThumbprintIdentifiesKey`, JWKs with one thumbprint have the members it is over in
common (`SameThumbprint`), so that if one of them shows a public key the other does too
(`SameMembers`), and reads as that key (`ShownKey`).

`SegmentRoundTrip` and `SegmentsAreCanonical` go through the quanta of base64.  Three octets
and four characters determine each other by arithmetic (`QuantumEncodes`, `OuterDecodes`,
`InnerDecodes`), and a place past the end reads as zero on either side, which for the last
character is what the unused bits say (`EncodedQuantum`, `DecodedQuantum`).  The second
theorem needs both of the code's precautions: without the screen CR and LF stand anywhere,
without `Strict` the unused bits are free.

### Assumptions

The assumptions are those named in the modules: `""` and the replacement text are texts,
the registered names are names, no key pair is `NoPair`, what the code itself writes into
headers (the algorithm identifiers, `DEF`, the default iteration count) can stand there,
iteration counts are 32-bit integers, no octet string is drawn twice from the random
source, and the enumerated inputs have their types; for `KeyWrap`, that `Enc` and `Dec`
of a key are inverse and that mixing a counter in twice changes nothing; for `CBCHMAC`,
that CBC decryption undoes encryption and keeps lengths, and that `PutUint64` writes
eight octets and is injective; for `KDF`, that the secrets of key agreements have one
length (that of a curve's coordinate), no member is longer than its length prefix can
say, and the name of an algorithm holds no zero octet; for `JWKParams`, that the keys
callers give are `Valid`, as those the `crypto` packages make and accept are (an `ecdsa`
key of no known curve, an `ed25519` key of another length, an empty secret and an RSA key
without two primes are among them), that an octet has more than one value, sizes are not
zero, points are pairs of numbers and no curve of `EC` is named like one of `OKP`. `Base
^ 0 = 1` and `NotAString \notin Name` are stated because the prover knows neither powers
nor which strings are names.

### Only model-checked

`GoodEntryIsFound`, `GoodRecipientIsFound`, `CallsReturn` and `DerivationReturns`: liveness
under fairness, which the prover does not reach.  For the first two the safety half is
proved: a loop that ends has found the good entry (`OneGoodEntry`, `OneGoodRecipient`).
Every invariant, action property and refinement that a run checks is stated by a theorem.

## Plan

Done: every module of the table above with its runs, and the proofs of all safety
properties.  What could follow:

- `ParseJWKSet`: sets that arrive as JSON, with elements of a kind or curve the package
  does not know.
- The "kid" that `Thumbprint` gives a key used to select it in `Keys`, which would join
  `JWKParams` to `JWS` and `JWE`.
- Curve point conversions of `ecdh.go`.

## Not modelled

- JSON text and its parsing, beyond what it does to dynamic types and to text that is
  not UTF-8.
- `ParseJWKSet` and the hash of `Thumbprint`.
- SHA-2, HMAC, AES, RSA, elliptic curves: the primitives of Go's `crypto`, external.
- Timing: that comparisons take constant time is not a property of behaviours.

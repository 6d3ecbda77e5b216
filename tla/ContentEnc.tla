----------------------------- MODULE ContentEnc -----------------------------
(***************************************************************************)
(* Content encryption of a JWE (contentenc.go) and the compression that    *)
(* precedes it (deflate and inflate of jwe.go).                            *)
(*                                                                         *)
(* Authenticated encryption is a term: what was encrypted, with which key  *)
(* and algorithm, over which additional data.  It opens for exactly these. *)
(* The primitives behind it are external and taken to be sound; the        *)
(* composition of AES-CBC and HMAC is modelled in CBCHMAC.                 *)
(***************************************************************************)
EXTENDS Keys, Integers

CONSTANTS
    TextSize,   \* how many octets each text has
    Inflated    \* the texts that are DEFLATE streams, and what they expand to

ASSUME ContentAssumption ==
    /\ TextSize \in [Text -> Nat]
    /\ TextSize[""] = 0
    /\ DOMAIN Inflated \subseteq Text \ {""}
    /\ \A t \in DOMAIN Inflated : Inflated[t] \in Text

JWEErrors == Errors \cup {"ErrDecryptFailed", "ErrUnsupportedEncryption",
                          "ErrIterationCount", "ErrCompressionLimit"}

-----------------------------------------------------------------------------
(* Secret octet strings: keys and what is derived from them.               *)

\* random: drawn by newCEK, id tells the draws apart.  key: the octets of the
\* secret `id`.  ecdh: agreed between key pair `id` and the ephemeral key
\* `with`, for alg, apu and apv.  pbes2: derived from password `id` with the
\* salt `with`, for alg, in `count` iterations.
Secrets == [from : {"none", "random", "key", "ecdh", "pbes2"}, id : Symbol \cup Pair,
            with : Symbol, alg : Symbol, apu : Symbol, apv : Symbol,
            count : Int, size : Nat]
NoSecret == [from |-> "none", id |-> "", with |-> "", alg |-> "", apu |-> "", apv |-> "",
             count |-> 0, size |-> 0]
newCEK(id, size) == [NoSecret EXCEPT !.from = "random", !.id = id, !.size = size]

-----------------------------------------------------------------------------
(* Plaintext and body.                                                     *)

Bodies == [text : Text, deflated : BOOLEAN]
Body(t) == [text |-> t, deflated |-> FALSE]

deflate(t) == [text |-> t, deflated |-> TRUE]

\* A reader that stops one octet past the limit; the mutant stops at it.
MutInflate(b, limit) ==
    IF ~b.deflated /\ b.text \notin DOMAIN Inflated
    THEN [err |-> "ErrMalformed", body |-> Body("")]
    ELSE LET out == IF b.deflated THEN b.text ELSE Inflated[b.text]
         IN  IF TextSize[out] >= limit
             THEN [err |-> "ErrCompressionLimit", body |-> Body("")]
             ELSE [err |-> nil, body |-> Body(out)]

inflate(b, limit) ==
    IF ~b.deflated /\ b.text \notin DOMAIN Inflated
    THEN [err |-> "ErrMalformed", body |-> Body("")]
    ELSE LET out == IF b.deflated THEN b.text ELSE Inflated[b.text]
         IN  IF TextSize[out] > limit
             THEN [err |-> "ErrCompressionLimit", body |-> Body("")]
             ELSE [err |-> nil, body |-> Body(out)]

-----------------------------------------------------------------------------
(* Authenticated encryption.                                               *)

contentEnc(keySize, gcm) == [keySize |-> keySize, gcm |-> gcm]

contentEncs == [enc \in {"A128CBC-HS256", "A192CBC-HS384", "A256CBC-HS512",
                         "A128GCM", "A192GCM", "A256GCM"} |->
    CASE enc = "A128CBC-HS256" -> contentEnc(32, FALSE)
      [] enc = "A192CBC-HS384" -> contentEnc(48, FALSE)
      [] enc = "A256CBC-HS512" -> contentEnc(64, FALSE)
      [] enc = "A128GCM" -> contentEnc(16, TRUE)
      [] enc = "A192GCM" -> contentEnc(24, TRUE)
      [] OTHER -> contentEnc(32, TRUE)]   \* A256GCM

lookupEnc(enc) == IF enc \in DOMAIN contentEncs THEN nil ELSE "ErrUnsupportedEncryption"

Contents == [enc : Symbol, cek : Secrets, protected : ProtectedSegs, aad : Octets,
             body : Bodies]

\* contentEnc.encrypt over jweAAD(protected, aad).  The '.' between the two is
\* in neither alphabet, so jweAAD is injective.
encryptContent(enc, cek, protected, aad, body) ==
    [enc |-> enc, cek |-> cek, protected |-> protected, aad |-> aad, body |-> body]

\* How "iv", "ciphertext" or "tag" stands in a document: as encrypt made it,
\* as other octets of that length, empty, or not base64url.
PartForm == {"made", "other", "", "notb64"}
Parts == [iv : PartForm, ciphertext : PartForm, tag : PartForm]
AsMade == [iv |-> "made", ciphertext |-> "made", tag |-> "made"]

\* GCM encrypts no octets to no octets.
Unchanged(parts, c) ==
    /\ parts.iv = "made" /\ parts.tag = "made"
    /\ \/ parts.ciphertext = "made"
       \/ parts.ciphertext = "" /\ c.body = Body("") /\ contentEncs[c.enc].gcm

\* The mutant leaves the additional data out of what the tag covers.
MutDecryptContent(enc, cek, c, parts, protected, aad) ==
    IF cek.size # contentEncs[enc].keySize THEN "ErrInvalidKey"
    ELSE IF cek = c.cek /\ enc = c.enc /\ Unchanged(parts, c) THEN nil
    ELSE "ErrDecryptFailed"

\* contentEnc.decrypt: nil when c.body is returned.
decryptContent(enc, cek, c, parts, protected, aad) ==
    IF cek.size # contentEncs[enc].keySize THEN "ErrInvalidKey"
    ELSE IF /\ c = encryptContent(enc, cek, protected, aad, c.body)
            /\ Unchanged(parts, c) THEN nil
    ELSE "ErrDecryptFailed"
=============================================================================

------------------------------- MODULE SigAlg -------------------------------
(***************************************************************************)
(* The JWS signature algorithms (jwa_sign.go).                             *)
(*                                                                         *)
(* A signature is a term that says which key pair made it, with which      *)
(* algorithm, over which signing input; the primitives behind it (crypto/  *)
(* hmac, rsa, ecdsa, ed25519) are external and taken to be sound: a        *)
(* verification succeeds for that term only.  Octets that no key made are  *)
(* a term whose pair is NoPair.                                            *)
(***************************************************************************)
EXTENDS Keys

None   == "none"
NoPair == ""

sigAlg(kind, crv) == [kind |-> kind, crv |-> crv]

sigAlgs == [alg \in {"HS256", "HS384", "HS512", "RS256", "RS384", "RS512",
                     "PS256", "PS384", "PS512", "ES256", "ES384", "ES512", "EdDSA"} |->
    CASE alg \in {"HS256", "HS384", "HS512"} -> sigAlg("hmac", "")
      [] alg \in {"RS256", "RS384", "RS512"} -> sigAlg("pkcs1", "")
      [] alg \in {"PS256", "PS384", "PS512"} -> sigAlg("pss", "")
      [] alg = "ES256" -> sigAlg("ecdsa", "P-256")
      [] alg = "ES384" -> sigAlg("ecdsa", "P-384")
      [] alg = "ES512" -> sigAlg("ecdsa", "P-521")
      [] alg = "EdDSA" -> sigAlg("eddsa", "")]

ASSUME AlgAssumption == DOMAIN sigAlgs \subseteq Symbol

\* Every hash in the table is linked in by the package itself.
lookupSigAlg(alg) ==
    IF alg = None THEN "ErrNoneAlgDisallowed"
    ELSE IF alg \notin DOMAIN sigAlgs THEN "ErrUnsupportedAlgorithm"
    ELSE nil

-----------------------------------------------------------------------------
(* Signatures.                                                             *)

Signatures == [alg : Symbol, pair : Pair \cup {NoPair},
               protected : ProtectedSegs, payload : Octets]

\* What the signature of `pair` under `alg` over signingInput(protected,
\* payload) is.  The two segments are told apart because '.' occurs in no
\* protected segment: signingInput is injective.
signatureOf(alg, pair, protected, payload) ==
    [alg |-> alg, pair |-> pair, protected |-> protected, payload |-> payload]

SigningType(kind) ==
    CASE kind = "hmac"  -> "[]byte"
      [] kind = "ecdsa" -> "*ecdsa.PrivateKey"
      [] kind = "eddsa" -> "ed25519.PrivateKey"
      [] OTHER          -> "*rsa.PrivateKey"

VerifyingTypes(kind) ==
    CASE kind = "hmac"  -> {"[]byte"}
      [] kind = "ecdsa" -> {"*ecdsa.PublicKey", "*ecdsa.PrivateKey"}
      [] kind = "eddsa" -> {"ed25519.PublicKey", "ed25519.PrivateKey"}
      [] OTHER          -> {"*rsa.PublicKey", "*rsa.PrivateKey"}

\* sigAlg.sign's checks; nil when signatureOf is returned.
signErr(alg, key) ==
    LET a == sigAlgs[alg]
    IN  IF key.type # SigningType(a.kind) THEN "ErrInvalidKeyType"
        ELSE IF a.kind = "ecdsa" /\ key.crv # a.crv THEN "ErrInvalidKeyType"
        ELSE IF key.size = "wrong"
             THEN IF a.kind \in {"hmac", "eddsa"} THEN "ErrInvalidKey" ELSE "crypto"
        ELSE nil

\* The mutant compares nothing but the key that made the signature.
MutVerify(alg, protected, payload, sig, key) ==
    IF sig.pair = key.pair THEN nil ELSE "ErrSignatureInvalid"

verify(alg, protected, payload, sig, key) ==
    LET a == sigAlgs[alg]
    IN  IF key.type \notin VerifyingTypes(a.kind) THEN "ErrInvalidKeyType"
        ELSE IF a.kind = "ecdsa" /\ key.crv # a.crv THEN "ErrInvalidKeyType"
        ELSE IF key.size = "wrong" /\ (a.kind = "hmac" \/ key.type = "ed25519.PublicKey")
             THEN "ErrInvalidKey"
        ELSE IF \/ a.kind = "eddsa" /\ key.size = "wrong"   \* the public half was cut
                \/ sig # signatureOf(alg, key.pair, protected, payload)
             THEN "ErrSignatureInvalid"
        ELSE nil

-----------------------------------------------------------------------------
(* The conventional algorithm for a key, when SignOptions names none.      *)

ecdsaAlgFor(crv) ==
    CASE crv = "P-256" -> "ES256"
      [] crv = "P-384" -> "ES384"
      [] crv = "P-521" -> "ES512"
      [] OTHER -> ""

\* k.Curve.Params() panics on an ecdsa key that has no Curve.
defaultSigAlg(key) ==
    LET alg == CASE key.type = "[]byte" -> "HS256"
                 [] key.type \in {"*rsa.PrivateKey", "*rsa.PublicKey"} -> "RS256"
                 [] key.type \in {"ed25519.PrivateKey", "ed25519.PublicKey"} -> "EdDSA"
                 [] key.type \in {"*ecdsa.PrivateKey", "*ecdsa.PublicKey"} ->
                      IF key.crv = "" THEN "panic" ELSE ecdsaAlgFor(key.crv)
                 [] OTHER -> "unknown"
    IN  [err |-> CASE alg = "panic" -> "panic"
                   [] alg = "" -> "ErrUnsupportedAlgorithm"
                   [] alg = "unknown" -> "ErrInvalidKeyType"
                   [] OTHER -> nil,
         alg |-> alg]
=============================================================================

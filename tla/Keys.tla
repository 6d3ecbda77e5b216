-------------------------------- MODULE Keys --------------------------------
(***************************************************************************)
(* Keys as the signing and encryption calls take them: a Go crypto key, a  *)
(* *JWK or a *JWKSet (jwk.go), how a key is selected from a set, and the   *)
(* restrictions a JWK places on itself.                                    *)
(*                                                                         *)
(* A Go key is its dynamic type and the identity of its secret or key      *)
(* pair; the numbers in it are left out.                                   *)
(***************************************************************************)
EXTENDS Header

CONSTANT Pair   \* identities of secrets and key pairs

ASSUME PairAssumption == "" \notin Pair

KeyType == {"[]byte", "string", "*rsa.PrivateKey", "*rsa.PublicKey",
            "*ecdsa.PrivateKey", "*ecdsa.PublicKey",
            "ed25519.PrivateKey", "ed25519.PublicKey",
            "*ecdh.PrivateKey", "*ecdh.PublicKey"}

\* size is "wrong" for an empty []byte secret, an ed25519 key of another
\* length (a private one that still has its seed and lost octets of its public
\* half), and an RSA modulus too short for the algorithm.  crypto/ecdh knows
\* four curves, of which an elliptic.Curve cannot be X25519; an ecdsa key with
\* crv "" has no Curve.
GoKeys == {g \in [type : KeyType, pair : Pair, crv : Symbol, size : {"right", "wrong"}] :
             /\ g.type \in {"*ecdh.PrivateKey", "*ecdh.PublicKey"}
                   => g.crv \in {"P-256", "P-384", "P-521", "X25519"}
             /\ g.type \in {"*ecdsa.PrivateKey", "*ecdsa.PublicKey"} => g.crv # "X25519"}

\* A *JWK: whether its parameters resolve to a key and to which, and the
\* metadata that restricts it.  key_ops is empty when the member is absent.
JWKs == [valid : BOOLEAN, material : GoKeys, use : Symbol, alg : Symbol,
         kid : Symbol, key_ops : SUBSET Symbol]

\* The `key any` argument.  raw is meaningful for a Go key only, keys for a
\* JWK (its single element) and a JWK Set (its elements in document order).
KeyArgKind == {"go", "*JWK", "*JWKSet", "nil", "nil *JWK", "nil *JWKSet"}
KeyArgs == {k \in [kind : KeyArgKind, raw : GoKeys, keys : Seq(JWKs)] :
                k.kind = "*JWK" => Len(k.keys) = 1}

\* JWK.Key; the per-type parameter checks decide j.valid.
Key(j) ==
    IF j.valid THEN [err |-> nil, key |-> j.material]
    ELSE [err |-> "ErrInvalidKey", key |-> j.material]

\* JWKSet.LookupKeyID: the index of the first key whose Kid is kid, 0 if none.
LookupKeyID(set, kid) ==
    LET hits == {i \in 1..Len(set) : set[i].kid = kid}
    IN  IF hits = {} THEN 0 ELSE CHOOSE i \in hits : \A j \in hits : i <= j

-----------------------------------------------------------------------------

resolveKey(key, kid) ==
    LET none(e) == [err |-> e, key |-> key.raw]
        hit     == LookupKeyID(key.keys, kid)
    IN  CASE key.kind = "*JWK" -> Key(key.keys[1])
          [] key.kind = "*JWKSet" ->
               IF kid = "" /\ Len(key.keys) = 1 THEN Key(key.keys[1])
               ELSE IF hit = 0 THEN none("ErrKeyNotFound")
               ELSE Key(key.keys[hit])
          [] key.kind = "go" -> [err |-> nil, key |-> key.raw]
          [] OTHER -> none("ErrInvalidKey")

\* The mutant looks a key up by kid only, and so misses the key a set of one
\* resolves to without a kid.
MutSelectJWK(key, kid) ==
    CASE key.kind = "*JWK" -> 1
      [] key.kind = "*JWKSet" -> LookupKeyID(key.keys, kid)
      [] OTHER -> 0

\* selectJWK: the index in key.keys of the JWK resolveKey resolves, 0 for nil.
selectJWK(key, kid) ==
    CASE key.kind = "*JWK" -> 1
      [] key.kind = "*JWKSet" ->
           IF kid = "" /\ Len(key.keys) = 1 THEN 1 ELSE LookupKeyID(key.keys, kid)
      [] OTHER -> 0

checkJWKUsage(key, kid, use, algs, ops) ==
    LET at == selectJWK(key, kid)
        j  == key.keys[at]
    IN  IF at = 0 THEN nil
        ELSE IF j.use # "" /\ j.use # use THEN "ErrKeyUseMismatch"
        ELSE IF j.alg # "" /\ j.alg \notin algs THEN "ErrKeyAlgMismatch"
        ELSE IF j.key_ops # {} /\ j.key_ops \cap ops = {} THEN "ErrKeyOpsMismatch"
        ELSE nil
=============================================================================

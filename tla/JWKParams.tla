------------------------------ MODULE JWKParams ------------------------------
(***************************************************************************)
(* The parameters of a JSON Web Key (jwk.go): how FromKey writes them, how *)
(* Key reads and checks them, what Public and Thumbprint make of them.     *)
(*                                                                         *)
(* A JWK leaves FromKey, may be edited or mixed with another while it is   *)
(* JSON, is parsed, published or exported again.  Restrictions and key IDs *)
(* are in Keys.                                                            *)
(***************************************************************************)
EXTENDS Integers, Sequences, FiniteSets

CONSTANTS
    Base,                  \* how many values an octet has
    MaxExponent,           \* 1<<31 - 1
    Curves,                \* the EC curves of ecCurve
    CoordSize,             \* coordSize of each of them
    Order,                 \* curve.Params().N of each
    ScalarBaseMult(_, _),  \* the point a scalar multiplies the generator to
    OctetKeySize,          \* octets of an Ed25519 or X25519 key, public or private
    Ed25519Public(_),      \* the public key of a seed
    X25519Public(_),       \* the public key of a private one
    GoKeys,                \* what callers give FromKey
    Texts,                 \* what an edit may put in place of a parameter
    Pasted,                \* the sets of members an edit may take from another JWK
    MaxEdits               \* bound: edits of one JWK

\* An octet has more than one value, no octets have one.
BaseAssumption == Base \in Nat /\ Base > 1 /\ Base ^ 0 = 1 /\ MaxExponent \in Nat
ASSUME BaseAssumption

\* Points have two coordinates, and octet strings of fixed size are not empty.
CurveAssumption ==
    /\ {"", "Ed25519", "X25519"} \cap Curves = {} /\ OctetKeySize \in Nat \ {0}
    /\ \A crv \in Curves :
          /\ CoordSize[crv] \in Nat \ {0} /\ Order[crv] \in Nat
          /\ \A d \in 1..(Order[crv] - 1) : ScalarBaseMult(crv, d) \in Nat \X Nat
ASSUME CurveAssumption

Refused == [ok |-> FALSE, val |-> <<>>]
ok(v)   == [ok |-> TRUE, val |-> v]

-----------------------------------------------------------------------------
(* Octet strings, as the numbers they spell, and base64url of them.        *)

octets(n, len) == [num |-> n, len |-> len]

\* big.Int.Bytes, as long as it must be: as many octets as there are powers of
\* Base that n reaches.
ByteLen(n) == Cardinality({l \in 0..(n - 1) : \A i \in 0..l : n >= Base ^ i})
Bytes(n)   == octets(n, ByteLen(n))

\* The mutant does without the leading zeros.
MutPadBig(n, size) == Bytes(n)

padBig(n, size) == octets(n, size)

\* The text of a parameter: "" if absent or empty, not base64url, or the
\* spelling of an octet string.
Missing  == [form |-> "", num |-> 0, len |-> 0]
NotB64   == [form |-> "not base64url", num |-> 0, len |-> 0]
Text(o)  == [form |-> "b64", num |-> o.num, len |-> o.len]
EncodeSegment(o) == IF o.len = 0 THEN Missing ELSE Text(o)

b64Field(s) == IF s.form = "b64" THEN ok(octets(s.num, s.len)) ELSE Refused
b64Int(s)   == IF s.form = "b64" THEN ok(s.num) ELSE Refused

-----------------------------------------------------------------------------
(* Go keys.                                                                *)

rsaPublic(n, e) == [type |-> "*rsa.PublicKey", n |-> n, e |-> e]
\* crt: Precompute was called.
rsaPrivate(n, e, d, primes, crt) ==
    [type |-> "*rsa.PrivateKey", n |-> n, e |-> e, d |-> d, primes |-> primes, crt |-> crt]
ecdsaPublic(crv, x, y) == [type |-> "*ecdsa.PublicKey", crv |-> crv, x |-> x, y |-> y]
ecdsaPrivate(crv, x, y, d) ==
    [type |-> "*ecdsa.PrivateKey", crv |-> crv, x |-> x, y |-> y, d |-> d]
ed25519Public(x)  == [type |-> "ed25519.PublicKey", x |-> x]
ed25519Private(d) == [type |-> "ed25519.PrivateKey", d |-> d]
\* x is a point where crv is an EC curve, and an octet string for X25519.
ecdhPublic(crv, x)  == [type |-> "*ecdh.PublicKey", crv |-> crv, x |-> x]
ecdhPrivate(crv, d) == [type |-> "*ecdh.PrivateKey", crv |-> crv, d |-> d]
secret(k) == [type |-> "[]byte", k |-> k]

\* What rsa.PrivateKey.Validate asks of the numbers.
Validate(n, e, d, primes) ==
    /\ Len(primes) = 2
    /\ \A i \in 1..2 : primes[i] > 1 /\ (d * e) % (primes[i] - 1) = 1
    /\ primes[1] * primes[2] = n

\* The public half of a Go key.
PublicHalf(g) ==
    CASE g.type = "*rsa.PrivateKey"     -> rsaPublic(g.n, g.e)
      [] g.type = "*ecdsa.PrivateKey"   -> ecdsaPublic(g.crv, g.x, g.y)
      [] g.type = "ed25519.PrivateKey"  -> ed25519Public(octets(Ed25519Public(g.d.num), OctetKeySize))
      [] g.type = "*ecdh.PrivateKey"    ->
           ecdhPublic(g.crv, IF g.crv = "X25519" THEN octets(X25519Public(g.d), OctetKeySize)
                             ELSE ScalarBaseMult(g.crv, g.d))
      [] OTHER -> g

-----------------------------------------------------------------------------
(* FromKey.                                                                *)

Params == {"n", "e", "d", "p", "q", "dp", "dq", "qi", "x", "y", "k"}
NoJWK  == [m \in {"kty", "crv"} \cup Params |-> IF m \in Params THEN Missing ELSE ""]

jwkFromRSAPublic(n, e) ==
    [NoJWK EXCEPT !.kty = "RSA", !.n = EncodeSegment(Bytes(n)), !.e = EncodeSegment(Bytes(e))]

jwkFromECPublic(crv, x, y) ==
    LET coord(c) == EncodeSegment(padBig(c, CoordSize[crv]))
    IN  [NoJWK EXCEPT !.kty = "EC", !.crv = crv, !.x = coord(x), !.y = coord(y)]

okpFrom(crv, x) == [NoJWK EXCEPT !.kty = "OKP", !.crv = crv, !.x = EncodeSegment(x)]

\* An *ecdh.PublicKey on an EC curve is converted to an *ecdsa.PublicKey.
jwkFromECDHPublic(g) ==
    IF g.crv = "X25519" THEN okpFrom("X25519", g.x)
    ELSE jwkFromECPublic(g.crv, g.x[1], g.x[2])

fromRSAPrivate(g) ==
    LET int(n) == EncodeSegment(Bytes(n))
        p == g.primes[1]
        q == g.primes[2]
        j == [jwkFromRSAPublic(g.n, g.e) EXCEPT !.d = int(g.d)]
        two == IF Len(g.primes) >= 2 THEN [j EXCEPT !.p = int(p), !.q = int(q)] ELSE j
    IN  IF g.crt
        THEN [two EXCEPT !.dp = int(g.d % (p - 1)), !.dq = int(g.d % (q - 1)),
                         !.qi = int(CHOOSE i \in 1..(p - 1) : (i * q) % p = 1)]
        ELSE two

\* The mutant writes the whole private key, which ends in the public one.
MutSeed(g) == EncodeSegment(octets(g.d.num * Base ^ OctetKeySize + Ed25519Public(g.d.num),
                                   2 * OctetKeySize))

\* ed25519.PrivateKey.Seed.
seed(g) == EncodeSegment(g.d)

FromKey(g) ==
    CASE g.type = "*rsa.PublicKey" -> ok(jwkFromRSAPublic(g.n, g.e))
      [] g.type = "*rsa.PrivateKey" -> ok(fromRSAPrivate(g))
      [] g.type = "*ecdsa.PublicKey" ->
           IF g.crv \in Curves THEN ok(jwkFromECPublic(g.crv, g.x, g.y)) ELSE Refused
      [] g.type = "*ecdsa.PrivateKey" ->
           IF g.crv \in Curves
           THEN ok([jwkFromECPublic(g.crv, g.x, g.y) EXCEPT
                      !.d = EncodeSegment(padBig(g.d, CoordSize[g.crv]))])
           ELSE Refused
      [] g.type = "ed25519.PublicKey" ->
           IF g.x.len = OctetKeySize THEN ok(okpFrom("Ed25519", g.x)) ELSE Refused
      [] g.type = "ed25519.PrivateKey" ->
           IF g.d.len = OctetKeySize
           THEN ok([okpFrom("Ed25519", PublicHalf(g).x) EXCEPT !.d = seed(g)])
           ELSE Refused
      [] g.type = "*ecdh.PublicKey" -> ok(jwkFromECDHPublic(g))
      [] g.type = "*ecdh.PrivateKey" ->
           LET size == IF g.crv = "X25519" THEN OctetKeySize ELSE CoordSize[g.crv]
           IN  ok([jwkFromECDHPublic(PublicHalf(g)) EXCEPT
                     !.d = EncodeSegment(octets(g.d, size))])
      [] g.type = "[]byte" ->
           IF g.k.len = 0 THEN Refused ELSE ok([NoJWK EXCEPT !.kty = "oct",
                                                             !.k = EncodeSegment(g.k)])
      [] OTHER -> Refused

-----------------------------------------------------------------------------
(* Key.                                                                    *)

rsaKey(j) ==
    LET n == b64Int(j.n)  e == b64Int(j.e)  d == b64Int(j.d)
        p == b64Int(j.p)  q == b64Int(j.q)
        two    == j.p # Missing /\ j.q # Missing
        primes == IF two THEN <<p.val, q.val>> ELSE <<>>
    IN  IF ~n.ok \/ ~e.ok \/ e.val < 3 \/ e.val > MaxExponent THEN Refused
        ELSE IF j.d = Missing THEN ok(rsaPublic(n.val, e.val))
        ELSE IF ~d.ok \/ (two /\ (~p.ok \/ ~q.ok)) THEN Refused
        ELSE IF ~Validate(n.val, e.val, d.val, primes) THEN Refused
        ELSE ok(rsaPrivate(n.val, e.val, d.val, primes, TRUE))

IsOnCurve(crv, x, y) == \E d \in 1..(Order[crv] - 1) : ScalarBaseMult(crv, d) = <<x, y>>

ecKey(j) ==
    LET x == b64Int(j.x)  y == b64Int(j.y)  d == b64Int(j.d)
    IN  IF j.crv \notin Curves \/ ~x.ok \/ ~y.ok THEN Refused
        ELSE IF ~IsOnCurve(j.crv, x.val, y.val) THEN Refused
        ELSE IF j.d = Missing THEN ok(ecdsaPublic(j.crv, x.val, y.val))
        ELSE IF ~d.ok \/ d.val <= 0 \/ d.val >= Order[j.crv] THEN Refused
        ELSE ok(ecdsaPrivate(j.crv, x.val, y.val, d.val))

\* crypto/ecdh looks at the length of an X25519 key and at nothing else.
okpKey(j) ==
    LET x == b64Field(j.x)  d == b64Field(j.d)
    IN  IF j.crv \notin {"Ed25519", "X25519"} \/ ~x.ok THEN Refused
        ELSE IF (j.crv = "Ed25519" \/ j.d = Missing) /\ (x.val.len # OctetKeySize) THEN Refused
        ELSE IF j.d = Missing
        THEN IF j.crv = "Ed25519" THEN ok(ed25519Public(x.val))
             ELSE ok(ecdhPublic("X25519", x.val))
        ELSE IF ~d.ok \/ d.val.len # OctetKeySize THEN Refused
        ELSE IF j.crv = "Ed25519" THEN ok(ed25519Private(d.val))
        ELSE ok(ecdhPrivate("X25519", d.val.num))

octKey(j) == LET k == b64Field(j.k) IN IF k.ok THEN ok(secret(k.val)) ELSE Refused

Key(j) ==
    CASE j.kty = "RSA" -> rsaKey(j)
      [] j.kty = "EC"  -> ecKey(j)
      [] j.kty = "OKP" -> okpKey(j)
      [] j.kty = "oct" -> octKey(j)
      [] OTHER -> Refused

-----------------------------------------------------------------------------
(* The keys there are.                                                     *)

IsOctets(o) == o = octets(o.num, o.len)

\* What the crypto packages make and accept, and what Key returns: numbers that
\* belong together, points on their curves, keys of the length crypto/ecdh asks
\* for.  FromKey itself looks at the curve of an ecdsa key, and at the length of
\* an ed25519 key and of a secret.
ValidRSA(g) ==
    /\ g = rsaPrivate(g.n, g.e, g.d, g.primes, g.crt)
    /\ g.n \in Nat /\ g.e \in 3..MaxExponent /\ g.d \in Nat /\ g.primes \in Seq(Nat)
    /\ Len(g.primes) = 2 => Validate(g.n, g.e, g.d, g.primes)

ValidECDH(g) ==
    /\ g = ecdhPublic(g.crv, g.x)
    /\ \/ g.crv = "X25519" /\ IsOctets(g.x) /\ g.x.len = OctetKeySize
       \/ g.crv \in Curves /\ IsOnCurve(g.crv, g.x[1], g.x[2])

Scalars(crv) == 1..(Order[crv] - 1)

Valid(g) ==
    \/ g.type = "*rsa.PublicKey" /\ g = rsaPublic(g.n, g.e) /\ g.n \in Nat /\ g.e \in 3..MaxExponent
    \/ g.type = "*rsa.PrivateKey" /\ ValidRSA(g)
    \/ /\ g.type = "*ecdsa.PublicKey" /\ g = ecdsaPublic(g.crv, g.x, g.y)
       /\ g.crv \in Curves => IsOnCurve(g.crv, g.x, g.y)
    \/ /\ g.type = "*ecdsa.PrivateKey" /\ g = ecdsaPrivate(g.crv, g.x, g.y, g.d)
       /\ g.crv \in Curves => IsOnCurve(g.crv, g.x, g.y) /\ g.d \in Scalars(g.crv)
    \/ g.type = "ed25519.PublicKey" /\ g = ed25519Public(g.x) /\ IsOctets(g.x)
    \/ g.type = "ed25519.PrivateKey" /\ g = ed25519Private(g.d) /\ IsOctets(g.d) /\ g.d.num \in Nat
    \/ g.type = "*ecdh.PublicKey" /\ ValidECDH(g)
    \/ /\ g.type = "*ecdh.PrivateKey" /\ g = ecdhPrivate(g.crv, g.d) /\ g.d \in Nat
       /\ g.crv = "X25519" \/ (g.crv \in Curves /\ g.d \in Scalars(g.crv))
    \/ g.type = "[]byte" /\ g = secret(g.k) /\ IsOctets(g.k)

IsText(t) == t = [form |-> t.form, num |-> t.num, len |-> t.len] /\ t.num \in Nat

KeysAssumption == (\A g \in GoKeys : Valid(g)) /\ (\A t \in Texts : IsText(t))
ASSUME KeysAssumption

-----------------------------------------------------------------------------
(* Public, IsPrivate and Thumbprint.                                       *)

PrivateParams == {"d", "p", "q", "dp", "dq", "qi", "k"}

\* The mutant forgets the CRT parameters and a symmetric key beside the rest.
MutPublic(j) ==
    IF j.kty = "oct" \/ ~Key(j).ok THEN Refused
    ELSE ok([j EXCEPT !.d = Missing, !.p = Missing, !.q = Missing])

Public(j) ==
    IF j.kty = "oct" \/ ~Key(j).ok THEN Refused
    ELSE ok([m \in DOMAIN j |-> IF m \in PrivateParams THEN Missing ELSE j[m]])

IsPrivate(j) ==
    \/ j.kty \in {"RSA", "EC", "OKP"} /\ j.d # Missing
    \/ j.kty = "oct" /\ j.k # Missing

\* The members the digest is over, with their texts; the digest keeps
\* different ones apart.
required(kty) ==
    CASE kty = "RSA" -> {"e", "kty", "n"}
      [] kty = "EC"  -> {"crv", "kty", "x", "y"}
      [] kty = "OKP" -> {"crv", "kty", "x"}
      [] kty = "oct" -> {"k", "kty"}
      [] OTHER -> {}

absent(j, m) == IF m \in Params THEN j[m] = Missing ELSE j[m] = ""

\* The mutant leaves the curve out.
MutThumbprint(j) ==
    IF required(j.kty) = {} \/ \E m \in required(j.kty) : absent(j, m) THEN Refused
    ELSE ok([m \in required(j.kty) \ {"crv"} |-> j[m]])

Thumbprint(j) ==
    IF required(j.kty) = {} \/ \E m \in required(j.kty) : absent(j, m) THEN Refused
    ELSE ok([m \in required(j.kty) |-> j[m]])

-----------------------------------------------------------------------------
(* A JWK and what is done with it.                                         *)

VARIABLES
    jwk,     \* the JWK, in memory or as JSON
    origin,  \* {} or the Go key that FromKey made it from, as long as nobody
             \* changed it
    edits,   \* how often it was edited
    parsed   \* what ParseJWK made of it, once it was called

vars == <<jwk, origin, edits, parsed>>

Unparsed == Refused

\* Every caller's key that FromKey takes, and the JWK it writes.
Written == {[key |-> g, jwk |-> FromKey(g).val] : g \in {g \in GoKeys : FromKey(g).ok}}

Init == jwk = NoJWK /\ origin = {} /\ edits = 0 /\ parsed = Unparsed

\* FromKey, called with a key of the caller's.
Export ==
    \E w \in Written :
        jwk' = w.jwk /\ origin' = {w.key} /\ edits' = 0 /\ parsed' = Unparsed

\* FromKey, called with what ParseJWK returned.
ExportAgain ==
    /\ parsed.ok /\ FromKey(parsed.val).ok
    /\ jwk' = FromKey(parsed.val).val /\ origin' = {parsed.val} /\ parsed' = Unparsed
    /\ UNCHANGED edits

ParseJWK ==
    /\ parsed' = Key(jwk)
    /\ UNCHANGED <<jwk, origin, edits>>

Publish ==
    /\ Public(jwk).ok
    /\ jwk' = Public(jwk).val /\ origin' = {} /\ parsed' = Unparsed
    /\ UNCHANGED edits

Edit(j) ==
    /\ edits < MaxEdits /\ jwk # NoJWK
    /\ jwk' = j /\ origin' = {} /\ edits' = edits + 1 /\ parsed' = Unparsed

\* One parameter: removed, replaced, with a zero octet in front, without one.
Touch ==
    \E m \in Params :
        LET t == jwk[m]
        IN  \/ \E s \in Texts \cup {Missing} : Edit([jwk EXCEPT ![m] = s])
            \/ t.form = "b64" /\ Edit([jwk EXCEPT ![m].len = t.len + 1])
            \/ /\ t.form = "b64" /\ t.len > 1 /\ t.num < Base ^ (t.len - 1)
               /\ Edit([jwk EXCEPT ![m].len = t.len - 1])

\* Some members of another JWK.
Paste ==
    \E w \in Written, S \in Pasted :
        Edit([m \in DOMAIN jwk |-> IF m \in S THEN w.jwk[m] ELSE jwk[m]])

Next == Export \/ ExportAgain \/ ParseJWK \/ Publish \/ Touch \/ Paste

Spec == Init /\ [][Next]_vars

-----------------------------------------------------------------------------
(* Properties.                                                             *)

\* A JWK has its members, and its integers are spelled as numbers.
IntParams == {"n", "e", "d", "p", "q"}
IsJWK(j) ==
    /\ j = [m \in {"kty", "crv"} \cup Params |-> j[m]]
    /\ \A m \in IntParams : IsText(j[m])

(***************************************************************************)
(* Whatever was edited, Key returns only keys that belong together, and as *)
(* long as origin names a key the JWK is what FromKey writes of it.        *)
(***************************************************************************)
IInv ==
    /\ IsJWK(jwk)
    /\ parsed.ok => Valid(parsed.val)
    /\ \A g \in origin : Valid(g) /\ FromKey(g).ok /\ jwk = FromKey(g).val

\* FromKey writes two primes; a modulus of 0 is accepted, and written as "".
Representable(g) ==
    g.type \in {"*rsa.PublicKey", "*rsa.PrivateKey"} =>
        /\ g.n # 0
        /\ g.type = "*rsa.PrivateKey" => Len(g.primes) = 2

\* How Key represents a key: RSA with Precompute called, EC as ecdsa.
Resolved(g) ==
    CASE g.type = "*rsa.PrivateKey" -> rsaPrivate(g.n, g.e, g.d, g.primes, TRUE)
      [] g.type = "*ecdh.PublicKey" /\ g.crv # "X25519" -> ecdsaPublic(g.crv, g.x[1], g.x[2])
      [] g.type = "*ecdh.PrivateKey" /\ g.crv # "X25519" ->
           LET Q == ScalarBaseMult(g.crv, g.d) IN ecdsaPrivate(g.crv, Q[1], Q[2], g.d)
      [] OTHER -> g

(***************************************************************************)
(* FromKey "is the inverse of Key", both ways: what FromKey wrote resolves *)
(* to the same numbers, and so does what it writes of a key that came from *)
(* a JWK, however that was edited and whatever in it Key ignored.          *)
(***************************************************************************)
FromKeyInvertsKey ==
    \A g \in origin : Representable(g) => Key(jwk) = ok(Resolved(g))

\* The members FromKey gave the public key, as RFC 7518 wants them: integers
\* with no leading zeros, coordinates and octet keys in full length.
Canonical(pub) ==
    LET width(n, len) == Text(octets(n, len))
    IN  CASE pub.type = "*rsa.PublicKey" ->
               [kty |-> "RSA", n |-> Text(Bytes(pub.n)), e |-> Text(Bytes(pub.e))]
          [] pub.type = "*ecdsa.PublicKey" ->
               [kty |-> "EC", crv |-> pub.crv, x |-> width(pub.x, CoordSize[pub.crv]),
                y |-> width(pub.y, CoordSize[pub.crv])]
          [] pub.type = "ed25519.PublicKey" ->
               [kty |-> "OKP", crv |-> "Ed25519", x |-> width(pub.x.num, OctetKeySize)]
          [] pub.type = "*ecdh.PublicKey" ->
               [kty |-> "OKP", crv |-> "X25519", x |-> width(pub.x.num, OctetKeySize)]
          [] OTHER -> [kty |-> "oct", k |-> Text(pub.k)]

(***************************************************************************)
(* The thumbprint of a key that FromKey wrote is the one RFC 7638 gives    *)
(* its public half ("stable across implementations"), and a JWK with the   *)
(* thumbprint of a caller's key has that public half and no other, however *)
(* it came about: a thumbprint is fit to be a key ID.                      *)
(***************************************************************************)
ThumbprintIdentifiesKey ==
    /\ \A g \in origin : Representable(g) =>
          Thumbprint(jwk) = ok(Canonical(PublicHalf(Resolved(g))))
    /\ Public(jwk).ok /\ Key(Public(jwk).val).ok =>
          \A w \in Written :
              Representable(w.key) /\ Thumbprint(jwk) = Thumbprint(w.jwk) =>
                  Key(Public(jwk).val).val = PublicHalf(Resolved(w.key))

\* The private number belongs to the public ones; Key checks it for RSA only.
PairsUp(j) ==
    LET g == Key(j).val
    IN  CASE j.kty = "EC" /\ j.d # Missing -> ScalarBaseMult(j.crv, g.d) = <<g.x, g.y>>
          [] j.kty = "OKP" /\ j.d # Missing ->
               PublicHalf(g).x = b64Field(j.x).val
          [] OTHER -> TRUE

(***************************************************************************)
(* "A private JWK and its public form": Public of whatever JWK resolves    *)
(* resolves to the public half of the key, keeps its thumbprint, and has   *)
(* none of the private texts, those that Key never looked at included.     *)
(***************************************************************************)
PublicIsPublic ==
    LET pub == Public(jwk).val
    IN  (Public(jwk).ok /\ PairsUp(jwk)) =>
            /\ Key(pub) = ok(PublicHalf(Key(jwk).val))
            /\ Thumbprint(pub) = Thumbprint(jwk)
            /\ ~IsPrivate(pub)
            /\ \A m \in PrivateParams : jwk[m] # Missing => pub[m] # jwk[m]
=============================================================================

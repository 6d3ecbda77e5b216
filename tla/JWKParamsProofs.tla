--------------------------- MODULE JWKParamsProofs ---------------------------
(***************************************************************************)
(* What holds of JWK parameters for every value of the constants: FromKey  *)
(* and Key are inverse, thumbprints identify keys, Public is public.       *)
(***************************************************************************)
EXTENDS JWKParams, FiniteSetTheorems, TLAPS

Members == {"kty", "crv"} \cup Params

-----------------------------------------------------------------------------
(* Texts.                                                                  *)

\* No number but 0 is spelled with no octets.
LEMMA BytesNotEmpty ==
  ASSUME NEW n \in Nat, n # 0
  PROVE  ByteLen(n) # 0
<1> DEFINE reached == {l \in 0..(n - 1) : \A i \in 0..l : n >= Base ^ i}
<1>1. 0 \in reached
  <2>1. \A i \in 0..0 : n >= Base ^ i
    <3> SUFFICES ASSUME NEW i \in 0..0 PROVE n >= Base ^ i
      OBVIOUS
    <3>1. i = 0
      OBVIOUS
    <3> QED BY <3>1, BaseAssumption DEF BaseAssumption
  <2> QED BY <2>1
<1>2. IsFiniteSet(0..(n - 1)) /\ reached \subseteq 0..(n - 1)
  BY FS_Interval
<1>3. IsFiniteSet(reached)
  BY <1>2, FS_Subset
<1> HIDE DEF reached
<1>4. Cardinality(reached) # 0
  BY <1>1, <1>3, FS_EmptySet
<1> QED BY <1>4 DEF ByteLen, reached

\* What EncodeSegment writes of octets, and b64Int and b64Field read again.
Spells(t, n, len) == t = Text(octets(n, len)) /\ t # Missing /\ b64Int(t) = ok(n)

LEMMA EncodedSpells ==
  ASSUME NEW n, NEW len, len # 0
  PROVE  Spells(EncodeSegment(octets(n, len)), n, len)
  BY DEF Spells, EncodeSegment, octets, Text, Missing, b64Int, ok

LEMMA BytesSpell ==
  ASSUME NEW n \in Nat, n # 0
  PROVE  Spells(EncodeSegment(Bytes(n)), n, ByteLen(n))
  BY BytesNotEmpty, EncodedSpells DEF Bytes

LEMMA FieldSpelled ==
  ASSUME NEW t, NEW n, NEW len, Spells(t, n, len)
  PROVE  b64Field(t) = ok(octets(n, len))
  BY DEF Spells, b64Field, Text, octets

LEMMA EncodedIsText ==
  ASSUME NEW n \in Nat, NEW len
  PROVE  IsText(EncodeSegment(octets(n, len)))
  BY DEF IsText, EncodeSegment, octets, Text, Missing

LEMMA MissingIsText == IsText(Missing)
  BY DEF IsText, Missing

LEMMA NoJWKType == /\ IsJWK(NoJWK) /\ \A m \in Params : NoJWK[m] = Missing
                   /\ NoJWK.kty = "" /\ NoJWK.crv = ""
<1>1. \A m \in Params : NoJWK[m] = Missing
  BY DEF NoJWK, Params
<1>2. NoJWK = [m \in {"kty", "crv"} \cup Params |-> NoJWK[m]]
  BY DEF NoJWK, Params
<1>3. IntParams \subseteq Params
  BY DEF IntParams, Params
<1>4. NoJWK.kty = "" /\ NoJWK.crv = ""
  BY DEF NoJWK, Params
<1> QED BY <1>1, <1>2, <1>3, <1>4, MissingIsText DEF IsJWK

LEMMA CurveSizes ==
  ASSUME NEW crv \in Curves
  PROVE  Order[crv] \in Nat /\ CoordSize[crv] \in Nat /\ CoordSize[crv] # 0
  BY CurveAssumption DEF CurveAssumption

-----------------------------------------------------------------------------
(* What Key returns are keys.                                              *)

LEMMA IntTyped ==
  ASSUME NEW j, IsJWK(j), NEW m \in IntParams, b64Int(j[m]).ok
  PROVE  b64Int(j[m]).val \in Nat
  BY DEF IsJWK, IsText, b64Int, ok, Refused

LEMMA RSAKeyValid ==
  ASSUME NEW j, IsJWK(j), rsaKey(j).ok
  PROVE  Valid(rsaKey(j).val)
<1> DEFINE n == b64Int(j.n)
           e == b64Int(j.e)
           d == b64Int(j.d)
           p == b64Int(j.p)
           q == b64Int(j.q)
           two == j.p # Missing /\ j.q # Missing
           primes == IF two THEN <<p.val, q.val>> ELSE <<>>
<1>1. /\ n.ok => n.val \in Nat
      /\ e.ok => e.val \in Nat
      /\ d.ok => d.val \in Nat
      /\ p.ok => p.val \in Nat
      /\ q.ok => q.val \in Nat
  BY IntTyped DEF IntParams
<1> DEFINE rest == IF ~d.ok \/ (two /\ (~p.ok \/ ~q.ok)) THEN Refused
                   ELSE IF ~Validate(n.val, e.val, d.val, primes) THEN Refused
                   ELSE ok(rsaPrivate(n.val, e.val, d.val, primes, TRUE))
<1>2. rsaKey(j) = IF ~n.ok \/ ~e.ok \/ e.val < 3 \/ e.val > MaxExponent THEN Refused
                  ELSE IF j.d = Missing THEN ok(rsaPublic(n.val, e.val))
                  ELSE rest
  BY DEF rsaKey
<1> HIDE DEF n, e, d, p, q, two, primes, rest
<1>3. n.ok /\ e.ok /\ ~(e.val < 3) /\ ~(e.val > MaxExponent)
  BY <1>2 DEF Refused
<1>4. n.val \in Nat /\ e.val \in 3..MaxExponent
  BY <1>1, <1>3, BaseAssumption DEF BaseAssumption
<1>5. CASE j.d = Missing
  <2>1. rsaKey(j).val = rsaPublic(n.val, e.val)
    BY <1>2, <1>3, <1>5 DEF ok
  <2> QED BY <1>4, <2>1 DEF Valid, rsaPublic
<1>6. CASE j.d # Missing
  <2>0. rsaKey(j) = rest
    BY <1>2, <1>3, <1>6
  <2>1. /\ d.ok /\ (two => p.ok /\ q.ok) /\ Validate(n.val, e.val, d.val, primes)
        /\ rsaKey(j).val = rsaPrivate(n.val, e.val, d.val, primes, TRUE)
    <3>1. rest.ok
      BY <2>0
    <3> HIDE DEF rsaKey
    <3>2. d.ok /\ (two => p.ok /\ q.ok) /\ Validate(n.val, e.val, d.val, primes)
      BY <3>1, Zenon DEF rest, Refused
    <3>3. rest = ok(rsaPrivate(n.val, e.val, d.val, primes, TRUE))
      BY <3>2 DEF rest
    <3> QED BY <2>0, <3>2, <3>3 DEF ok
  <2>2. primes \in Seq(Nat)
    BY <1>1, <2>1 DEF primes
  <2>3. ValidRSA(rsaPrivate(n.val, e.val, d.val, primes, TRUE))
    BY <1>1, <1>4, <2>1, <2>2 DEF ValidRSA, rsaPrivate
  <2> QED BY <2>1, <2>3 DEF Valid, rsaPrivate
<1> QED BY <1>5, <1>6

LEMMA ECKeyValid ==
  ASSUME NEW j, IsJWK(j), ecKey(j).ok
  PROVE  Valid(ecKey(j).val)
<1> DEFINE x == b64Int(j.x)
           y == b64Int(j.y)
           d == b64Int(j.d)
<1>1. d.ok => d.val \in Nat
  BY IntTyped DEF IntParams
<1>2. ecKey(j) =
        IF j.crv \notin Curves \/ ~x.ok \/ ~y.ok THEN Refused
        ELSE IF ~IsOnCurve(j.crv, x.val, y.val) THEN Refused
        ELSE IF j.d = Missing THEN ok(ecdsaPublic(j.crv, x.val, y.val))
        ELSE IF ~d.ok \/ d.val <= 0 \/ d.val >= Order[j.crv] THEN Refused
        ELSE ok(ecdsaPrivate(j.crv, x.val, y.val, d.val))
  BY DEF ecKey
<1> HIDE DEF x, y, d
<1>3. j.crv \in Curves /\ IsOnCurve(j.crv, x.val, y.val) /\ x.ok /\ y.ok
  BY <1>2 DEF Refused
<1>4. CASE j.d = Missing
  <2>1. ecKey(j).val = ecdsaPublic(j.crv, x.val, y.val)
    BY <1>2, <1>3, <1>4 DEF ok
  <2> QED BY <1>3, <2>1 DEF Valid, ecdsaPublic
<1>5. CASE j.d # Missing
  <2>1. /\ ecKey(j).val = ecdsaPrivate(j.crv, x.val, y.val, d.val)
        /\ d.ok /\ ~(d.val <= 0) /\ ~(d.val >= Order[j.crv])
    BY <1>2, <1>3, <1>5 DEF ok, Refused
  <2>2. Order[j.crv] \in Nat
    BY <1>3, CurveSizes
  <2>3. d.val \in Scalars(j.crv)
    BY <1>1, <2>1, <2>2 DEF Scalars
  <2> QED BY <1>3, <2>1, <2>3 DEF Valid, ecdsaPrivate
<1> QED BY <1>4, <1>5

LEMMA FieldIsOctets ==
  ASSUME NEW t, b64Field(t).ok
  PROVE  IsOctets(b64Field(t).val) /\ b64Field(t).val.num = b64Int(t).val /\ b64Int(t).ok
  BY DEF IsOctets, b64Field, b64Int, ok, octets, Refused

LEMMA OKPKeyValid ==
  ASSUME NEW j, IsJWK(j), okpKey(j).ok
  PROVE  Valid(okpKey(j).val)
<1> DEFINE x == b64Field(j.x)
           d == b64Field(j.d)
<1>1. d.ok => d.val.num \in Nat
  BY IntTyped, FieldIsOctets DEF IntParams
<1>2. (x.ok => IsOctets(x.val)) /\ (d.ok => IsOctets(d.val))
  BY FieldIsOctets
<1>3. okpKey(j) =
        IF j.crv \notin {"Ed25519", "X25519"} \/ ~x.ok THEN Refused
        ELSE IF (j.crv = "Ed25519" \/ j.d = Missing) /\ (x.val.len # OctetKeySize) THEN Refused
        ELSE IF j.d = Missing
        THEN IF j.crv = "Ed25519" THEN ok(ed25519Public(x.val))
             ELSE ok(ecdhPublic("X25519", x.val))
        ELSE IF ~d.ok \/ d.val.len # OctetKeySize THEN Refused
        ELSE IF j.crv = "Ed25519" THEN ok(ed25519Private(d.val))
        ELSE ok(ecdhPrivate("X25519", d.val.num))
  BY DEF okpKey
<1> HIDE DEF x, d
<1>4. x.ok /\ j.crv \in {"Ed25519", "X25519"}
  BY <1>3 DEF Refused
<1>5. CASE j.d = Missing
  <2>1. x.val.len = OctetKeySize
    BY <1>3, <1>5 DEF Refused
  <2>2. CASE j.crv = "Ed25519"
    <3>1. okpKey(j).val = ed25519Public(x.val)
      BY <1>3, <1>4, <1>5, <2>1, <2>2 DEF ok
    <3> QED BY <1>2, <1>4, <3>1 DEF Valid, ed25519Public
  <2>3. CASE j.crv # "Ed25519"
    <3>1. okpKey(j).val = ecdhPublic("X25519", x.val)
      BY <1>3, <1>4, <1>5, <2>1, <2>3 DEF ok
    <3> QED BY <1>2, <1>4, <2>1, <3>1 DEF Valid, ValidECDH, ecdhPublic
  <2> QED BY <2>2, <2>3
<1>6. CASE j.d # Missing
  <2>1. d.ok
    BY <1>3, <1>6 DEF Refused
  <2>2. CASE j.crv = "Ed25519"
    <3>1. okpKey(j).val = ed25519Private(d.val)
      BY <1>3, <1>4, <1>6, <2>2 DEF ok, Refused
    <3> QED BY <1>1, <1>2, <2>1, <3>1 DEF Valid, ed25519Private
  <2>3. CASE j.crv # "Ed25519"
    <3>1. okpKey(j).val = ecdhPrivate("X25519", d.val.num)
      BY <1>3, <1>4, <1>6, <2>3 DEF ok, Refused
    <3> QED BY <1>1, <2>1, <3>1 DEF Valid, ecdhPrivate
  <2> QED BY <2>2, <2>3
<1> QED BY <1>5, <1>6

LEMMA KeyIs ==
  ASSUME NEW j
  PROVE  /\ j.kty = "RSA" => Key(j) = rsaKey(j)
         /\ j.kty = "EC"  => Key(j) = ecKey(j)
         /\ j.kty = "OKP" => Key(j) = okpKey(j)
         /\ j.kty = "oct" => Key(j) = octKey(j)
         /\ j.kty \notin {"RSA", "EC", "OKP", "oct"} => Key(j) = Refused
  BY DEF Key

LEMMA KeyValid ==
  ASSUME NEW j, IsJWK(j), Key(j).ok
  PROVE  Valid(Key(j).val)
<1>1. j.kty \in {"RSA", "EC", "OKP", "oct"}
  BY KeyIs DEF Refused
<1>2. CASE j.kty = "oct"
  <2>1. Key(j) = octKey(j)
    BY <1>2, KeyIs
  <2>2. b64Field(j.k).ok /\ Key(j).val = secret(b64Field(j.k).val)
    BY <2>1 DEF octKey, ok, Refused
  <2> QED BY <2>2, FieldIsOctets DEF Valid, secret
<1>3. CASE j.kty # "oct"
  BY <1>1, <1>3, KeyIs, RSAKeyValid, ECKeyValid, OKPKeyValid
<1> QED BY <1>2, <1>3

-----------------------------------------------------------------------------
(* What FromKey writes.                                                    *)

RSAMembers(j, n, e) ==
    /\ j.kty = "RSA" /\ e \in 3..MaxExponent
    /\ Spells(j.n, n, ByteLen(n)) /\ Spells(j.e, e, ByteLen(e))

ECMembers(j, crv, x, y) ==
    /\ j.kty = "EC" /\ j.crv = crv /\ crv \in Curves /\ IsOnCurve(crv, x, y)
    /\ Spells(j.x, x, CoordSize[crv]) /\ Spells(j.y, y, CoordSize[crv])

OKPMembers(j, crv, x) == j.kty = "OKP" /\ j.crv = crv /\ Spells(j.x, x, OctetKeySize)

octMembers(j, k) == j.kty = "oct" /\ Spells(j.k, k.num, k.len)

\* The members of JWK j are those of public key (or secret) pub.
Shows(j, pub) ==
    \/ pub = rsaPublic(pub.n, pub.e) /\ RSAMembers(j, pub.n, pub.e)
    \/ pub = ecdsaPublic(pub.crv, pub.x, pub.y) /\ ECMembers(j, pub.crv, pub.x, pub.y)
    \/ /\ pub = ed25519Public(pub.x) /\ pub.x = octets(pub.x.num, OctetKeySize)
       /\ OKPMembers(j, "Ed25519", pub.x.num)
    \/ /\ pub = ecdhPublic("X25519", pub.x) /\ pub.x = octets(pub.x.num, OctetKeySize)
       /\ OKPMembers(j, "X25519", pub.x.num)
    \/ pub = secret(pub.k) /\ IsOctets(pub.k) /\ octMembers(j, pub.k)

\* The parts of a JWK that no key type writes.
LEMMA RSAWrites ==
  ASSUME NEW n \in Nat, NEW e \in 3..MaxExponent
  PROVE  LET j == jwkFromRSAPublic(n, e)
         IN  IsJWK(j) /\ j.d = Missing /\ j.p = Missing /\ j.q = Missing
             /\ (n # 0 => RSAMembers(j, n, e))
<1> DEFINE j == jwkFromRSAPublic(n, e)
           tn == EncodeSegment(Bytes(n))
           te == EncodeSegment(Bytes(e))
<1>1. e \in Nat /\ e # 0
  OBVIOUS
<1>2. IsText(tn) /\ IsText(te)
  BY <1>1, EncodedIsText DEF Bytes
<1>3. Spells(te, e, ByteLen(e)) /\ (n # 0 => Spells(tn, n, ByteLen(n)))
  BY <1>1, BytesSpell
<1> HIDE DEF tn, te
<1>4. j = [NoJWK EXCEPT !.kty = "RSA", !.n = tn, !.e = te]
  BY DEF jwkFromRSAPublic, tn, te
<1>5. /\ j = [m \in {"kty", "crv"} \cup Params |-> j[m]]
      /\ j.kty = "RSA" /\ j.n = tn /\ j.e = te /\ j["n"] = tn /\ j["e"] = te
      /\ \A m \in Params \ {"n", "e"} : j[m] = Missing
      /\ j.d = Missing /\ j.p = Missing /\ j.q = Missing
  BY <1>4, NoJWKType DEF IsJWK, Params
<1> HIDE DEF j
<1>6. IsJWK(j)
  BY <1>2, <1>5, MissingIsText DEF IsJWK, IntParams, Params
<1>7. n # 0 => RSAMembers(j, n, e)
  BY <1>3, <1>5 DEF RSAMembers
<1> QED BY <1>5, <1>6, <1>7 DEF j

LEMMA ECWrites ==
  ASSUME NEW crv \in Curves, NEW x, NEW y
  PROVE  LET j == jwkFromECPublic(crv, x, y)
         IN  IsJWK(j) /\ j.d = Missing
             /\ (IsOnCurve(crv, x, y) => ECMembers(j, crv, x, y))
<1> DEFINE j    == jwkFromECPublic(crv, x, y)
           size == CoordSize[crv]
           tx   == EncodeSegment(octets(x, size))
           ty   == EncodeSegment(octets(y, size))
<1>1. size \in Nat /\ size # 0
  BY CurveSizes
<1>2. Spells(tx, x, size) /\ Spells(ty, y, size)
  BY <1>1, EncodedSpells
<1>3. j = [NoJWK EXCEPT !.kty = "EC", !.crv = crv, !.x = tx, !.y = ty]
  BY DEF jwkFromECPublic, padBig
<1> HIDE DEF tx, ty
<1>4. /\ j = [m \in {"kty", "crv"} \cup Params |-> j[m]]
      /\ j.kty = "EC" /\ j.crv = crv /\ j.x = tx /\ j.y = ty
      /\ \A m \in Params \ {"x", "y"} : j[m] = Missing
      /\ j.d = Missing
  BY <1>3, NoJWKType DEF IsJWK, Params
<1> HIDE DEF j, size
<1>5. IsJWK(j)
  BY <1>4, MissingIsText DEF IsJWK, IntParams, Params
<1>6. IsOnCurve(crv, x, y) => ECMembers(j, crv, x, y)
  BY <1>2, <1>4 DEF ECMembers, size
<1> QED BY <1>4, <1>5, <1>6 DEF j

LEMMA OKPWrites ==
  ASSUME NEW crv, NEW n
  PROVE  LET j == okpFrom(crv, octets(n, OctetKeySize))
         IN  IsJWK(j) /\ j.d = Missing /\ OKPMembers(j, crv, n)
<1> DEFINE j  == okpFrom(crv, octets(n, OctetKeySize))
           tx == EncodeSegment(octets(n, OctetKeySize))
<1>1. Spells(tx, n, OctetKeySize)
  BY EncodedSpells, CurveAssumption DEF CurveAssumption
<1>2. j = [NoJWK EXCEPT !.kty = "OKP", !.crv = crv, !.x = tx]
  BY DEF okpFrom
<1> HIDE DEF tx
<1>3. /\ j = [m \in {"kty", "crv"} \cup Params |-> j[m]]
      /\ j.kty = "OKP" /\ j.crv = crv /\ j.x = tx
      /\ \A m \in Params \ {"x"} : j[m] = Missing
      /\ j.d = Missing
  BY <1>2, NoJWKType DEF IsJWK, Params
<1> HIDE DEF j
<1>4. IsJWK(j)
  BY <1>3, MissingIsText DEF IsJWK, IntParams, Params
<1> QED BY <1>1, <1>3, <1>4 DEF OKPMembers, j

LEMMA OctWrites ==
  ASSUME NEW k, IsOctets(k), k.len # 0
  PROVE  LET j == [NoJWK EXCEPT !.kty = "oct", !.k = EncodeSegment(k)]
         IN  IsJWK(j) /\ octMembers(j, k)
<1> DEFINE j  == [NoJWK EXCEPT !.kty = "oct", !.k = EncodeSegment(k)]
           tk == EncodeSegment(k)
<1>1. Spells(tk, k.num, k.len)
  BY EncodedSpells DEF IsOctets
<1> HIDE DEF tk
<1>2. j = [NoJWK EXCEPT !.kty = "oct", !.k = tk]
  BY DEF tk
<1>3. /\ j = [m \in {"kty", "crv"} \cup Params |-> j[m]]
      /\ j.kty = "oct" /\ j.k = tk
      /\ \A m \in Params \ {"k"} : j[m] = Missing
  BY <1>2, NoJWKType DEF IsJWK, Params
<1> HIDE DEF j
<1>4. IsJWK(j)
  BY <1>3, MissingIsText DEF IsJWK, IntParams, Params
<1> QED BY <1>1, <1>3, <1>4 DEF octMembers, j

\* A private key adds parameters beside the public ones.
KeepsPublic(j, i) == \A m \in {"kty", "crv", "n", "e", "x", "y"} : j[m] = i[m]

LEMMA AddD ==
  ASSUME NEW i, IsJWK(i), NEW t, IsText(t)
  PROVE  LET j == [i EXCEPT !.d = t]
         IN  IsJWK(j) /\ j.d = t /\ KeepsPublic(j, i) /\ \A m \in Members \ {"d"} : j[m] = i[m]
<1> DEFINE j == [i EXCEPT !.d = t]
<1>1. /\ j = [m \in {"kty", "crv"} \cup Params |-> j[m]]
      /\ j.d = t /\ j["d"] = t /\ \A m \in Members \ {"d"} : j[m] = i[m]
  BY DEF IsJWK, Params, Members
<1> HIDE DEF j
<1>2. IsJWK(j)
  BY <1>1 DEF IsJWK, IntParams, Params, Members
<1>3. KeepsPublic(j, i)
  BY <1>1 DEF KeepsPublic, Members, Params
<1> QED BY <1>1, <1>2, <1>3 DEF j

LEMMA KeptMembers ==
  ASSUME NEW i, NEW j, KeepsPublic(j, i)
  PROVE  /\ \A n, e : RSAMembers(i, n, e) => RSAMembers(j, n, e)
         /\ \A crv, x, y : ECMembers(i, crv, x, y) => ECMembers(j, crv, x, y)
         /\ \A crv, n : OKPMembers(i, crv, n) => OKPMembers(j, crv, n)
  BY DEF KeepsPublic, RSAMembers, ECMembers, OKPMembers

-----------------------------------------------------------------------------
(* What Key reads of it.                                                   *)

LEMMA Spelled ==
  ASSUME NEW t, NEW n, NEW len, Spells(t, n, len)
  PROVE  /\ b64Int(t).ok /\ b64Int(t).val = n /\ t # Missing
         /\ b64Field(t).ok /\ b64Field(t).val = octets(n, len)
  BY FieldSpelled DEF Spells, ok

LEMMA RSAReads ==
  ASSUME NEW j, NEW n, NEW e, RSAMembers(j, n, e), j.d = Missing
  PROVE  Key(j) = ok(rsaPublic(n, e))
<1>1. Key(j) = rsaKey(j)
  BY KeyIs DEF RSAMembers
<1>2. /\ b64Int(j.n).ok /\ b64Int(j.n).val = n
      /\ b64Int(j.e).ok /\ b64Int(j.e).val = e
  BY Spelled DEF RSAMembers
<1>3. ~(e < 3) /\ ~(e > MaxExponent)
  BY BaseAssumption DEF RSAMembers, BaseAssumption
<1> QED BY <1>1, <1>2, <1>3 DEF rsaKey

LEMMA RSAReadsPrivate ==
  ASSUME NEW j, NEW n, NEW e, RSAMembers(j, n, e),
         NEW d, NEW ld, Spells(j.d, d, ld), NEW p, NEW lp, Spells(j.p, p, lp),
         NEW q, NEW lq, Spells(j.q, q, lq), Validate(n, e, d, <<p, q>>)
  PROVE  Key(j) = ok(rsaPrivate(n, e, d, <<p, q>>, TRUE))
<1>1. Key(j) = rsaKey(j)
  BY KeyIs DEF RSAMembers
<1>2. /\ b64Int(j.n).ok /\ b64Int(j.n).val = n
      /\ b64Int(j.e).ok /\ b64Int(j.e).val = e
  BY Spelled DEF RSAMembers
<1>3. ~(e < 3) /\ ~(e > MaxExponent)
  BY BaseAssumption DEF RSAMembers, BaseAssumption
<1>4. /\ b64Int(j.d).ok /\ b64Int(j.d).val = d /\ j.d # Missing
      /\ b64Int(j.p).ok /\ b64Int(j.p).val = p /\ j.p # Missing
      /\ b64Int(j.q).ok /\ b64Int(j.q).val = q /\ j.q # Missing
  BY Spelled
<1>5. rsaKey(j) = IF ~Validate(n, e, d, <<p, q>>) THEN Refused
                  ELSE ok(rsaPrivate(n, e, d, <<p, q>>, TRUE))
  BY <1>2, <1>3, <1>4 DEF rsaKey
<1> QED BY <1>1, <1>5

LEMMA ECReads ==
  ASSUME NEW j, NEW crv, NEW x, NEW y, ECMembers(j, crv, x, y)
  PROVE  /\ j.d = Missing => Key(j) = ok(ecdsaPublic(crv, x, y))
         /\ \A d \in Scalars(crv) : \A len : Spells(j.d, d, len) =>
               Key(j) = ok(ecdsaPrivate(crv, x, y, d))
<1>1. Key(j) = ecKey(j)
  BY KeyIs DEF ECMembers
<1>2. /\ b64Int(j.x).ok /\ b64Int(j.x).val = x
      /\ b64Int(j.y).ok /\ b64Int(j.y).val = y
  BY Spelled DEF ECMembers
<1>3. j.crv = crv /\ crv \in Curves /\ IsOnCurve(crv, x, y)
  BY DEF ECMembers
<1>4. ASSUME NEW d \in Scalars(crv), NEW len, Spells(j.d, d, len)
      PROVE  ecKey(j) = ok(ecdsaPrivate(crv, x, y, d))
  <2>1. b64Int(j.d).ok /\ b64Int(j.d).val = d /\ j.d # Missing
    BY <1>4, Spelled
  <2>2. ~(d <= 0) /\ ~(d >= Order[crv])
    BY <1>3, CurveSizes DEF Scalars
  <2> QED BY <1>2, <1>3, <2>1, <2>2 DEF ecKey
<1>5. j.d = Missing => ecKey(j) = ok(ecdsaPublic(crv, x, y))
  BY <1>2, <1>3 DEF ecKey
<1> QED BY <1>1, <1>4, <1>5

LEMMA OKPReads ==
  ASSUME NEW j, NEW crv \in {"Ed25519", "X25519"}, NEW n, OKPMembers(j, crv, n)
  PROVE  /\ j.d = Missing =>
               Key(j) = ok(IF crv = "Ed25519" THEN ed25519Public(octets(n, OctetKeySize))
                           ELSE ecdhPublic("X25519", octets(n, OctetKeySize)))
         /\ \A d : Spells(j.d, d, OctetKeySize) =>
               Key(j) = ok(IF crv = "Ed25519" THEN ed25519Private(octets(d, OctetKeySize))
                           ELSE ecdhPrivate("X25519", d))
<1>1. Key(j) = okpKey(j)
  BY KeyIs DEF OKPMembers
<1>2. b64Field(j.x).ok /\ b64Field(j.x).val = octets(n, OctetKeySize)
  BY Spelled DEF OKPMembers
<1>3. j.crv = crv
  BY DEF OKPMembers
<1>4. \A i : octets(i, OctetKeySize).len = OctetKeySize /\ octets(i, OctetKeySize).num = i
  BY DEF octets
<1>5. ASSUME NEW d, Spells(j.d, d, OctetKeySize)
      PROVE  okpKey(j) = ok(IF crv = "Ed25519" THEN ed25519Private(octets(d, OctetKeySize))
                            ELSE ecdhPrivate("X25519", d))
  <2>1. b64Field(j.d).ok /\ b64Field(j.d).val = octets(d, OctetKeySize) /\ j.d # Missing
    BY <1>5, Spelled
  <2> QED BY <1>2, <1>3, <1>4, <2>1 DEF okpKey
<1>6. j.d = Missing =>
        okpKey(j) = ok(IF crv = "Ed25519" THEN ed25519Public(octets(n, OctetKeySize))
                       ELSE ecdhPublic("X25519", octets(n, OctetKeySize)))
  BY <1>2, <1>3, <1>4 DEF okpKey
<1> QED BY <1>1, <1>5, <1>6

LEMMA OctReads ==
  ASSUME NEW j, NEW k, IsOctets(k), octMembers(j, k)
  PROVE  Key(j) = ok(secret(k))
<1>1. Key(j) = octKey(j)
  BY KeyIs DEF octMembers
<1>2. b64Field(j.k).ok /\ b64Field(j.k).val = octets(k.num, k.len)
  BY Spelled DEF octMembers
<1> QED BY <1>1, <1>2 DEF octKey, IsOctets

-----------------------------------------------------------------------------
(* FromKey inverts Key, type by type.                                      *)

LEMMA ResolvedIs ==
  ASSUME NEW g
  PROVE  /\ g.type \notin {"*rsa.PrivateKey", "*ecdh.PublicKey", "*ecdh.PrivateKey"} => Resolved(g) = g
         /\ g.type = "*rsa.PrivateKey" => Resolved(g) = rsaPrivate(g.n, g.e, g.d, g.primes, TRUE)
         /\ g.type = "*ecdh.PublicKey" =>
               Resolved(g) = IF g.crv = "X25519" THEN g ELSE ecdsaPublic(g.crv, g.x[1], g.x[2])
         /\ g.type = "*ecdh.PrivateKey" =>
               Resolved(g) = IF g.crv = "X25519" THEN g
                             ELSE ecdsaPrivate(g.crv, ScalarBaseMult(g.crv, g.d)[1],
                                               ScalarBaseMult(g.crv, g.d)[2], g.d)
  BY DEF Resolved

LEMMA PublicHalfIs ==
  ASSUME NEW g
  PROVE  /\ g.type \notin {"*rsa.PrivateKey", "*ecdsa.PrivateKey", "ed25519.PrivateKey",
                           "*ecdh.PrivateKey"} => PublicHalf(g) = g
         /\ g.type = "*rsa.PrivateKey" => PublicHalf(g) = rsaPublic(g.n, g.e)
         /\ g.type = "*ecdsa.PrivateKey" => PublicHalf(g) = ecdsaPublic(g.crv, g.x, g.y)
         /\ g.type = "ed25519.PrivateKey" =>
               PublicHalf(g) = ed25519Public(octets(Ed25519Public(g.d.num), OctetKeySize))
         /\ g.type = "*ecdh.PrivateKey" =>
               PublicHalf(g) =
                 ecdhPublic(g.crv, IF g.crv = "X25519" THEN octets(X25519Public(g.d), OctetKeySize)
                                   ELSE ScalarBaseMult(g.crv, g.d))
  BY DEF PublicHalf

\* What holds of every key FromKey takes.
Exported(g) ==
    LET j == FromKey(g).val
    IN  /\ IsJWK(j)
        /\ Representable(g) => /\ Key(j) = ok(Resolved(g))
                               /\ Shows(j, PublicHalf(Resolved(g)))

LEMMA ExportedRSAPublic ==
  ASSUME NEW g, Valid(g), g.type = "*rsa.PublicKey"
  PROVE  Exported(g)
<1> DEFINE j == jwkFromRSAPublic(g.n, g.e)
<1>1. g = rsaPublic(g.n, g.e) /\ g.n \in Nat /\ g.e \in 3..MaxExponent
  BY DEF Valid
<1>2. FromKey(g).val = j
  <2>1. FromKey(g) = ok(j)
    BY DEF FromKey
  <2> QED BY <2>1 DEF ok
<1>3. IsJWK(j) /\ j.d = Missing /\ (g.n # 0 => RSAMembers(j, g.n, g.e))
  BY <1>1, RSAWrites
<1>4. Resolved(g) = g /\ PublicHalf(g) = g
  BY ResolvedIs, PublicHalfIs
<1> HIDE DEF j
<1>5. Representable(g) => Key(j) = ok(g) /\ Shows(j, g)
  BY <1>1, <1>3, RSAReads DEF Representable, Shows
<1> QED BY <1>2, <1>3, <1>4, <1>5 DEF Exported

LEMMA ExportedECDSAPublic ==
  ASSUME NEW g, Valid(g), g.type = "*ecdsa.PublicKey", FromKey(g).ok
  PROVE  Exported(g)
<1> DEFINE j == jwkFromECPublic(g.crv, g.x, g.y)
<1>1. g.crv \in Curves /\ FromKey(g).val = j
  <2>1. FromKey(g) = IF g.crv \in Curves THEN ok(j) ELSE Refused
    BY DEF FromKey
  <2> HIDE DEF j
  <2> QED BY <2>1 DEF ok, Refused
<1>2. g = ecdsaPublic(g.crv, g.x, g.y) /\ IsOnCurve(g.crv, g.x, g.y)
  BY <1>1 DEF Valid
<1>3. IsJWK(j) /\ j.d = Missing /\ ECMembers(j, g.crv, g.x, g.y)
  BY <1>1, <1>2, ECWrites
<1>4. Resolved(g) = g /\ PublicHalf(g) = g
  BY ResolvedIs, PublicHalfIs
<1> HIDE DEF j
<1>5. Key(j) = ok(g) /\ Shows(j, g)
  BY <1>2, <1>3, ECReads DEF Shows
<1> QED BY <1>1, <1>3, <1>4, <1>5 DEF Exported

LEMMA ExportedEd25519Public ==
  ASSUME NEW g, Valid(g), g.type = "ed25519.PublicKey", FromKey(g).ok
  PROVE  Exported(g)
<1> DEFINE j == okpFrom("Ed25519", g.x)
<1>1. g.x.len = OctetKeySize /\ FromKey(g).val = j
  <2>1. FromKey(g) = IF g.x.len = OctetKeySize THEN ok(j) ELSE Refused
    BY DEF FromKey
  <2> HIDE DEF j
  <2> QED BY <2>1 DEF ok, Refused
<1>2. g = ed25519Public(g.x) /\ g.x = octets(g.x.num, OctetKeySize)
  BY <1>1 DEF Valid, IsOctets
<1>3. IsJWK(j) /\ j.d = Missing /\ OKPMembers(j, "Ed25519", g.x.num)
  BY <1>2, OKPWrites
<1>4. Resolved(g) = g /\ PublicHalf(g) = g
  BY ResolvedIs, PublicHalfIs
<1> HIDE DEF j
<1>5. Key(j) = ok(ed25519Public(octets(g.x.num, OctetKeySize)))
  BY <1>3, OKPReads
<1>6. Shows(j, g)
  BY <1>2, <1>3 DEF Shows
<1> QED BY <1>1, <1>2, <1>3, <1>4, <1>5, <1>6 DEF Exported

LEMMA ExportedSecret ==
  ASSUME NEW g, Valid(g), g.type = "[]byte", FromKey(g).ok
  PROVE  Exported(g)
<1> DEFINE j == [NoJWK EXCEPT !.kty = "oct", !.k = EncodeSegment(g.k)]
<1>1. g.k.len # 0 /\ FromKey(g).val = j
  <2>1. FromKey(g) = IF g.k.len = 0 THEN Refused ELSE ok(j)
    BY DEF FromKey
  <2> HIDE DEF j
  <2> QED BY <2>1 DEF ok, Refused
<1>2. g = secret(g.k) /\ IsOctets(g.k)
  BY DEF Valid
<1>3. IsJWK(j) /\ octMembers(j, g.k)
  BY <1>1, <1>2, OctWrites
<1>4. Resolved(g) = g /\ PublicHalf(g) = g
  BY ResolvedIs, PublicHalfIs
<1> HIDE DEF j
<1>5. Key(j) = ok(g) /\ Shows(j, g)
  BY <1>2, <1>3, OctReads DEF Shows
<1> QED BY <1>1, <1>3, <1>4, <1>5 DEF Exported

LEMMA ExportedECDHPublic ==
  ASSUME NEW g, Valid(g), g.type = "*ecdh.PublicKey"
  PROVE  Exported(g)
<1> DEFINE j == jwkFromECDHPublic(g)
<1>1. FromKey(g).val = j
  <2>1. FromKey(g) = ok(j)
    BY DEF FromKey
  <2> QED BY <2>1 DEF ok
<1>2. ValidECDH(g)
  BY DEF Valid
<1>3. CASE g.crv = "X25519"
  <2>1. j = okpFrom("X25519", g.x)
    BY <1>3 DEF jwkFromECDHPublic
  <2>2. g = ecdhPublic("X25519", g.x) /\ g.x = octets(g.x.num, OctetKeySize)
    BY <1>2, <1>3, CurveAssumption DEF ValidECDH, IsOctets, CurveAssumption
  <2>3. IsJWK(j) /\ j.d = Missing /\ OKPMembers(j, "X25519", g.x.num)
    BY <2>1, <2>2, OKPWrites
  <2>4. Resolved(g) = g /\ PublicHalf(g) = g
    BY <1>3, ResolvedIs, PublicHalfIs
  <2> HIDE DEF j
  <2>5. Key(j) = ok(ecdhPublic("X25519", octets(g.x.num, OctetKeySize)))
    BY <2>3, OKPReads
  <2>6. Shows(j, g)
    BY <2>2, <2>3 DEF Shows
  <2> QED BY <1>1, <2>2, <2>3, <2>4, <2>5, <2>6 DEF Exported
<1>4. CASE g.crv # "X25519"
  <2> DEFINE r == ecdsaPublic(g.crv, g.x[1], g.x[2])
  <2>1. j = jwkFromECPublic(g.crv, g.x[1], g.x[2])
    BY <1>4 DEF jwkFromECDHPublic
  <2>2. g.crv \in Curves /\ IsOnCurve(g.crv, g.x[1], g.x[2])
    BY <1>2, <1>4 DEF ValidECDH
  <2>3. IsJWK(j) /\ j.d = Missing /\ ECMembers(j, g.crv, g.x[1], g.x[2])
    BY <2>1, <2>2, ECWrites
  <2>4. Resolved(g) = r
    BY <1>4, ResolvedIs
  <2>5. PublicHalf(r) = r
    <3>1. r.type = "*ecdsa.PublicKey"
      BY DEF ecdsaPublic
    <3> QED BY <3>1, PublicHalfIs
  <2> HIDE DEF j
  <2>6. Key(j) = ok(r) /\ Shows(j, r)
    BY <2>3, ECReads DEF Shows, ecdsaPublic
  <2> QED BY <1>1, <2>3, <2>4, <2>5, <2>6 DEF Exported
<1> QED BY <1>3, <1>4

LEMMA ExportedECDSAPrivate ==
  ASSUME NEW g, Valid(g), g.type = "*ecdsa.PrivateKey", FromKey(g).ok
  PROVE  Exported(g)
<1> DEFINE i == jwkFromECPublic(g.crv, g.x, g.y)
           t == EncodeSegment(octets(g.d, CoordSize[g.crv]))
           j == [i EXCEPT !.d = t]
<1>1. g.crv \in Curves /\ FromKey(g).val = j
  <2>1. FromKey(g) = IF g.crv \in Curves THEN ok(j) ELSE Refused
    BY DEF FromKey, padBig
  <2> HIDE DEF j
  <2> QED BY <2>1 DEF ok, Refused
<1>2. /\ g = ecdsaPrivate(g.crv, g.x, g.y, g.d) /\ IsOnCurve(g.crv, g.x, g.y)
      /\ g.d \in Scalars(g.crv)
  BY <1>1 DEF Valid
<1>3. IsJWK(i) /\ ECMembers(i, g.crv, g.x, g.y)
  BY <1>1, <1>2, ECWrites
<1>4. Spells(t, g.d, CoordSize[g.crv]) /\ IsText(t)
  <2>1. g.d \in Nat /\ CoordSize[g.crv] # 0
    BY <1>1, <1>2, CurveSizes DEF Scalars
  <2> QED BY <2>1, EncodedSpells, EncodedIsText
<1> HIDE DEF i, t
<1>5. IsJWK(j) /\ j.d = t /\ KeepsPublic(j, i)
  BY <1>3, <1>4, AddD
<1> HIDE DEF j
<1>6. ECMembers(j, g.crv, g.x, g.y)
  BY <1>3, <1>5, KeptMembers
<1>7. Key(j) = ok(ecdsaPrivate(g.crv, g.x, g.y, g.d))
  BY <1>2, <1>4, <1>5, <1>6, ECReads
<1>8. Resolved(g) = g /\ PublicHalf(g) = ecdsaPublic(g.crv, g.x, g.y)
  BY ResolvedIs, PublicHalfIs
<1>9. Shows(j, ecdsaPublic(g.crv, g.x, g.y))
  BY <1>6 DEF Shows, ecdsaPublic
<1> QED BY <1>1, <1>2, <1>5, <1>7, <1>8, <1>9 DEF Exported

LEMMA ExportedEd25519Private ==
  ASSUME NEW g, Valid(g), g.type = "ed25519.PrivateKey", FromKey(g).ok
  PROVE  Exported(g)
<1> DEFINE n == Ed25519Public(g.d.num)
           i == okpFrom("Ed25519", octets(n, OctetKeySize))
           t == EncodeSegment(g.d)
           j == [i EXCEPT !.d = t]
           h == ed25519Public(octets(n, OctetKeySize))
<1>1. PublicHalf(g) = h
  BY PublicHalfIs
<1>2. h.x = octets(n, OctetKeySize)
  BY DEF ed25519Public
<1>3. FromKey(g) = IF g.d.len = OctetKeySize
                   THEN ok([okpFrom("Ed25519", PublicHalf(g).x) EXCEPT !.d = seed(g)])
                   ELSE Refused
  BY DEF FromKey
<1>4. g.d.len = OctetKeySize /\ FromKey(g).val = j
  <2>1. FromKey(g) = IF g.d.len = OctetKeySize THEN ok(j) ELSE Refused
    BY <1>1, <1>2, <1>3 DEF seed
  <2> HIDE DEF j
  <2> QED BY <2>1 DEF ok, Refused
<1>5. g = ed25519Private(g.d) /\ g.d = octets(g.d.num, OctetKeySize) /\ g.d.num \in Nat
  BY <1>4 DEF Valid, IsOctets
<1>6. IsJWK(i) /\ OKPMembers(i, "Ed25519", n)
  BY OKPWrites
<1>7. Spells(t, g.d.num, OctetKeySize) /\ IsText(t)
  <2>1. OctetKeySize # 0
    BY CurveAssumption DEF CurveAssumption
  <2> QED BY <1>5, <2>1, EncodedSpells, EncodedIsText
<1> HIDE DEF i, t, n
<1>8. IsJWK(j) /\ j.d = t /\ KeepsPublic(j, i)
  BY <1>6, <1>7, AddD
<1> HIDE DEF j
<1>9. OKPMembers(j, "Ed25519", n)
  BY <1>6, <1>8, KeptMembers
<1>10. Key(j) = ok(ed25519Private(octets(g.d.num, OctetKeySize)))
  BY <1>7, <1>8, <1>9, OKPReads
<1>11. Resolved(g) = g
  BY ResolvedIs
<1>12. Shows(j, h)
  BY <1>9 DEF Shows, ed25519Public, octets
<1> HIDE DEF h
<1> QED BY <1>1, <1>4, <1>5, <1>8, <1>10, <1>11, <1>12 DEF Exported

LEMMA ExportedECDHPrivate ==
  ASSUME NEW g, Valid(g), g.type = "*ecdh.PrivateKey"
  PROVE  Exported(g)
<1> DEFINE h    == PublicHalf(g)
           i    == jwkFromECDHPublic(h)
           size == IF g.crv = "X25519" THEN OctetKeySize ELSE CoordSize[g.crv]
           t    == EncodeSegment(octets(g.d, size))
           j    == [i EXCEPT !.d = t]
<1>1. FromKey(g).val = j
  <2>1. FromKey(g) = ok(j)
    BY DEF FromKey
  <2> QED BY <2>1 DEF ok
<1>2. /\ g = ecdhPrivate(g.crv, g.d) /\ g.d \in Nat
      /\ g.crv = "X25519" \/ (g.crv \in Curves /\ g.d \in Scalars(g.crv))
  BY DEF Valid
<1>3. Spells(t, g.d, size) /\ IsText(t)
  <2>1. size # 0
    BY <1>2, CurveAssumption DEF CurveAssumption
  <2> QED BY <1>2, <2>1, EncodedSpells, EncodedIsText
<1> HIDE DEF t
<1>4. CASE g.crv = "X25519"
  <2> DEFINE n == X25519Public(g.d)
             r == ecdhPublic("X25519", octets(n, OctetKeySize))
  <2>1. h = r
    BY <1>4, PublicHalfIs
  <2>2. i = okpFrom("X25519", octets(n, OctetKeySize))
    BY <2>1 DEF jwkFromECDHPublic, ecdhPublic
  <2>3. IsJWK(i) /\ OKPMembers(i, "X25519", n)
    BY <2>2, OKPWrites
  <2>4. Shows(j, r) /\ IsJWK(j) /\ Key(j) = ok(ecdhPrivate("X25519", g.d))
    <3> HIDE DEF i, n
    <3>1. IsJWK(j) /\ j.d = t /\ KeepsPublic(j, i)
      BY <1>3, <2>3, AddD
    <3> HIDE DEF j
    <3>2. OKPMembers(j, "X25519", n)
      BY <2>3, <3>1, KeptMembers
    <3>3. Spells(t, g.d, OctetKeySize)
      BY <1>3, <1>4
    <3>4. Key(j) = ok(ecdhPrivate("X25519", g.d))
      BY <3>1, <3>2, <3>3, OKPReads
    <3>5. Shows(j, r)
      BY <3>2 DEF Shows, ecdhPublic, octets
    <3> QED BY <3>1, <3>4, <3>5
  <2>5. Resolved(g) = g
    BY <1>4, ResolvedIs
  <2> HIDE DEF j, r
  <2> QED BY <1>1, <1>2, <1>4, <2>1, <2>4, <2>5 DEF Exported
<1>5. CASE g.crv # "X25519"
  <2> DEFINE Q == ScalarBaseMult(g.crv, g.d)
             r == ecdsaPublic(g.crv, Q[1], Q[2])
             s == ecdsaPrivate(g.crv, Q[1], Q[2], g.d)
  <2>1. g.crv \in Curves /\ g.d \in Scalars(g.crv)
    BY <1>2, <1>5
  <2>2. h = ecdhPublic(g.crv, Q)
    BY <1>5, PublicHalfIs
  <2>3. i = jwkFromECPublic(g.crv, Q[1], Q[2])
    BY <1>5, <2>2 DEF jwkFromECDHPublic, ecdhPublic
  <2>4. Q \in Nat \X Nat
    BY <2>1, CurveAssumption DEF CurveAssumption, Scalars
  <2>5. IsOnCurve(g.crv, Q[1], Q[2])
    <3>1. Q = <<Q[1], Q[2]>>
      BY <2>4
    <3>2. g.d \in 1..(Order[g.crv] - 1)
      BY <2>1 DEF Scalars
    <3> QED BY <3>1, <3>2 DEF IsOnCurve
  <2>6. IsJWK(i) /\ ECMembers(i, g.crv, Q[1], Q[2])
    BY <2>1, <2>3, <2>5, ECWrites
  <2>7. Shows(j, r) /\ IsJWK(j) /\ Key(j) = ok(s)
    <3> HIDE DEF i, Q
    <3>1. IsJWK(j) /\ j.d = t /\ KeepsPublic(j, i)
      BY <1>3, <2>6, AddD
    <3> HIDE DEF j
    <3>2. ECMembers(j, g.crv, Q[1], Q[2])
      BY <2>6, <3>1, KeptMembers
    <3>3. Key(j) = ok(s)
      BY <1>3, <2>1, <3>1, <3>2, ECReads
    <3>4. Shows(j, r)
      BY <3>2 DEF Shows, ecdsaPublic
    <3> QED BY <3>1, <3>3, <3>4
  <2>8. Resolved(g) = s
    BY <1>5, ResolvedIs
  <2>9. PublicHalf(s) = r
    <3>1. /\ s.type = "*ecdsa.PrivateKey" /\ s.crv = g.crv
          /\ s.x = Q[1] /\ s.y = Q[2]
      BY DEF ecdsaPrivate
    <3> QED BY <3>1, PublicHalfIs
  <2> HIDE DEF j, r, s
  <2> QED BY <1>1, <2>7, <2>8, <2>9 DEF Exported
<1> QED BY <1>4, <1>5

\* A private RSA key adds five or six parameters; Key ignores the last three.
LEMMA RSAPrivateWrites ==
  ASSUME NEW g, ValidRSA(g)
  PROVE  LET i == jwkFromRSAPublic(g.n, g.e)
             j == fromRSAPrivate(g)
         IN  /\ IsJWK(j) /\ KeepsPublic(j, i)
             /\ j.d = EncodeSegment(Bytes(g.d))
             /\ Len(g.primes) >= 2 => /\ j.p = EncodeSegment(Bytes(g.primes[1]))
                                      /\ j.q = EncodeSegment(Bytes(g.primes[2]))
<1> DEFINE int(n) == EncodeSegment(Bytes(n))
           p   == g.primes[1]
           q   == g.primes[2]
           i   == jwkFromRSAPublic(g.n, g.e)
           td  == int(g.d)
           tp  == int(p)
           tq  == int(q)
           a   == int(g.d % (p - 1))
           b   == int(g.d % (q - 1))
           c   == int(CHOOSE k \in 1..(p - 1) : (k * q) % p = 1)
           one == [i EXCEPT !.d = td]
           two == IF Len(g.primes) >= 2 THEN [one EXCEPT !.p = tp, !.q = tq] ELSE one
           j   == IF g.crt THEN [two EXCEPT !.dp = a, !.dq = b, !.qi = c] ELSE two
           pairs == Len(g.primes) >= 2
<1>1. fromRSAPrivate(g) = j
  BY DEF fromRSAPrivate
<1>2. IsJWK(i) /\ i.p = Missing /\ i.q = Missing
  BY RSAWrites DEF ValidRSA
<1>3. IsText(td) /\ (pairs => IsText(tp) /\ IsText(tq))
  <2>1. g.d \in Nat /\ (pairs => p \in Nat /\ q \in Nat)
    BY DEF ValidRSA
  <2> QED BY <2>1, EncodedIsText DEF Bytes
<1> HIDE DEF i, td, tp, tq, a, b, c, pairs
<1>4. /\ one = [m \in Members |-> one[m]] /\ one["d"] = td
      /\ \A m \in Members \ {"d"} : one[m] = i[m]
  BY <1>2 DEF IsJWK, Members, Params
<1> HIDE DEF one
<1>5. /\ two = [m \in Members |-> two[m]] /\ two["d"] = td
      /\ \A m \in Members \ {"d", "p", "q"} : two[m] = i[m]
      /\ pairs => two["p"] = tp /\ two["q"] = tq
      /\ ~pairs => two["p"] = i["p"] /\ two["q"] = i["q"]
  <2>1. CASE pairs
    <3>1. two = [one EXCEPT !.p = tp, !.q = tq]
      BY <2>1 DEF pairs
    <3> HIDE DEF two
    <3> QED BY <1>4, <2>1, <3>1 DEF Members, Params
  <2>2. CASE ~pairs
    <3>1. two = one
      BY <2>2 DEF pairs
    <3> HIDE DEF two
    <3> QED BY <1>4, <2>2, <3>1 DEF Members, Params
  <2> QED BY <2>1, <2>2
<1> HIDE DEF two
<1>6. /\ j = [m \in Members |-> j[m]] /\ j["d"] = td
      /\ \A m \in Members \ {"d", "p", "q", "dp", "dq", "qi"} : j[m] = i[m]
      /\ pairs => j["p"] = tp /\ j["q"] = tq
      /\ ~pairs => j["p"] = i["p"] /\ j["q"] = i["q"]
  <2>1. CASE g.crt
    <3>1. j = [two EXCEPT !.dp = a, !.dq = b, !.qi = c]
      BY <2>1
    <3> HIDE DEF j
    <3> QED BY <1>5, <3>1 DEF Members, Params
  <2>2. CASE ~g.crt
    <3>1. j = two
      BY <2>2
    <3> HIDE DEF j
    <3> QED BY <1>5, <3>1 DEF Members, Params
  <2> QED BY <2>1, <2>2
<1> HIDE DEF j
<1>7. KeepsPublic(j, i)
  BY <1>6 DEF KeepsPublic, Members, Params
<1>8. \A m \in IntParams : IsText(j[m])
  <2>1. IsText(j["n"]) /\ IsText(j["e"])
    BY <1>2, <1>7 DEF KeepsPublic, IsJWK, IntParams
  <2>2. IsText(j["p"]) /\ IsText(j["q"])
    <3>1. CASE pairs
      BY <1>3, <1>6, <3>1
    <3>2. CASE ~pairs
      BY <1>2, <1>6, <3>2 DEF IsJWK, IntParams
    <3> QED BY <3>1, <3>2
  <2> QED BY <1>3, <1>6, <2>1, <2>2 DEF IntParams
<1>9. IsJWK(j)
  BY <1>6, <1>8 DEF IsJWK, Members
<1> QED BY <1>1, <1>6, <1>7, <1>9 DEF td, tp, tq, pairs, i

LEMMA ExportedRSAPrivate ==
  ASSUME NEW g, Valid(g), g.type = "*rsa.PrivateKey"
  PROVE  Exported(g)
<1> DEFINE i == jwkFromRSAPublic(g.n, g.e)
           j == fromRSAPrivate(g)
           p == g.primes[1]
           q == g.primes[2]
<1>1. FromKey(g).val = j
  <2>1. FromKey(g) = ok(j)
    BY DEF FromKey
  <2> QED BY <2>1 DEF ok
<1>2. ValidRSA(g)
  BY DEF Valid
<1>3. /\ IsJWK(j) /\ KeepsPublic(j, i)
      /\ j.d = EncodeSegment(Bytes(g.d))
      /\ Len(g.primes) >= 2 => /\ j.p = EncodeSegment(Bytes(p))
                               /\ j.q = EncodeSegment(Bytes(q))
  BY <1>2, RSAPrivateWrites
<1>4. ASSUME Representable(g)
      PROVE  Key(j) = ok(Resolved(g)) /\ Shows(j, PublicHalf(Resolved(g)))
  <2> DEFINE s == rsaPrivate(g.n, g.e, g.d, <<p, q>>, TRUE)
             r == rsaPublic(g.n, g.e)
  <2>1. g.n # 0 /\ Len(g.primes) = 2
    BY <1>4 DEF Representable
  <2>2. /\ g.n \in Nat /\ g.e \in 3..MaxExponent /\ g.d \in Nat /\ g.primes \in Seq(Nat)
        /\ Validate(g.n, g.e, g.d, g.primes)
        /\ g = rsaPrivate(g.n, g.e, g.d, g.primes, g.crt)
    BY <1>2, <2>1 DEF ValidRSA
  <2>3. g.primes = <<p, q>> /\ p \in Nat /\ q \in Nat
    BY <2>1, <2>2
  <2>4. p > 1 /\ q > 1 /\ (g.d * g.e) % (p - 1) = 1
    BY <2>2 DEF Validate
  <2> HIDE DEF p, q
  <2>5. g.d # 0 /\ p # 0 /\ q # 0
    <3>1. p # 0 /\ q # 0 /\ p - 1 \in Nat /\ p - 1 > 0
      BY <2>3, <2>4
    <3>2. ASSUME g.d = 0 PROVE FALSE
      <4>1. g.d * g.e = 0
        BY <2>2, <3>2
      <4>2. 0 % (p - 1) = 0
        BY <3>1
      <4> QED BY <2>4, <4>1, <4>2
    <3> QED BY <3>1, <3>2
  <2>6. RSAMembers(i, g.n, g.e)
    BY <2>1, <2>2, RSAWrites
  <2> HIDE DEF i, j
  <2>7. RSAMembers(j, g.n, g.e)
    BY <1>3, <2>6, KeptMembers
  <2>8. /\ Spells(j.d, g.d, ByteLen(g.d)) /\ Spells(j.p, p, ByteLen(p))
        /\ Spells(j.q, q, ByteLen(q))
    BY <1>3, <2>1, <2>2, <2>3, <2>5, BytesSpell
  <2>9. Key(j) = ok(s)
    BY <2>2, <2>3, <2>7, <2>8, RSAReadsPrivate
  <2>10. Resolved(g) = s
    <3>1. Resolved(g) = rsaPrivate(g.n, g.e, g.d, g.primes, TRUE)
      BY ResolvedIs
    <3> QED BY <2>3, <3>1
  <2>11. PublicHalf(s) = r
    <3>1. s.type = "*rsa.PrivateKey" /\ s.n = g.n /\ s.e = g.e
      BY DEF rsaPrivate
    <3> QED BY <3>1, PublicHalfIs
  <2>12. Shows(j, r)
    BY <2>7 DEF Shows, rsaPublic
  <2> QED BY <2>9, <2>10, <2>11, <2>12
<1> QED BY <1>1, <1>3, <1>4 DEF Exported

\* All of them.
LEMMA AllExported ==
  ASSUME NEW g, Valid(g), FromKey(g).ok
  PROVE  Exported(g)
<1>1. g.type \in {"*rsa.PublicKey", "*rsa.PrivateKey", "*ecdsa.PublicKey", "*ecdsa.PrivateKey",
                  "ed25519.PublicKey", "ed25519.PrivateKey", "*ecdh.PublicKey",
                  "*ecdh.PrivateKey", "[]byte"}
  BY DEF Valid
<1> QED BY <1>1, ExportedRSAPublic, ExportedRSAPrivate, ExportedECDSAPublic,
           ExportedECDSAPrivate, ExportedEd25519Public, ExportedEd25519Private,
           ExportedECDHPublic, ExportedECDHPrivate, ExportedSecret

-----------------------------------------------------------------------------
(* The inductive invariant, and what it says of FromKey.                   *)

LEMMA PublicWrites ==
  ASSUME NEW j, IsJWK(j), Public(j).ok
  PROVE  LET pub == Public(j).val
         IN  /\ IsJWK(pub) /\ KeepsPublic(pub, j) /\ pub.d = Missing
             /\ \A m \in PrivateParams : pub[m] = Missing
             /\ j.kty # "oct" /\ Key(j).ok
<1> DEFINE pub == [m \in Members |-> IF m \in PrivateParams THEN Missing ELSE j[m]]
<1>1. DOMAIN j = Members
  BY DEF IsJWK, Members
<1>2. j.kty # "oct" /\ Key(j).ok /\ Public(j) = ok(pub)
  BY <1>1 DEF Public, Refused
<1>3. Public(j).val = pub
  BY <1>2 DEF ok
<1>4. /\ pub = [m \in {"kty", "crv"} \cup Params |-> pub[m]]
      /\ \A m \in PrivateParams : pub[m] = Missing
      /\ \A m \in {"kty", "crv", "n", "e", "x", "y"} : pub[m] = j[m]
      /\ pub.d = Missing
  BY DEF Members, Params, PrivateParams
<1> HIDE DEF pub
<1>5. KeepsPublic(pub, j)
  BY <1>4 DEF KeepsPublic
<1>6. IsJWK(pub)
  BY <1>4, MissingIsText DEF IsJWK, IntParams, PrivateParams
<1> QED BY <1>2, <1>3, <1>4, <1>5, <1>6

LEMMA EditedText ==
  ASSUME NEW t, IsText(t), NEW len
  PROVE  IsText([t EXCEPT !.len = len])
<1> DEFINE s == [form |-> t.form, num |-> t.num, len |-> len]
<1>1. [t EXCEPT !.len = len] = s
  BY DEF IsText
<1>2. IsText(s)
  BY DEF IsText
<1> QED BY <1>1, <1>2

LEMMA TouchedJWK ==
  ASSUME NEW i, IsJWK(i), NEW m \in Params, NEW t, m \in IntParams => IsText(t)
  PROVE  IsJWK([i EXCEPT ![m] = t])
<1> DEFINE j == [i EXCEPT ![m] = t]
<1>1. /\ j = [k \in {"kty", "crv"} \cup Params |-> j[k]]
      /\ \A k \in Params : j[k] = IF k = m THEN t ELSE i[k]
  BY DEF IsJWK, Params
<1>2. IntParams \subseteq Params
  BY DEF IntParams, Params
<1> HIDE DEF j
<1>3. IsJWK(j)
  BY <1>1, <1>2 DEF IsJWK
<1> QED BY <1>3 DEF j

LEMMA WrittenIsJWK ==
  ASSUME NEW w \in Written
  PROVE  Valid(w.key) /\ FromKey(w.key).ok /\ w.jwk = FromKey(w.key).val /\ IsJWK(w.jwk)
<1>1. PICK g \in GoKeys : FromKey(g).ok /\ w = [key |-> g, jwk |-> FromKey(g).val]
  BY DEF Written
<1>2. Valid(g)
  BY KeysAssumption DEF KeysAssumption
<1>3. IsJWK(FromKey(g).val)
  BY <1>1, <1>2, AllExported DEF Exported
<1>4. w.key = g /\ w.jwk = FromKey(g).val
  BY <1>1
<1> QED BY <1>1, <1>2, <1>3, <1>4

(***************************************************************************)
(* For all keys and edits: Key returns only keys that belong together, and *)
(* what is said to come from FromKey is what FromKey writes.               *)
(***************************************************************************)
THEOREM Invariance == Spec => []IInv
<1>1. Init => IInv
  <2>1. IsJWK(NoJWK)
    BY NoJWKType
  <2>2. ~Unparsed.ok
    BY DEF Unparsed, Refused
  <2> QED BY <2>1, <2>2 DEF Init, IInv
<1>2. IInv /\ [Next]_vars => IInv'
  <2> SUFFICES ASSUME IInv, [Next]_vars PROVE IInv'
    OBVIOUS
  <2>1. CASE Export
    <3>1. PICK w \in Written : /\ jwk' = w.jwk /\ origin' = {w.key} /\ parsed' = Unparsed
      BY <2>1 DEF Export
    <3> QED BY <3>1, WrittenIsJWK DEF IInv, Unparsed, Refused
  <2>2. CASE ExportAgain
    <3>1. /\ parsed.ok /\ FromKey(parsed.val).ok /\ jwk' = FromKey(parsed.val).val
          /\ origin' = {parsed.val} /\ parsed' = Unparsed
      BY <2>2 DEF ExportAgain
    <3>2. Valid(parsed.val)
      BY <3>1 DEF IInv
    <3>3. IsJWK(FromKey(parsed.val).val)
      BY <3>1, <3>2, AllExported DEF Exported
    <3> QED BY <3>1, <3>2, <3>3 DEF IInv, Unparsed, Refused
  <2>3. CASE ParseJWK
    <3>1. parsed' = Key(jwk) /\ jwk' = jwk /\ origin' = origin
      BY <2>3 DEF ParseJWK
    <3>2. Key(jwk).ok => Valid(Key(jwk).val)
      BY KeyValid DEF IInv
    <3> QED BY <3>1, <3>2 DEF IInv
  <2>4. CASE Publish
    <3>1. Public(jwk).ok /\ jwk' = Public(jwk).val /\ origin' = {} /\ parsed' = Unparsed
      BY <2>4 DEF Publish
    <3>2. IsJWK(Public(jwk).val)
      BY <3>1, PublicWrites DEF IInv
    <3> QED BY <3>1, <3>2 DEF IInv, Unparsed, Refused
  <2>5. ASSUME NEW j, IsJWK(j), Edit(j) PROVE IInv'
    <3>1. jwk' = j /\ origin' = {} /\ parsed' = Unparsed
      BY <2>5 DEF Edit
    <3> QED BY <2>5, <3>1 DEF IInv, Unparsed, Refused
  <2>6. CASE Touch
    <3>1. PICK m \in Params :
             LET t == jwk[m]
             IN  \/ \E s \in Texts \cup {Missing} : Edit([jwk EXCEPT ![m] = s])
                 \/ t.form = "b64" /\ Edit([jwk EXCEPT ![m].len = t.len + 1])
                 \/ /\ t.form = "b64" /\ t.len > 1 /\ t.num < Base ^ (t.len - 1)
                    /\ Edit([jwk EXCEPT ![m].len = t.len - 1])
      BY <2>6 DEF Touch
    <3>2. \E t : (m \in IntParams => IsText(t)) /\ Edit([jwk EXCEPT ![m] = t])
      <4>1. m \in IntParams => IsText(jwk[m])
        BY DEF IInv, IsJWK
      <4>2. CASE \E s \in Texts \cup {Missing} : Edit([jwk EXCEPT ![m] = s])
        BY <4>2, MissingIsText, KeysAssumption DEF KeysAssumption
      <4>3. ASSUME NEW len, Edit([jwk EXCEPT ![m].len = len])
            PROVE  \E t : (m \in IntParams => IsText(t)) /\ Edit([jwk EXCEPT ![m] = t])
        <5>1. m \in IntParams => IsText([jwk[m] EXCEPT !.len = len])
          BY <4>1, EditedText
        <5> QED BY <4>3, <5>1
      <4> QED BY <3>1, <4>2, <4>3
    <3> QED BY <2>5, <3>2, TouchedJWK DEF IInv
  <2>7. CASE Paste
    <3>1. PICK w \in Written, S \in Pasted :
             Edit([m \in DOMAIN jwk |-> IF m \in S THEN w.jwk[m] ELSE jwk[m]])
      BY <2>7 DEF Paste
    <3> DEFINE j == [m \in DOMAIN jwk |-> IF m \in S THEN w.jwk[m] ELSE jwk[m]]
    <3>2. IsJWK(w.jwk) /\ IsJWK(jwk)
      BY WrittenIsJWK DEF IInv
    <3>3. j = [m \in {"kty", "crv"} \cup Params |-> IF m \in S THEN w.jwk[m] ELSE jwk[m]]
      BY <3>2 DEF IsJWK
    <3>4. IsJWK(j)
      BY <3>2, <3>3 DEF IsJWK, IntParams, Params
    <3> QED BY <2>5, <3>1, <3>4
  <2>8. CASE UNCHANGED vars
    BY <2>8 DEF IInv, vars
  <2> QED BY <2>1, <2>2, <2>3, <2>4, <2>6, <2>7, <2>8 DEF Next
<1> QED BY <1>1, <1>2, PTL DEF Spec

(***************************************************************************)
(* For all keys of every type, and however often one went through JSON:    *)
(* FromKey is the inverse of Key.                                          *)
(***************************************************************************)
THEOREM Inversion == Spec => []FromKeyInvertsKey
<1>1. ASSUME IInv PROVE FromKeyInvertsKey
  <2> SUFFICES ASSUME NEW g \in origin, Representable(g) PROVE Key(jwk) = ok(Resolved(g))
    BY DEF FromKeyInvertsKey
  <2>1. Valid(g) /\ FromKey(g).ok /\ jwk = FromKey(g).val
    BY <1>1 DEF IInv
  <2> QED BY <2>1, AllExported DEF Exported
<1> QED BY <1>1, Invariance, PTL

-----------------------------------------------------------------------------
(* Public.                                                                 *)

\* Key looks at what Public keeps, and without a private number at that alone.
LEMMA PublicKeyRead ==
  ASSUME NEW j, NEW pub, KeepsPublic(pub, j), pub.d = Missing, Key(j).ok, j.kty # "oct",
         PairsUp(j)
  PROVE  Key(pub) = ok(PublicHalf(Key(j).val))
<1> DEFINE g == Key(j).val
<1>1. /\ pub.kty = j.kty /\ pub.crv = j.crv /\ pub.n = j.n /\ pub.e = j.e
      /\ pub.x = j.x /\ pub.y = j.y
  BY DEF KeepsPublic
<1>2. j.kty \in {"RSA", "EC", "OKP"}
  BY KeyIs DEF Refused
<1>3. CASE j.kty = "RSA"
  <2> DEFINE n == b64Int(j.n)
             e == b64Int(j.e)
             r == rsaPublic(n.val, e.val)
             bad == ~n.ok \/ ~e.ok \/ e.val < 3 \/ e.val > MaxExponent
  <2>1. Key(j) = rsaKey(j) /\ Key(pub) = rsaKey(pub)
    BY <1>1, <1>3, KeyIs
  <2>2. rsaKey(pub) = IF bad THEN Refused ELSE ok(r)
    BY <1>1 DEF rsaKey
  <2>3. \/ bad /\ rsaKey(j) = Refused
        \/ ~bad /\ rsaKey(j) \in {Refused, ok(r)}
        \/ ~bad /\ \E d, primes : rsaKey(j) = ok(rsaPrivate(n.val, e.val, d, primes, TRUE))
    BY Zenon DEF rsaKey
  <2> HIDE DEF bad, n, e
  <2>4. ~Refused.ok
    BY DEF Refused
  <2>5. CASE ~bad /\ rsaKey(j) = ok(r)
    <3>1. g = r
      BY <2>1, <2>5 DEF ok
    <3>2. PublicHalf(r) = r
      <4>1. r.type = "*rsa.PublicKey"
        BY DEF rsaPublic
      <4> QED BY <4>1, PublicHalfIs
    <3> QED BY <2>1, <2>2, <2>5, <3>1, <3>2
  <2>6. CASE ~bad /\ \E d, primes : rsaKey(j) = ok(rsaPrivate(n.val, e.val, d, primes, TRUE))
    <3>1. PICK d : \E primes : rsaKey(j) = ok(rsaPrivate(n.val, e.val, d, primes, TRUE))
      BY <2>6
    <3>2. PICK primes : rsaKey(j) = ok(rsaPrivate(n.val, e.val, d, primes, TRUE))
      BY <3>1
    <3>3. g = rsaPrivate(n.val, e.val, d, primes, TRUE)
      BY <2>1, <3>2 DEF ok
    <3>4. g.type = "*rsa.PrivateKey" /\ g.n = n.val /\ g.e = e.val
      <4> HIDE DEF g
      <4> QED BY <3>3 DEF rsaPrivate
    <3>5. PublicHalf(g) = r
      BY <3>4, PublicHalfIs
    <3> QED BY <2>1, <2>2, <2>6, <3>5
  <2> QED BY <2>1, <2>3, <2>4, <2>5, <2>6
<1>4. CASE j.kty = "EC"
  <2> DEFINE x == b64Int(j.x)
             y == b64Int(j.y)
             r == ecdsaPublic(j.crv, x.val, y.val)
             bad == j.crv \notin Curves \/ ~x.ok \/ ~y.ok \/ ~IsOnCurve(j.crv, x.val, y.val)
  <2>1. Key(j) = ecKey(j) /\ Key(pub) = ecKey(pub)
    BY <1>1, <1>4, KeyIs
  <2>2. ecKey(pub) = IF bad THEN Refused ELSE ok(r)
    BY <1>1 DEF ecKey
  <2>3. \/ bad /\ ecKey(j) = Refused
        \/ ~bad /\ ecKey(j) \in {Refused, ok(r)}
        \/ ~bad /\ \E d : ecKey(j) = ok(ecdsaPrivate(j.crv, x.val, y.val, d))
    BY Zenon DEF ecKey
  <2> HIDE DEF bad, x, y
  <2>4. ~Refused.ok
    BY DEF Refused
  <2>5. CASE ~bad /\ ecKey(j) = ok(r)
    <3>1. g = r
      BY <2>1, <2>5 DEF ok
    <3>2. PublicHalf(r) = r
      <4>1. r.type = "*ecdsa.PublicKey"
        BY DEF ecdsaPublic
      <4> QED BY <4>1, PublicHalfIs
    <3> QED BY <2>1, <2>2, <2>5, <3>1, <3>2
  <2>6. CASE ~bad /\ \E d : ecKey(j) = ok(ecdsaPrivate(j.crv, x.val, y.val, d))
    <3>1. PICK d : ecKey(j) = ok(ecdsaPrivate(j.crv, x.val, y.val, d))
      BY <2>6
    <3>2. g = ecdsaPrivate(j.crv, x.val, y.val, d)
      BY <2>1, <3>1 DEF ok
    <3>3. g.type = "*ecdsa.PrivateKey" /\ g.crv = j.crv /\ g.x = x.val /\ g.y = y.val
      <4> HIDE DEF g
      <4> QED BY <3>2 DEF ecdsaPrivate
    <3>4. PublicHalf(g) = r
      BY <3>3, PublicHalfIs
    <3> QED BY <2>1, <2>2, <2>6, <3>4
  <2> QED BY <2>1, <2>3, <2>4, <2>5, <2>6
<1>5. CASE j.kty = "OKP"
  <2> DEFINE x == b64Field(j.x)
             d == b64Field(j.d)
             Of(o) == IF j.crv = "Ed25519" THEN ed25519Public(o) ELSE ecdhPublic("X25519", o)
  <2>1. Key(j) = okpKey(j) /\ Key(pub) = okpKey(pub)
    BY <1>1, <1>5, KeyIs
  <2>2. j.crv \in {"Ed25519", "X25519"} /\ x.ok
    BY <2>1 DEF okpKey, Refused
  <2>3. okpKey(pub) = IF x.val.len # OctetKeySize THEN Refused ELSE ok(Of(x.val))
    BY <1>1, <2>2 DEF okpKey
  <2>4. \A o : /\ Of(o).x = o
               /\ Of(o).type \in {"ed25519.PublicKey", "*ecdh.PublicKey"}
    BY DEF ed25519Public, ecdhPublic
  <2>5. CASE j.d = Missing
    <3>1. okpKey(j) = IF x.val.len # OctetKeySize THEN Refused ELSE ok(Of(x.val))
      BY <2>2, <2>5 DEF okpKey
    <3>2. x.val.len = OctetKeySize /\ g = Of(x.val)
      <4> HIDE DEF x, Of
      <4> QED BY <2>1, <3>1 DEF ok, Refused
    <3>3. PublicHalf(Of(x.val)) = Of(x.val)
      <4> HIDE DEF Of, x
      <4>1. Of(x.val).type \in {"ed25519.PublicKey", "*ecdh.PublicKey"}
        BY <2>4
      <4> QED BY <4>1, PublicHalfIs
    <3> HIDE DEF Of, x, g
    <3> QED BY <2>1, <2>3, <3>2, <3>3 DEF g
  <2>6. CASE j.d # Missing
    <3>1. PublicHalf(g).x = x.val
      BY <1>5, <2>6 DEF PairsUp
    <3>2. PICK k : g = IF j.crv = "Ed25519" THEN ed25519Private(k) ELSE ecdhPrivate("X25519", k)
      <4>1. okpKey(j) = IF (j.crv = "Ed25519") /\ (x.val.len # OctetKeySize) THEN Refused
                        ELSE IF ~d.ok \/ d.val.len # OctetKeySize THEN Refused
                        ELSE IF j.crv = "Ed25519" THEN ok(ed25519Private(d.val))
                        ELSE ok(ecdhPrivate("X25519", d.val.num))
        BY <2>2, <2>6 DEF okpKey
      <4> HIDE DEF x, d
      <4>2. \/ okpKey(j) = Refused
            \/ j.crv = "Ed25519" /\ okpKey(j) = ok(ed25519Private(d.val))
            \/ j.crv # "Ed25519" /\ okpKey(j) = ok(ecdhPrivate("X25519", d.val.num))
        BY <4>1
      <4> QED BY <2>1, <4>2 DEF ok, Refused
    <3>3. \E n : PublicHalf(g) = Of(octets(n, OctetKeySize))
      <4>1. CASE j.crv = "Ed25519"
        <5>1. g.type = "ed25519.PrivateKey"
          <6> HIDE DEF g
          <6> QED BY <3>2, <4>1 DEF ed25519Private
        <5> HIDE DEF g
        <5> QED BY <4>1, <5>1, PublicHalfIs
      <4>2. CASE j.crv # "Ed25519"
        <5>1. g.type = "*ecdh.PrivateKey" /\ g.crv = "X25519"
          <6> HIDE DEF g
          <6> QED BY <3>2, <4>2 DEF ecdhPrivate
        <5> HIDE DEF g
        <5> QED BY <4>2, <5>1, PublicHalfIs
      <4> QED BY <4>1, <4>2
    <3>4. PICK n : PublicHalf(g) = Of(octets(n, OctetKeySize))
      BY <3>3
    <3> HIDE DEF Of, x, g
    <3>5. x.val = octets(n, OctetKeySize)
      BY <2>4, <3>1, <3>4
    <3>6. x.val.len = OctetKeySize
      BY <3>5 DEF octets
    <3> QED BY <2>1, <2>3, <3>4, <3>5, <3>6 DEF g
  <2> QED BY <2>5, <2>6
<1> QED BY <1>2, <1>3, <1>4, <1>5

LEMMA RequiredIs ==
  ASSUME NEW kty
  PROVE  /\ kty = "RSA" => required(kty) = {"e", "kty", "n"}
         /\ kty = "EC"  => required(kty) = {"crv", "kty", "x", "y"}
         /\ kty = "OKP" => required(kty) = {"crv", "kty", "x"}
         /\ kty = "oct" => required(kty) = {"k", "kty"}
         /\ kty \notin {"RSA", "EC", "OKP", "oct"} => required(kty) = {}
  BY DEF required

LEMMA ThumbprintKept ==
  ASSUME NEW j, NEW pub, KeepsPublic(pub, j), j.kty # "oct"
  PROVE  Thumbprint(pub) = Thumbprint(j)
<1>1. pub.kty = j.kty
  BY DEF KeepsPublic
<1>2. required(j.kty) \subseteq {"kty", "crv", "n", "e", "x", "y"}
  BY RequiredIs
<1>3. \A m \in required(j.kty) : pub[m] = j[m]
  BY <1>2 DEF KeepsPublic
<1>4. \A m \in required(j.kty) : absent(pub, m) = absent(j, m)
  BY <1>3 DEF absent
<1>5. [m \in required(j.kty) |-> pub[m]] = [m \in required(j.kty) |-> j[m]]
  BY <1>3
<1> QED BY <1>1, <1>4, <1>5, Zenon DEF Thumbprint

(***************************************************************************)
(* Whatever was edited or mixed: Public of a JWK that resolves is the JWK  *)
(* of the public half, and has none of the private texts.                  *)
(***************************************************************************)
THEOREM Publicity == Spec => []PublicIsPublic
<1>1. ASSUME IInv PROVE PublicIsPublic
  <2> DEFINE pub == Public(jwk).val
  <2> SUFFICES ASSUME Public(jwk).ok, PairsUp(jwk)
               PROVE  /\ Key(pub) = ok(PublicHalf(Key(jwk).val))
                      /\ Thumbprint(pub) = Thumbprint(jwk)
                      /\ ~IsPrivate(pub)
                      /\ \A m \in PrivateParams : jwk[m] # Missing => pub[m] # jwk[m]
    BY DEF PublicIsPublic
  <2>1. /\ KeepsPublic(pub, jwk) /\ pub.d = Missing
        /\ \A m \in PrivateParams : pub[m] = Missing
        /\ jwk.kty # "oct" /\ Key(jwk).ok
    BY <1>1, PublicWrites DEF IInv
  <2> HIDE DEF pub
  <2>2. Key(pub) = ok(PublicHalf(Key(jwk).val))
    BY <2>1, PublicKeyRead
  <2>3. Thumbprint(pub) = Thumbprint(jwk)
    BY <2>1, ThumbprintKept
  <2>4. pub.kty = jwk.kty
    BY <2>1 DEF KeepsPublic
  <2>5. ~IsPrivate(pub)
    BY <2>1, <2>4 DEF IsPrivate
  <2> QED BY <2>1, <2>2, <2>3, <2>5
<1> QED BY <1>1, Invariance, PTL

-----------------------------------------------------------------------------
(* Thumbprints.                                                            *)

\* The digest of what shows a key is over the members RFC 7638 requires.
LEMMA RSAThumbprint ==
  ASSUME NEW j, NEW n, NEW e, RSAMembers(j, n, e)
  PROVE  Thumbprint(j) = ok(Canonical(rsaPublic(n, e)))
<1>1. required(j.kty) = {"e", "kty", "n"}
  BY RequiredIs DEF RSAMembers
<1>2. j.n # Missing /\ j.e # Missing /\ j.kty = "RSA"
  BY DEF RSAMembers, Spells
<1>3. ~\E m \in required(j.kty) : absent(j, m)
  BY <1>1, <1>2 DEF absent, Params
<1>4. Thumbprint(j) = ok([m \in {"e", "kty", "n"} |-> j[m]])
  BY <1>1, <1>3 DEF Thumbprint
<1>5. j.n = Text(Bytes(n)) /\ j.e = Text(Bytes(e))
  BY DEF RSAMembers, Spells, Bytes
<1>6. Canonical(rsaPublic(n, e)) = [kty |-> "RSA", n |-> Text(Bytes(n)), e |-> Text(Bytes(e))]
  BY DEF Canonical, rsaPublic
<1>7. [m \in {"e", "kty", "n"} |-> j[m]] = [kty |-> "RSA", n |-> j.n, e |-> j.e]
  BY <1>2
<1> QED BY <1>4, <1>5, <1>6, <1>7

LEMMA ECThumbprint ==
  ASSUME NEW j, NEW crv, NEW x, NEW y, ECMembers(j, crv, x, y), crv # ""
  PROVE  Thumbprint(j) = ok(Canonical(ecdsaPublic(crv, x, y)))
<1> DEFINE tx == Text(octets(x, CoordSize[crv]))
           ty == Text(octets(y, CoordSize[crv]))
<1>1. required(j.kty) = {"crv", "kty", "x", "y"}
  BY RequiredIs DEF ECMembers
<1>2. j.x # Missing /\ j.y # Missing /\ j.kty = "EC" /\ j.crv = crv
  BY DEF ECMembers, Spells
<1>3. ~\E m \in required(j.kty) : absent(j, m)
  BY <1>1, <1>2 DEF absent, Params
<1>4. Thumbprint(j) = ok([m \in {"crv", "kty", "x", "y"} |-> j[m]])
  BY <1>1, <1>3 DEF Thumbprint
<1>5. j.x = tx /\ j.y = ty
  BY DEF ECMembers, Spells
<1>6. Canonical(ecdsaPublic(crv, x, y)) = [kty |-> "EC", crv |-> crv, x |-> tx, y |-> ty]
  BY DEF Canonical, ecdsaPublic
<1> HIDE DEF tx, ty
<1>7. [m \in {"crv", "kty", "x", "y"} |-> j[m]] = [kty |-> "EC", crv |-> crv, x |-> tx, y |-> ty]
  <2> DEFINE r == [kty |-> "EC", crv |-> crv, x |-> tx, y |-> ty]
  <2>1. DOMAIN r = {"crv", "kty", "x", "y"} /\ r = [m \in DOMAIN r |-> r[m]]
    OBVIOUS
  <2>2. r["kty"] = "EC" /\ r["crv"] = crv /\ r["x"] = tx /\ r["y"] = ty
    OBVIOUS
  <2> HIDE DEF r
  <2>3. /\ j["kty"] = r["kty"] /\ j["crv"] = r["crv"]
        /\ j["x"] = r["x"] /\ j["y"] = r["y"]
    BY <1>2, <1>5, <2>2
  <2>4. [m \in {"crv", "kty", "x", "y"} |-> j[m]] = r
    BY <2>1, <2>3
  <2> QED BY <2>4 DEF r
<1> QED BY <1>4, <1>6, <1>7

LEMMA OKPThumbprint ==
  ASSUME NEW j, NEW crv \in {"Ed25519", "X25519"}, NEW n, OKPMembers(j, crv, n)
  PROVE  Thumbprint(j) =
           ok([kty |-> "OKP", crv |-> crv, x |-> Text(octets(n, OctetKeySize))])
<1> DEFINE tx == Text(octets(n, OctetKeySize))
<1>1. required(j.kty) = {"crv", "kty", "x"}
  BY RequiredIs DEF OKPMembers
<1>2. j.x # Missing /\ j.kty = "OKP" /\ j.crv = crv
  BY DEF OKPMembers, Spells
<1>3. ~\E m \in required(j.kty) : absent(j, m)
  BY <1>1, <1>2 DEF absent, Params
<1>4. Thumbprint(j) = ok([m \in {"crv", "kty", "x"} |-> j[m]])
  BY <1>1, <1>3 DEF Thumbprint
<1>5. j.x = tx
  BY DEF OKPMembers, Spells
<1> HIDE DEF tx
<1>6. [m \in {"crv", "kty", "x"} |-> j[m]] = [kty |-> "OKP", crv |-> crv, x |-> j.x]
  BY <1>2
<1> QED BY <1>4, <1>5, <1>6 DEF tx

LEMMA OctThumbprint ==
  ASSUME NEW j, NEW k, IsOctets(k), octMembers(j, k)
  PROVE  Thumbprint(j) = ok(Canonical(secret(k)))
<1>1. required(j.kty) = {"k", "kty"}
  BY RequiredIs DEF octMembers
<1>2. j.k # Missing /\ j.kty = "oct"
  BY DEF octMembers, Spells
<1>3. ~\E m \in required(j.kty) : absent(j, m)
  BY <1>1, <1>2 DEF absent, Params
<1>4. Thumbprint(j) = ok([m \in {"k", "kty"} |-> j[m]])
  BY <1>1, <1>3 DEF Thumbprint
<1>5. j.k = Text(k)
  BY DEF octMembers, Spells, IsOctets
<1>6. Canonical(secret(k)) = [kty |-> "oct", k |-> Text(k)]
  BY DEF Canonical, secret
<1>7. [m \in {"k", "kty"} |-> j[m]] = [kty |-> "oct", k |-> j.k]
  BY <1>2
<1> QED BY <1>4, <1>5, <1>6, <1>7

LEMMA ShownThumbprint ==
  ASSUME NEW j, NEW pub, Shows(j, pub)
  PROVE  Thumbprint(j) = ok(Canonical(pub))
<1>1. CASE pub = rsaPublic(pub.n, pub.e) /\ RSAMembers(j, pub.n, pub.e)
  BY <1>1, RSAThumbprint
<1>2. CASE pub = ecdsaPublic(pub.crv, pub.x, pub.y) /\ ECMembers(j, pub.crv, pub.x, pub.y)
  <2>1. pub.crv # ""
    BY <1>2, CurveAssumption DEF CurveAssumption, ECMembers
  <2> QED BY <1>2, <2>1, ECThumbprint
<1>3. CASE /\ pub = ed25519Public(pub.x) /\ pub.x = octets(pub.x.num, OctetKeySize)
           /\ OKPMembers(j, "Ed25519", pub.x.num)
  <2> DEFINE n == pub.x.num
             t == Text(octets(n, OctetKeySize))
  <2>1. Thumbprint(j) = ok([kty |-> "OKP", crv |-> "Ed25519", x |-> t])
    BY <1>3, OKPThumbprint
  <2>2. pub.type = "ed25519.PublicKey"
    BY <1>3 DEF ed25519Public
  <2> HIDE DEF t
  <2>3. Canonical(pub) = [kty |-> "OKP", crv |-> "Ed25519", x |-> t]
    BY <2>2 DEF Canonical, t
  <2> QED BY <2>1, <2>3
<1>4. CASE /\ pub = ecdhPublic("X25519", pub.x) /\ pub.x = octets(pub.x.num, OctetKeySize)
           /\ OKPMembers(j, "X25519", pub.x.num)
  <2> DEFINE n == pub.x.num
             t == Text(octets(n, OctetKeySize))
  <2>1. Thumbprint(j) = ok([kty |-> "OKP", crv |-> "X25519", x |-> t])
    BY <1>4, OKPThumbprint
  <2>2. pub.type = "*ecdh.PublicKey"
    BY <1>4 DEF ecdhPublic
  <2> HIDE DEF t
  <2>3. Canonical(pub) = [kty |-> "OKP", crv |-> "X25519", x |-> t]
    BY <2>2 DEF Canonical, t
  <2> QED BY <2>1, <2>3
<1>5. CASE pub = secret(pub.k) /\ IsOctets(pub.k) /\ octMembers(j, pub.k)
  BY <1>5, OctThumbprint
<1> QED BY <1>1, <1>2, <1>3, <1>4, <1>5 DEF Shows

\* JWKs with one thumbprint have the members in common that it is over, and
\* so show the same public key.
LEMMA SameThumbprint ==
  ASSUME NEW i, NEW j, Thumbprint(j) = Thumbprint(i), Thumbprint(i).ok
  PROVE  j.kty = i.kty /\ \A m \in required(i.kty) : j[m] = i[m]
<1> DEFINE fi == [m \in required(i.kty) |-> i[m]]
           fj == [m \in required(j.kty) |-> j[m]]
<1>1. /\ required(i.kty) # {} /\ Thumbprint(i) = ok(fi)
      /\ required(j.kty) # {} /\ Thumbprint(j) = ok(fj)
  <2>1. \A h : Thumbprint(h).ok =>
           /\ required(h.kty) # {} /\ Thumbprint(h) = ok([m \in required(h.kty) |-> h[m]])
    BY DEF Thumbprint, Refused
  <2> QED BY <2>1
<1>2. fi = fj
  <2> HIDE DEF fi, fj
  <2>1. ok(fi).val = fi /\ ok(fj).val = fj
    BY DEF ok
  <2> QED BY <1>1, <2>1
<1>3. required(i.kty) = required(j.kty)
  <2>1. DOMAIN fi = required(i.kty) /\ DOMAIN fj = required(j.kty)
    OBVIOUS
  <2> HIDE DEF fi, fj
  <2> QED BY <1>2, <2>1
<1>4. \A m \in required(i.kty) : fi[m] = i[m] /\ fj[m] = j[m]
  BY <1>3
<1> HIDE DEF fi, fj
<1>5. \A m \in required(i.kty) : j[m] = i[m]
  BY <1>2, <1>4
<1>6. "kty" \in required(i.kty)
  BY <1>1, RequiredIs
<1> QED BY <1>5, <1>6

LEMMA SameMembers ==
  ASSUME NEW i, NEW j, NEW pub, Shows(i, pub),
         j.kty = i.kty, \A m \in required(i.kty) : j[m] = i[m]
  PROVE  Shows(j, pub)
<1>1. ASSUME NEW n, NEW e, RSAMembers(i, n, e) PROVE RSAMembers(j, n, e)
  <2>1. required(i.kty) = {"e", "kty", "n"}
    BY <1>1, RequiredIs DEF RSAMembers
  <2>2. j.n = i.n /\ j.e = i.e
    BY <2>1
  <2> QED BY <1>1, <2>2 DEF RSAMembers
<1>2. ASSUME NEW crv, NEW x, NEW y, ECMembers(i, crv, x, y) PROVE ECMembers(j, crv, x, y)
  <2>1. required(i.kty) = {"crv", "kty", "x", "y"}
    BY <1>2, RequiredIs DEF ECMembers
  <2>2. j.crv = i.crv /\ j.x = i.x /\ j.y = i.y
    BY <2>1
  <2> QED BY <1>2, <2>2 DEF ECMembers
<1>3. ASSUME NEW crv, NEW n, OKPMembers(i, crv, n) PROVE OKPMembers(j, crv, n)
  <2>1. required(i.kty) = {"crv", "kty", "x"}
    BY <1>3, RequiredIs DEF OKPMembers
  <2>2. j.crv = i.crv /\ j.x = i.x
    BY <2>1
  <2> QED BY <1>3, <2>2 DEF OKPMembers
<1>4. ASSUME NEW k, octMembers(i, k) PROVE octMembers(j, k)
  <2>1. required(i.kty) = {"k", "kty"}
    BY <1>4, RequiredIs DEF octMembers
  <2>2. j.k = i.k
    BY <2>1
  <2> QED BY <1>4, <2>2 DEF octMembers
<1> QED BY <1>1, <1>2, <1>3, <1>4 DEF Shows

LEMMA ShownKey ==
  ASSUME NEW j, NEW pub, Shows(j, pub), j.d = Missing
  PROVE  Key(j) = ok(pub)
<1>1. CASE pub = rsaPublic(pub.n, pub.e) /\ RSAMembers(j, pub.n, pub.e)
  BY <1>1, RSAReads
<1>2. CASE pub = ecdsaPublic(pub.crv, pub.x, pub.y) /\ ECMembers(j, pub.crv, pub.x, pub.y)
  BY <1>2, ECReads
<1>3. CASE /\ pub = ed25519Public(pub.x) /\ pub.x = octets(pub.x.num, OctetKeySize)
           /\ OKPMembers(j, "Ed25519", pub.x.num)
  <2>1. Key(j) = ok(ed25519Public(octets(pub.x.num, OctetKeySize)))
    BY <1>3, OKPReads
  <2> QED BY <1>3, <2>1
<1>4. CASE /\ pub = ecdhPublic("X25519", pub.x) /\ pub.x = octets(pub.x.num, OctetKeySize)
           /\ OKPMembers(j, "X25519", pub.x.num)
  <2>1. Key(j) = ok(ecdhPublic("X25519", octets(pub.x.num, OctetKeySize)))
    BY <1>4, OKPReads
  <2> QED BY <1>4, <2>1
<1>5. CASE pub = secret(pub.k) /\ IsOctets(pub.k) /\ octMembers(j, pub.k)
  BY <1>5, OctReads
<1> QED BY <1>1, <1>2, <1>3, <1>4, <1>5 DEF Shows

(***************************************************************************)
(* For all keys of every type, and all JWKs there come to be: a thumbprint *)
(* is what RFC 7638 says of the public half, and of no other key.          *)
(***************************************************************************)
THEOREM Identification == Spec => []ThumbprintIdentifiesKey
<1>1. ASSUME IInv PROVE ThumbprintIdentifiesKey
  <2>1. ASSUME NEW g \in origin, Representable(g)
        PROVE  Thumbprint(jwk) = ok(Canonical(PublicHalf(Resolved(g))))
    <3>1. Valid(g) /\ FromKey(g).ok /\ jwk = FromKey(g).val
      BY <1>1 DEF IInv
    <3> QED BY <2>1, <3>1, AllExported, ShownThumbprint DEF Exported
  <2>2. ASSUME Public(jwk).ok, NEW w \in Written, Representable(w.key),
               Thumbprint(jwk) = Thumbprint(w.jwk)
        PROVE  Key(Public(jwk).val).val = PublicHalf(Resolved(w.key))
    <3> DEFINE pub == Public(jwk).val
               h   == PublicHalf(Resolved(w.key))
    <3>1. Shows(w.jwk, h)
      BY <2>2, WrittenIsJWK, AllExported DEF Exported
    <3>2. KeepsPublic(pub, jwk) /\ pub.d = Missing /\ jwk.kty # "oct"
      BY <1>1, <2>2, PublicWrites DEF IInv
    <3> HIDE DEF pub, h
    <3>3. Thumbprint(pub) = Thumbprint(w.jwk)
      BY <2>2, <3>2, ThumbprintKept
    <3>4. Thumbprint(w.jwk).ok
      BY <3>1, ShownThumbprint DEF ok
    <3>5. Shows(pub, h)
      BY <3>1, <3>3, <3>4, SameThumbprint, SameMembers
    <3>6. Key(pub) = ok(h)
      BY <3>2, <3>5, ShownKey
    <3> QED BY <3>6 DEF pub, h, ok
  <2> QED BY <2>1, <2>2 DEF ThumbprintIdentifiesKey
<1> QED BY <1>1, Invariance, PTL
==============================================================================

------------------------------ MODULE JWELemmas ------------------------------
(***************************************************************************)
(* Facts about the operators JWE is built from: key management, sealing,   *)
(* one attempt at decryption, and the order of recipients.                 *)
(***************************************************************************)
EXTENDS JWEProperties, JOSELemmas

-----------------------------------------------------------------------------
(* Algorithms.                                                             *)

\* The content encryptions have a name and a key size.
LEMMA EncType ==
  ASSUME NEW enc \in DOMAIN contentEncs
  PROVE  enc # "" /\ enc \in Symbol /\ contentEncs[enc].keySize \in Nat
<1>1. enc \in {"A128CBC-HS256", "A192CBC-HS384", "A256CBC-HS512",
               "A128GCM", "A192GCM", "A256GCM"}
  BY DEF contentEncs
<1>2. enc # "" /\ enc \in Symbol
  BY <1>1, SymbolsAssumption
<1>3. contentEncs[enc].keySize \in {16, 24, 32, 48, 64}
  BY <1>1 DEF contentEncs, contentEnc
<1>4. contentEncs[enc].keySize \in Nat
  BY <1>3
<1> QED BY <1>2, <1>4

\* lookupEnc accepts these.
LEMMA LookupEnc ==
  ASSUME NEW enc, lookupEnc(enc) = nil PROVE enc \in DOMAIN contentEncs
  BY DEF lookupEnc, nil

MgmtKinds == {"rsa", "kw", "dir", "ecdh", "gcmkw", "pbes2"}

\* The key management algorithms are of six kinds.
LEMMA MgmtType ==
  ASSUME NEW alg \in DOMAIN keyMgmts
  PROVE  /\ alg # "" /\ alg \in Symbol
         /\ keyMgmts[alg].kind \in MgmtKinds
         /\ keyMgmts[alg].wrapBits \in {0, 128, 192, 256}
         /\ wrapKeySize(alg) \in Nat
         /\ keyMgmts[alg].kind = "rsa" <=> alg \in {"RSA1_5", "RSA-OAEP", "RSA-OAEP-256"}
         /\ derivesCEK(alg) => keyMgmts[alg].kind \in {"dir", "ecdh"}
<1>1. alg \in {"RSA1_5", "RSA-OAEP", "RSA-OAEP-256", "A128KW", "A192KW", "A256KW",
               "dir", "ECDH-ES", "ECDH-ES+A128KW", "ECDH-ES+A192KW",
               "ECDH-ES+A256KW", "A128GCMKW", "A192GCMKW", "A256GCMKW",
               "PBES2-HS256+A128KW", "PBES2-HS384+A192KW", "PBES2-HS512+A256KW"}
  BY DEF keyMgmts
<1>2. alg # "" /\ alg \in Symbol
  BY <1>1, SymbolsAssumption
<1>3. /\ keyMgmts[alg].kind \in MgmtKinds
      /\ keyMgmts[alg].wrapBits \in {0, 128, 192, 256}
      /\ keyMgmts[alg].kind = "rsa" <=> alg \in {"RSA1_5", "RSA-OAEP", "RSA-OAEP-256"}
  BY <1>1 DEF keyMgmts, keyMgmt, MgmtKinds
<1>4. wrapKeySize(alg) \in Nat
  BY <1>3 DEF wrapKeySize
<1>5. derivesCEK(alg) => keyMgmts[alg].kind \in {"dir", "ecdh"}
  BY <1>3 DEF derivesCEK, keyMgmt
<1> QED BY <1>2, <1>3, <1>4, <1>5

-----------------------------------------------------------------------------
(* Secrets.                                                                *)

\* No secret is one.
LEMMA NoSecretType == NoSecret \in Secrets
<1>1. 0 \in Int /\ 0 \in Nat
  OBVIOUS
<1> QED BY <1>1, SymbolAssumption, Zenon DEF NoSecret, Secrets

\* A drawn CEK is a secret.
LEMMA NewCEKType ==
  ASSUME NEW id \in Symbol, NEW size \in Nat
  PROVE  /\ newCEK(id, size) \in Secrets
         /\ newCEK(id, size).from = "random" /\ newCEK(id, size).id = id
  BY NoSecretType DEF newCEK, Secrets

\* A symmetric key is a secret.
LEMMA SecretOfType ==
  ASSUME NEW key \in GoKeys
  PROVE  /\ octets(key) \in Nat
         /\ secretOf(key) \in Secrets
         /\ secretOf(key).from = "key" /\ secretOf(key).id = key.pair
<1>1. octets(key) \in Nat
  BY KeyMgmtAssumption DEF octets, GoKeys
<1>2. key.pair \in Pair
  BY DEF GoKeys
<1> DEFINE n == octets(key)
<1>3. n \in Nat /\ octets(key) = n
  BY <1>1
<1> HIDE DEF n
<1>4. /\ secretOf(key) \in Secrets
      /\ secretOf(key).from = "key" /\ secretOf(key).id = key.pair
  BY <1>2, <1>3, NoSecretType DEF secretOf, Secrets
<1> QED BY <1>1, <1>4

\* What ECDH agrees on is a secret.
LEMMA ECDHType ==
  ASSUME NEW pair \in Pair, NEW epk \in Symbol, NEW alg \in DOMAIN keyMgmts,
         NEW enc \in DOMAIN contentEncs, NEW apu \in Symbol, NEW apv \in Symbol
  PROVE  LET z == ecdhDerive(pair, epk, alg, enc, apu, apv)
         IN  z \in Secrets /\ z.from = "ecdh" /\ z.id = pair
<1> DEFINE a == IF keyMgmts[alg].wrapBits = 0 THEN enc ELSE alg
           n == IF keyMgmts[alg].wrapBits = 0 THEN contentEncs[enc].keySize
                ELSE wrapKeySize(alg)
<1>1. a \in Symbol /\ n \in Nat
  BY EncType, MgmtType
<1> HIDE DEF a, n
<1>2. ecdhDerive(pair, epk, alg, enc, apu, apv) =
        [from |-> "ecdh", id |-> pair, with |-> epk, apu |-> apu, apv |-> apv, count |-> 0,
         alg |-> a, size |-> n]
  BY DEF ecdhDerive, a, n
<1> QED BY <1>1, <1>2 DEF Secrets

\* What PBKDF2 derives is a secret.
LEMMA PBKDF2Type ==
  ASSUME NEW pair \in Pair, NEW alg \in DOMAIN keyMgmts, NEW salt \in Symbol,
         NEW count \in Int
  PROVE  LET z == PBKDF2(pair, alg, salt, count)
         IN  z \in Secrets /\ z.from = "pbes2" /\ z.id = pair
<1>1. alg \in Symbol /\ wrapKeySize(alg) \in Nat
  BY MgmtType
<1> QED BY <1>1, NoSecretType DEF PBKDF2, Secrets

-----------------------------------------------------------------------------
(* Header parameters of key management.                                    *)

\* The texts that spell octets are symbols.
LEMMA SegTexts == DOMAIN SegLen \subseteq Symbol /\ "" \in DOMAIN SegLen
  BY KeyMgmtAssumption

\* headerBytes gives octets, none where it fails.
LEMMA HeaderBytesType ==
  ASSUME NEW h, NEW n
  PROVE  headerBytes(h, n).out \in Symbol /\ headerBytesOptional(h, n).out \in Symbol
<1>1. headerBytes(h, n).out \in Symbol
  BY SegTexts DEF headerBytes
<1>2. headerBytesOptional(h, n).out \in Symbol
  BY <1>1, SegTexts DEF headerBytesOptional
<1> QED BY <1>1, <1>2

\* headerInt gives a number some header can hold.
LEMMA HeaderIntType ==
  ASSUME NEW v, headerInt(v).err = nil
  PROVE  headerInt(v).int \in Int /\ \E s \in DOMAIN Number : Number[s] = headerInt(v).int
<1>1. v.items[1] \in DOMAIN Number /\ headerInt(v).int = Number[v.items[1]]
  BY DEF headerInt, nil
<1>2. \A s \in DOMAIN Number : Number[s] \in Int
  BY KeyMgmtAssumption
<1> QED BY <1>1, <1>2

\* Int32 writes such a number back.
LEMMA Int32Type ==
  ASSUME NEW i, \E s \in DOMAIN Number : Number[s] = i
  PROVE  Int32(i) \in Value
<1> DEFINE s == CHOOSE t \in DOMAIN Number : Number[t] = i
<1>1. s \in DOMAIN Number
  OBVIOUS
<1> HIDE DEF s
<1>2. s \in Symbol
  BY <1>1, KeyMgmtAssumption
<1>3. <<s>> \in Seq(Symbol)
  BY <1>2
<1>4. Int32(i) = [go |-> "int", items |-> <<s>>]
  BY DEF Int32, s
<1> QED BY <1>3, <1>4 DEF Value, GoType

\* An "epk" can be written in a header.
LEMMA EpkType ==
  ASSUME NEW id \in Symbol, NEW crv \in Symbol
  PROVE  epkMap("public", id, crv) \in Value
<1>1. "public" \in Symbol
  BY SymbolsAssumption
<1>2. <<"public", id, crv>> \in Seq(Symbol)
  BY <1>1
<1> QED BY <1>2 DEF epkMap, Value, GoType

-----------------------------------------------------------------------------
(* encryptKey.                                                             *)

\* An encrypted key is one, and carries what it wraps.
LEMMA WrappedType ==
  ASSUME NEW mode \in KeyModes, NEW kek \in Secrets, NEW iv \in Symbol, NEW cek \in Secrets
  PROVE  LET k == b64Key(wrapped(mode, kek, iv, cek))
         IN  k \in EncryptedKeys /\ k.key.cek = cek /\ k.key.kek = kek
  BY DEF b64Key, wrapped, EncryptedKeys, Wrapped

\* So are octets nothing made, and no octets.
LEMMA JunkType ==
  Junk \in Wrapped /\ Junk.mode = "junk" /\ NoKey \in EncryptedKeys /\ NoKey.key = Junk
<1>2. Junk.mode = "junk"
  BY Zenon DEF Junk, wrapped
<1>1. Junk \in Wrapped
  BY NoSecretType, SymbolAssumption DEF Junk, wrapped, Wrapped, KeyModes
<1> HIDE DEF Junk
<1> QED BY <1>1, <1>2 DEF NoKey, EncryptedKeys

\* The parameters key management writes.
KeyOutputs == {"epk", "p2s", "p2c", "iv", "tag"}

\* What encryptKey returns for a recipient with this key pair.
KeyMade(r, pair, alg, enc, header, given, draws) ==
    /\ r.cek \in Secrets /\ r.key \in EncryptedKeys /\ r.header \in Headers
    /\ IF derivesCEK(alg)
       THEN r.cek.from \in {"key", "ecdh"} /\ r.cek.id = pair /\ r.key = NoKey
       ELSE /\ r.cek = IF given = NoSecret THEN newCEK(draws.cek, contentEncs[enc].keySize)
                       ELSE given
            /\ r.key.key.cek = r.cek /\ r.key.key.kek.id = pair
    /\ \A n \in Name \ KeyOutputs : r.header[n] = header[n]

\* The parts of KeyMade for a wrapped CEK.
LEMMA WrappedMade ==
  ASSUME NEW r, NEW pair, NEW alg, NEW enc, NEW header \in Headers, NEW given, NEW draws,
         NEW mode \in KeyModes, NEW kek \in Secrets, NEW iv \in Symbol, NEW cek \in Secrets,
         ~derivesCEK(alg), kek.id = pair,
         cek = IF given = NoSecret THEN newCEK(draws.cek, contentEncs[enc].keySize) ELSE given,
         r.cek = cek, r.key = b64Key(wrapped(mode, kek, iv, cek)),
         r.header \in Headers, \A n \in Name \ KeyOutputs : r.header[n] = header[n]
  PROVE  KeyMade(r, pair, alg, enc, header, given, draws)
<1> DEFINE k == b64Key(wrapped(mode, kek, iv, cek))
<1>1. k \in EncryptedKeys /\ k.key.cek = cek /\ k.key.kek = kek
  BY WrappedType
<1> HIDE DEF k
<1> QED BY <1>1, Zenon DEF KeyMade, k

\* encryptKeyECDH.
LEMMA EncryptKeyECDHMade ==
  ASSUME NEW alg \in DOMAIN keyMgmts, NEW enc \in DOMAIN contentEncs, NEW key \in GoKeys,
         NEW header \in Headers, NEW given \in Secrets, NEW draws, NEW cek \in Secrets,
         draws.own \in Symbol,
         ~derivesCEK(alg) => cek = IF given = NoSecret
            THEN newCEK(draws.cek, contentEncs[enc].keySize) ELSE given,
         encryptKeyECDH(alg, enc, key, header, cek, draws.own).err = nil
  PROVE  KeyMade(encryptKeyECDH(alg, enc, key, header, cek, draws.own),
                 key.pair, alg, enc, header, given, draws)
<1> DEFINE own == draws.own
           r   == encryptKeyECDH(alg, enc, key, header, cek, own)
           hdr == With(header, "epk", epkMap("public", own, key.crv))
           z   == ecdhDerive(key.pair, own, alg, enc, headerBytesOptional(hdr, "apu").out,
                             headerBytesOptional(hdr, "apv").out)
<1>1. r = IF derivesCEK(alg) THEN [err |-> nil, cek |-> z, key |-> NoKey, header |-> hdr]
          ELSE [err |-> nil, cek |-> cek, header |-> hdr,
                key |-> b64Key(wrapped("aeskw", z, "", cek))]
  BY DEF encryptKeyECDH, noKey, nil
<1>2. key.pair \in Pair /\ key.crv \in Symbol
  BY DEF GoKeys
<1>3. hdr \in Headers
  BY <1>2, EpkType, WithType
<1>4. \A n \in Name \ KeyOutputs : hdr[n] = header[n]
  BY WithKeeps DEF KeyOutputs
<1>5. z \in Secrets /\ z.from = "ecdh" /\ z.id = key.pair
  BY <1>2, HeaderBytesType, ECDHType
<1> HIDE DEF r, hdr, z
<1>6. CASE derivesCEK(alg)
  <2>1. r.cek = z /\ r.key = NoKey /\ r.header = hdr
    BY <1>1, <1>6
  <2> QED BY <1>3, <1>4, <1>5, <1>6, <2>1, JunkType DEF KeyMade, r
<1>7. CASE ~derivesCEK(alg)
  <2>1. r.cek = cek /\ r.header = hdr /\ r.key = b64Key(wrapped("aeskw", z, "", cek))
    BY <1>1, <1>7
  <2>2. "aeskw" \in KeyModes
    BY DEF KeyModes
  <2>3. KeyMade(r, key.pair, alg, enc, header, given, draws)
    BY <1>3, <1>4, <1>5, <1>7, <2>1, <2>2, SymbolAssumption, WrappedMade, Zenon
  <2> QED BY <2>3 DEF r
<1> QED BY <1>6, <1>7

\* encryptKeyPBES2.
LEMMA EncryptKeyPBES2Made ==
  ASSUME NEW alg \in DOMAIN keyMgmts, NEW enc, NEW key \in GoKeys,
         NEW header \in Headers, NEW given \in Secrets, NEW draws, NEW cek \in Secrets,
         draws.own \in Symbol, ~derivesCEK(alg),
         cek = IF given = NoSecret THEN newCEK(draws.cek, contentEncs[enc].keySize) ELSE given,
         encryptKeyPBES2(alg, key, header, cek, draws.own).err = nil
  PROVE  KeyMade(encryptKeyPBES2(alg, key, header, cek, draws.own),
                 key.pair, alg, enc, header, given, draws)
<1> DEFINE own  == draws.own
           r    == encryptKeyPBES2(alg, key, header, cek, own)
           p2c  == IF Has(header, "p2c") THEN header["p2c"] ELSE Int32(DefaultPBES2Count)
           salt == IF Has(header, "p2s") THEN headerBytes(header, "p2s")
                   ELSE [err |-> nil, out |-> own]
           n    == headerInt(p2c).int
           hdr  == With(With(header, "p2s", Str(salt.out)), "p2c", Int32(n))
           z    == PBKDF2(key.pair, alg, salt.out, n)
<1>1. /\ p2cProducedErr(p2c) = nil
      /\ r = [err |-> nil, cek |-> cek, header |-> hdr,
              key |-> b64Key(wrapped("aeskw", z, "", cek))]
  BY DEF encryptKeyPBES2, noKey, nil
<1>2. headerInt(p2c).err = nil
  BY <1>1 DEF p2cProducedErr, nil
<1>3. n \in Int /\ Int32(n) \in Value
  BY <1>2, HeaderIntType, Int32Type
<1>4. salt.out \in Symbol
  BY HeaderBytesType
<1>5. key.pair \in Pair
  BY DEF GoKeys
<1> HIDE DEF n, salt
<1>6. hdr \in Headers
  <2>1. With(header, "p2s", Str(salt.out)) \in Headers
    BY <1>4, StrType, WithType
  <2> QED BY <1>3, <2>1, WithType
<1>7. ASSUME NEW m \in Name \ KeyOutputs PROVE hdr[m] = header[m]
  <2>1. m # "p2s" /\ m # "p2c"
    BY DEF KeyOutputs
  <2>2. With(header, "p2s", Str(salt.out)) \in Headers
    BY <1>4, StrType, WithType
  <2> QED BY <2>1, <2>2, WithKeeps
<1>8. z \in Secrets /\ z.id = key.pair
  BY <1>3, <1>4, <1>5, PBKDF2Type
<1> HIDE DEF r, hdr, z
<1>9. r.cek = cek /\ r.header = hdr /\ r.key = b64Key(wrapped("aeskw", z, "", cek))
  BY <1>1
<1>10. "aeskw" \in KeyModes
  BY DEF KeyModes
<1>11. KeyMade(r, key.pair, alg, enc, header, given, draws)
  BY <1>6, <1>7, <1>8, <1>9, <1>10, SymbolAssumption, WrappedMade, Zenon
<1> QED BY <1>11 DEF r

(***************************************************************************)
(* encryptKey, in whichever of the six ways, hands the CEK to the given    *)
(* key pair only, and writes no header parameters but its own.             *)
(***************************************************************************)
LEMMA EncryptKeyMade ==
  ASSUME NEW alg \in DOMAIN keyMgmts, NEW enc \in DOMAIN contentEncs, NEW key \in GoKeys,
         NEW header \in Headers, NEW given \in Secrets, NEW draws,
         draws.own \in Symbol, draws.cek \in Symbol,
         encryptKey(alg, enc, key, header, given, draws).err = nil
  PROVE  /\ derivesCEK(alg) => given = NoSecret
         /\ KeyMade(encryptKey(alg, enc, key, header, given, draws),
                    key.pair, alg, enc, header, given, draws)
<1> DEFINE km   == keyMgmts[alg]
           r    == encryptKey(alg, enc, key, header, given, draws)
           cek  == IF given = NoSecret /\ ~derivesCEK(alg)
                   THEN newCEK(draws.cek, contentEncs[enc].keySize) ELSE given
           done(w) == [err |-> nil, cek |-> cek, key |-> b64Key(w), header |-> header]
           bad  == symmetricKeyErr(key, IF km.kind = "dir" THEN contentEncs[enc].keySize
                                        ELSE wrapKeySize(alg))
<1>1. derivesCEK(alg) => given = NoSecret
  BY DEF encryptKey, noKey, nil
<1>2. cek \in Secrets
  BY EncType, NewCEKType
<1>3. ~derivesCEK(alg) => cek = IF given = NoSecret
        THEN newCEK(draws.cek, contentEncs[enc].keySize) ELSE given
  OBVIOUS
<1>4. key.pair \in Pair /\ secretOf(key) \in Secrets
      /\ secretOf(key).from = "key" /\ secretOf(key).id = key.pair
  BY SecretOfType DEF GoKeys
<1>5. km.kind \in MgmtKinds /\ (derivesCEK(alg) => km.kind \in {"dir", "ecdh"})
      /\ (km.kind = "rsa" => alg \in {"RSA1_5", "RSA-OAEP", "RSA-OAEP-256"})
      /\ (km.kind = "dir" => derivesCEK(alg))
  BY MgmtType DEF derivesCEK
<1> HIDE DEF cek
<1>6. CASE km.kind = "ecdh"
  <2>1. r = encryptKeyECDH(alg, enc, key, header, cek, draws.own)
    BY <1>1, <1>6 DEF encryptKey, cek
  <2> QED BY <1>1, <1>2, <1>3, <2>1, EncryptKeyECDHMade
<1>7. CASE km.kind = "pbes2"
  <2>1. r = encryptKeyPBES2(alg, key, header, cek, draws.own)
    BY <1>1, <1>7 DEF encryptKey, cek
  <2>2. ~derivesCEK(alg)
    BY <1>5, <1>7
  <2> QED BY <1>1, <1>2, <1>3, <2>1, <2>2, EncryptKeyPBES2Made
<1>8. CASE km.kind = "rsa"
  <2> DEFINE z == [NoSecret EXCEPT !.from = "key", !.id = key.pair]
  <2>1. r = done(wrapped(alg, z, "", cek))
    BY <1>1, <1>8 DEF encryptKey, cek, noKey, nil
  <2>2. z \in Secrets /\ z.id = key.pair
    BY <1>4, NoSecretType DEF Secrets
  <2>3. alg \in KeyModes /\ ~derivesCEK(alg)
    BY <1>5, <1>8 DEF KeyModes
  <2> HIDE DEF z, r
  <2>4. r.cek = cek /\ r.header = header /\ r.key = b64Key(wrapped(alg, z, "", cek))
    BY <2>1
  <2>5. KeyMade(r, key.pair, alg, enc, header, given, draws)
    BY <1>2, <1>3, <2>2, <2>3, <2>4, SymbolAssumption, WrappedMade, Zenon
  <2> QED BY <1>1, <2>5 DEF r
<1>9. CASE km.kind = "dir"
  <2>1. r = [err |-> nil, cek |-> secretOf(key), key |-> NoKey, header |-> header]
    BY <1>1, <1>9 DEF encryptKey, cek, noKey, nil
  <2> HIDE DEF r
  <2>2. r.cek = secretOf(key) /\ r.key = NoKey /\ r.header = header
    BY <2>1
  <2> QED BY <1>1, <1>4, <1>5, <1>9, <2>2, JunkType DEF KeyMade, r
<1>10. CASE km.kind = "kw"
  <2>1. r = done(wrapped("aeskw", secretOf(key), "", cek))
    BY <1>1, <1>10 DEF encryptKey, cek, noKey, nil
  <2>2. "aeskw" \in KeyModes /\ ~derivesCEK(alg)
    BY <1>5, <1>10 DEF KeyModes
  <2> HIDE DEF r
  <2>3. r.cek = cek /\ r.header = header
        /\ r.key = b64Key(wrapped("aeskw", secretOf(key), "", cek))
    BY <2>1
  <2>4. KeyMade(r, key.pair, alg, enc, header, given, draws)
    BY <1>2, <1>3, <1>4, <2>2, <2>3, SymbolAssumption, WrappedMade, Zenon
  <2> QED BY <1>1, <2>4 DEF r
<1>11. CASE km.kind = "gcmkw"
  <2> DEFINE own == draws.own
             w   == b64Key(wrapped("gcm", secretOf(key), own, cek))
             one == With(header, "iv", Str(own))
             hdr == With(one, "tag", Str(own))
  <2>1. r = [[err |-> nil, cek |-> cek, key |-> w, header |-> header] EXCEPT !.header = hdr]
    BY <1>1, <1>11 DEF encryptKey, cek, noKey, nil
  <2>2. "gcm" \in KeyModes /\ ~derivesCEK(alg)
    BY <1>5, <1>11 DEF KeyModes
  <2>3. one \in Headers /\ hdr \in Headers
    BY StrType, WithType
  <2>4. ASSUME NEW m \in Name \ KeyOutputs PROVE hdr[m] = header[m]
    <3>1. m # "iv" /\ m # "tag"
      BY DEF KeyOutputs
    <3> QED BY <2>3, <3>1, WithKeeps
  <2> HIDE DEF r, w, hdr
  <2>5. r.cek = cek /\ r.header = hdr /\ r.key = w
    BY <2>1
  <2>6. r.key = b64Key(wrapped("gcm", secretOf(key), own, cek))
    BY <2>5 DEF w
  <2>7. KeyMade(r, key.pair, alg, enc, header, given, draws)
    BY <1>2, <1>3, <1>4, <2>2, <2>3, <2>4, <2>5, <2>6, WrappedMade, Zenon
  <2> QED BY <1>1, <2>7 DEF r
<1> QED BY <1>5, <1>6, <1>7, <1>8, <1>9, <1>10, <1>11 DEF MgmtKinds

-----------------------------------------------------------------------------
(* decryptKey.                                                             *)

\* How the holder of this key pair comes by a CEK: unwrapped from ek, a secret
\* of its own, or the random octets that stand for bad padding.
Recovers(cek, pair, ek) ==
    \/ ek.key # Junk /\ ek.key.kek.id = pair /\ cek = ek.key.cek
    \/ cek.from # "random" /\ cek.id = pair
    \/ cek.from = "random" /\ cek.id = ""

\* decryptKey fails with an error of the package, or recovers a CEK.
KeyRecovered(r, pair, ek) ==
    r.err \in JWEErrors /\ (r.err = nil => Recovers(r.cek, pair, ek))

\* An error of the checks on headers and keys is one of these.
LEMMA JWEErrorTypes ==
  /\ Errors \subseteq JWEErrors /\ nil \in JWEErrors
  /\ "ErrInvalidHeader" \in JWEErrors /\ "ErrInvalidKey" \in JWEErrors
  /\ "ErrMalformed" \in JWEErrors /\ "ErrDecryptFailed" \in JWEErrors
  /\ "ErrInvalidKeyType" \in JWEErrors /\ "ErrIterationCount" \in JWEErrors
  /\ "ErrUnsupportedEncryption" \in JWEErrors /\ "ErrUnsupportedAlgorithm" \in JWEErrors
  /\ "ErrCompressionLimit" \in JWEErrors
  BY DEF JWEErrors, Errors, nil

\* noCEK is a failure.
LEMMA NoCEKRecovered ==
  ASSUME NEW e \in JWEErrors, e # nil, NEW pair, NEW ek
  PROVE  KeyRecovered(noCEK(e), pair, ek)
  BY DEF KeyRecovered, noCEK

\* Only what AES key wrapping made unwraps.
LEMMA UnwrapRecovered ==
  ASSUME NEW kek, NEW ek
  PROVE  KeyRecovered(AESKeyUnwrap(kek, ek), kek.id, ek)
<1> DEFINE r == AESKeyUnwrap(kek, ek)
<1>1. r.err \in JWEErrors
  BY JWEErrorTypes DEF AESKeyUnwrap
<1>2. ASSUME r.err = nil PROVE Recovers(r.cek, kek.id, ek)
  <2>1. ek.key.mode = "aeskw" /\ ek.key.kek = kek /\ r.cek = ek.key.cek
    BY <1>2 DEF AESKeyUnwrap, nil
  <2>2. ek.key # Junk
    BY <2>1, JunkType
  <2> QED BY <2>1, <2>2 DEF Recovers
<1> QED BY <1>1, <1>2 DEF KeyRecovered

\* decryptKeyRSA.
LEMMA RSARecovered ==
  ASSUME NEW alg \in {"RSA1_5", "RSA-OAEP", "RSA-OAEP-256"}, NEW enc, NEW key, NEW ek
  PROVE  KeyRecovered(decryptKeyRSA(alg, enc, key, ek), key.pair, ek)
<1> DEFINE r     == decryptKeyRSA(alg, enc, key, ek)
           z     == newCEK("", contentEncs[enc].keySize)
           opens == /\ ek.form = "b64" /\ ek.key.mode = alg /\ ek.key.kek.id = key.pair
                    /\ alg = "RSA1_5" => ek.key.cek.size = contentEncs[enc].keySize
<1>1. CASE key.type # "*rsa.PrivateKey"
  <2>1. r = noCEK("ErrInvalidKeyType")
    BY <1>1 DEF decryptKeyRSA
  <2> QED BY <2>1, JWEErrorTypes, NoCEKRecovered DEF nil
<1>2. CASE key.type = "*rsa.PrivateKey" /\ opens
  <2>1. r = found(ek.key.cek)
    BY <1>2 DEF decryptKeyRSA
  <2>2. ek.key # Junk
    BY <1>2, JunkType
  <2>3. ek.key.kek.id = key.pair
    BY <1>2
  <2>4. r.err = nil /\ r.cek = ek.key.cek
    BY <2>1 DEF found
  <2> HIDE DEF r
  <2>5. KeyRecovered(r, key.pair, ek)
    BY <2>2, <2>3, <2>4, JWEErrorTypes DEF KeyRecovered, Recovers
  <2> QED BY <2>5 DEF r
<1>3. CASE key.type = "*rsa.PrivateKey" /\ ~opens /\ alg = "RSA1_5"
  <2>1. r = found(z)
    BY <1>3 DEF decryptKeyRSA
  <2>2. z.from = "random" /\ z.id = ""
    BY DEF newCEK, NoSecret
  <2> HIDE DEF z
  <2>3. r.err = nil /\ r.cek = z
    BY <2>1 DEF found
  <2> HIDE DEF r
  <2>4. KeyRecovered(r, key.pair, ek)
    BY <2>2, <2>3, JWEErrorTypes DEF KeyRecovered, Recovers
  <2> QED BY <2>4 DEF r
<1>4. CASE key.type = "*rsa.PrivateKey" /\ ~opens /\ alg # "RSA1_5"
  <2>1. r = noCEK("ErrDecryptFailed")
    BY <1>4 DEF decryptKeyRSA
  <2> QED BY <2>1, JWEErrorTypes, NoCEKRecovered DEF nil
<1> QED BY <1>1, <1>2, <1>3, <1>4

\* The checks on keys and header parameters fail with these errors.
LEMMA KeyErrorTypes ==
  /\ \A key : asECDHPrivateErr(key) \in JWEErrors /\ passwordErr(key) \in JWEErrors
  /\ \A key, size : symmetricKeyErr(key, size) \in JWEErrors
  /\ \A h : epkErr(h) \in JWEErrors
  /\ \A h, n : headerBytes(h, n).err \in JWEErrors
  /\ \A h, n : headerBytesOptional(h, n).err \in JWEErrors
  /\ \A v : p2cErr(v) \in JWEErrors
  /\ \A salt : salt.err \in JWEErrors => p2sErr(salt) \in JWEErrors
<1>1. \A key : asECDHPrivateErr(key) \in JWEErrors /\ passwordErr(key) \in JWEErrors
  BY JWEErrorTypes DEF asECDHPrivateErr, ecdhCurveErr, passwordErr
<1>2. \A key, size : symmetricKeyErr(key, size) \in JWEErrors
  BY JWEErrorTypes DEF symmetricKeyErr
<1>3. \A h : epkErr(h) \in JWEErrors
  BY JWEErrorTypes DEF epkErr
<1>4. \A h, n : headerBytes(h, n).err \in JWEErrors
  BY JWEErrorTypes DEF headerBytes
<1>5. \A h, n : headerBytesOptional(h, n).err \in JWEErrors
  BY <1>4, JWEErrorTypes DEF headerBytesOptional
<1>6. \A v : headerInt(v).err \in JWEErrors
  BY JWEErrorTypes DEF headerInt
<1>7. \A v : p2cErr(v) \in JWEErrors
  BY <1>6, JWEErrorTypes DEF p2cErr
<1>8. \A salt : salt.err \in JWEErrors => p2sErr(salt) \in JWEErrors
  BY JWEErrorTypes DEF p2sErr
<1> QED BY <1>1, <1>2, <1>3, <1>4, <1>5, <1>7, <1>8

\* decryptKeyECDH.
LEMMA ECDHRecovered ==
  ASSUME NEW alg, NEW enc, NEW key, NEW header, NEW ek
  PROVE  KeyRecovered(decryptKeyECDH(alg, enc, key, header, ek), key.pair, ek)
<1> DEFINE apu == headerBytesOptional(header, "apu")
           apv == headerBytesOptional(header, "apv")
           z   == ecdhDerive(key.pair, header["epk"].items[2], alg, enc, apu.out, apv.out)
           r   == decryptKeyECDH(alg, enc, key, header, ek)
<1>1. z.from = "ecdh" /\ z.id = key.pair
  BY DEF ecdhDerive
<1> HIDE DEF z
<1>2. CASE \E e \in JWEErrors \ {nil} : r = noCEK(e)
  BY <1>2, NoCEKRecovered
<1>3. CASE r = AESKeyUnwrap(z, ek)
  BY <1>1, <1>3, UnwrapRecovered
<1>4. CASE r = found(z)
  <2>1. r.err = nil /\ r.cek = z
    BY <1>4 DEF found
  <2> HIDE DEF r
  <2>2. KeyRecovered(r, key.pair, ek)
    BY <1>1, <2>1, JWEErrorTypes DEF KeyRecovered, Recovers
  <2> QED BY <2>2 DEF r
<1>5. /\ asECDHPrivateErr(key) \in JWEErrors /\ epkErr(header) \in JWEErrors
      /\ apu.err \in JWEErrors /\ apv.err \in JWEErrors
      /\ "ErrInvalidKey" \in JWEErrors \ {nil} /\ "ErrMalformed" \in JWEErrors \ {nil}
  BY KeyErrorTypes, JWEErrorTypes DEF nil
<1> HIDE DEF apu, apv
<1>6. r = IF asECDHPrivateErr(key) # nil THEN noCEK(asECDHPrivateErr(key))
          ELSE IF epkErr(header) # nil THEN noCEK(epkErr(header))
          ELSE IF apu.err # nil THEN noCEK(apu.err)
          ELSE IF apv.err # nil THEN noCEK(apv.err)
          ELSE IF header["epk"].items[3] # key.crv THEN noCEK("ErrInvalidKey")
          ELSE IF ~derivesCEK(alg) THEN AESKeyUnwrap(z, ek)
          ELSE IF ek.form # "" THEN noCEK("ErrMalformed")
          ELSE found(z)
  BY DEF decryptKeyECDH, apu, apv, z
<1> QED BY <1>2, <1>3, <1>4, <1>5, <1>6

\* decryptKeyPBES2.
LEMMA PBES2Recovered ==
  ASSUME NEW alg, NEW key, NEW header, NEW ek
  PROVE  KeyRecovered(decryptKeyPBES2(alg, key, header, ek), key.pair, ek)
<1> DEFINE salt == headerBytes(header, "p2s")
           z    == PBKDF2(key.pair, alg, salt.out, headerInt(header["p2c"]).int)
           r    == decryptKeyPBES2(alg, key, header, ek)
<1>1. z.id = key.pair
  BY Zenon DEF PBKDF2, NoSecret
<1> HIDE DEF z
<1>2. CASE \E e \in JWEErrors \ {nil} : r = noCEK(e)
  BY <1>2, NoCEKRecovered
<1>3. CASE r = AESKeyUnwrap(z, ek)
  BY <1>1, <1>3, UnwrapRecovered
<1>4. /\ passwordErr(key) \in JWEErrors /\ p2cErr(header["p2c"]) \in JWEErrors
      /\ p2sErr(salt) \in JWEErrors /\ "ErrInvalidHeader" \in JWEErrors \ {nil}
  BY KeyErrorTypes, JWEErrorTypes DEF nil
<1> HIDE DEF salt
<1>5. r = IF passwordErr(key) # nil THEN noCEK(passwordErr(key))
          ELSE IF ~Has(header, "p2c") THEN noCEK("ErrInvalidHeader")
          ELSE IF p2cErr(header["p2c"]) # nil THEN noCEK(p2cErr(header["p2c"]))
          ELSE IF p2sErr(salt) # nil THEN noCEK(p2sErr(salt))
          ELSE AESKeyUnwrap(z, ek)
  BY DEF decryptKeyPBES2, salt, z
<1> QED BY <1>2, <1>3, <1>4, <1>5

\* decryptKeyGCM.
LEMMA GCMRecovered ==
  ASSUME NEW key \in GoKeys, NEW header, NEW ek
  PROVE  KeyRecovered(decryptKeyGCM(key, header, ek), key.pair, ek)
<1> DEFINE r    == decryptKeyGCM(key, header, ek)
           iv   == headerBytes(header, "iv")
           tag  == headerBytes(header, "tag")
           fits == /\ ek.form = "b64" /\ ek.key.mode = "gcm" /\ ek.key.kek = secretOf(key)
                   /\ iv.out = ek.key.iv /\ tag.out = ek.key.iv
<1>1. CASE \E e \in JWEErrors \ {nil} : r = noCEK(e)
  BY <1>1, NoCEKRecovered
<1>2. CASE fits /\ r = found(ek.key.cek)
  <2>1. ek.key # Junk /\ ek.key.kek.id = key.pair
    BY <1>2, JunkType, SecretOfType
  <2>2. r.err = nil /\ r.cek = ek.key.cek
    BY <1>2 DEF found
  <2> HIDE DEF r
  <2>3. KeyRecovered(r, key.pair, ek)
    BY <2>1, <2>2, JWEErrorTypes DEF KeyRecovered, Recovers
  <2> QED BY <2>3 DEF r
<1>3. iv.err \in JWEErrors /\ tag.err \in JWEErrors /\ "ErrDecryptFailed" \in JWEErrors \ {nil}
  BY KeyErrorTypes, JWEErrorTypes DEF nil
<1> HIDE DEF iv, tag
<1>4. r = IF iv.err # nil THEN noCEK(iv.err)
          ELSE IF tag.err # nil THEN noCEK(tag.err)
          ELSE IF fits THEN found(ek.key.cek) ELSE noCEK("ErrDecryptFailed")
  BY DEF decryptKeyGCM, iv, tag
<1> QED BY <1>1, <1>2, <1>3, <1>4

(***************************************************************************)
(* decryptKey, in whichever of the six ways, recovers a CEK only from what *)
(* was encrypted to the given key pair.                                    *)
(***************************************************************************)
LEMMA DecryptKeyRecovered ==
  ASSUME NEW alg \in DOMAIN keyMgmts, NEW enc, NEW key \in GoKeys, NEW header, NEW ek
  PROVE  KeyRecovered(decryptKey(alg, enc, key, header, ek), key.pair, ek)
<1> DEFINE km  == keyMgmts[alg]
           r   == decryptKey(alg, enc, key, header, ek)
           bad == symmetricKeyErr(key, IF km.kind = "dir" THEN contentEncs[enc].keySize
                                       ELSE wrapKeySize(alg))
<1>1. km.kind \in MgmtKinds
      /\ (km.kind = "rsa" => alg \in {"RSA1_5", "RSA-OAEP", "RSA-OAEP-256"})
  BY MgmtType
<1>2. secretOf(key).from = "key" /\ secretOf(key).id = key.pair
  BY SecretOfType
<1>3. CASE km.kind = "rsa"
  <2>1. r = decryptKeyRSA(alg, enc, key, ek)
    BY <1>3 DEF decryptKey
  <2> QED BY <1>1, <1>3, <2>1, RSARecovered
<1>4. CASE km.kind = "ecdh"
  <2>1. r = decryptKeyECDH(alg, enc, key, header, ek)
    BY <1>4 DEF decryptKey
  <2> QED BY <2>1, ECDHRecovered
<1>5. CASE km.kind = "pbes2"
  <2>1. r = decryptKeyPBES2(alg, key, header, ek)
    BY <1>5 DEF decryptKey
  <2> QED BY <2>1, PBES2Recovered
<1>6. bad \in JWEErrors /\ "ErrMalformed" \in JWEErrors \ {nil}
  BY KeyErrorTypes, JWEErrorTypes DEF nil
<1>7. CASE \E e \in JWEErrors \ {nil} : r = noCEK(e)
  BY <1>7, NoCEKRecovered
<1>8. CASE km.kind = "dir"
  <2>1. r = IF ek.form # "" THEN noCEK("ErrMalformed")
            ELSE IF bad # nil THEN noCEK(bad) ELSE found(secretOf(key))
    BY <1>8 DEF decryptKey
  <2>2. CASE r = found(secretOf(key))
    <3>1. r.err = nil /\ r.cek = secretOf(key)
      BY <2>2 DEF found
    <3> HIDE DEF r
    <3>2. KeyRecovered(r, key.pair, ek)
      BY <1>2, <3>1, JWEErrorTypes DEF KeyRecovered, Recovers
    <3> QED BY <3>2 DEF r
  <2> HIDE DEF bad
  <2> QED BY <1>6, <1>7, <2>1, <2>2
<1>9. CASE km.kind = "kw"
  <2>1. r = IF bad # nil THEN noCEK(bad) ELSE AESKeyUnwrap(secretOf(key), ek)
    BY <1>9 DEF decryptKey
  <2> HIDE DEF bad
  <2> QED BY <1>2, <1>6, <1>7, <2>1, UnwrapRecovered
<1>10. CASE km.kind = "gcmkw"
  <2>1. r = IF bad # nil THEN noCEK(bad) ELSE decryptKeyGCM(key, header, ek)
    BY <1>10 DEF decryptKey
  <2> HIDE DEF bad
  <2> QED BY <1>6, <1>7, <2>1, GCMRecovered
<1> QED BY <1>1, <1>3, <1>4, <1>5, <1>8, <1>9, <1>10 DEF MgmtKinds

-----------------------------------------------------------------------------
(* Content.                                                                *)

\* A string member of a header is a symbol.
LEMMA HeaderStringType ==
  ASSUME NEW h \in Headers, NEW n \in Name PROVE HeaderString(h, n) \in Symbol
<1>1. h[n] \in Value
  BY DEF Headers
<1>2. CASE h[n].go = "string"
  <2>1. Len(h[n].items) = 1 /\ h[n].items \in Seq(Symbol)
    BY <1>1, <1>2 DEF Value
  <2>2. h[n].items[1] \in Symbol
    BY <2>1
  <2> QED BY <1>2, <2>2 DEF HeaderString
<1>3. CASE h[n].go # "string"
  BY <1>3, SymbolAssumption DEF HeaderString
<1> QED BY <1>2, <1>3

\* Bodies, before and after compression.
LEMMA BodyType ==
  ASSUME NEW t \in Text PROVE Body(t) \in Bodies /\ deflate(t) \in Bodies
  BY DEF Body, deflate, Bodies

\* The empty body is one.
LEMMA NoBodyType == Body("") \in Bodies
  BY TextAssumption, BodyType

\* What encryptContent makes, and what of it decryptContent demands back.
LEMMA ContentType ==
  ASSUME NEW enc \in Symbol, NEW cek \in Secrets, NEW protected \in ProtectedSegs,
         NEW aad \in Octets, NEW body \in Bodies
  PROVE  encryptContent(enc, cek, protected, aad, body) \in Contents
  BY DEF encryptContent, Contents

\* The octets that no call encrypted.
LEMMA NoContentType == NoContent \in Contents /\ NoContent.enc = ""
<1>1. NoSeg \in ProtectedSegs
  BY NoHeaderType, SegType DEF NoSeg, SegForm
<1>2. NoContent \in Contents
  BY <1>1, SymbolAssumption, NoSecretType, EmptyType, NoBodyType, ContentType DEF NoContent
<1>3. NoContent.enc = ""
  BY Zenon DEF NoContent, encryptContent
<1> QED BY <1>2, <1>3

\* Content decrypts for exactly the key, the algorithm, the protected header
\* and the "aad" it was encrypted with.
LEMMA DecryptContentSucceeds ==
  ASSUME NEW enc, NEW cek, NEW c, NEW parts, NEW protected, NEW aad,
         decryptContent(enc, cek, c, parts, protected, aad) = nil
  PROVE  c.enc = enc /\ c.cek = cek /\ c.protected = protected /\ c.aad = aad
  BY DEF decryptContent, encryptContent, nil

(***************************************************************************)
(* seal encrypts under the encoding of the protected header it is given,   *)
(* and compresses exactly when that says so.                               *)
(***************************************************************************)
LEMMA SealSucceeds ==
  ASSUME NEW plaintext \in Text, NEW protected \in Headers, NEW enc \in Symbol,
         NEW cek \in Secrets, NEW aad \in Octets,
         seal(plaintext, protected, enc, cek, aad).err = nil
  PROVE  LET c == seal(plaintext, protected, enc, cek, aad).content
         IN  /\ c \in Contents /\ c.cek = cek
             /\ c.protected = Seg("json", JSON(protected))
             /\ c = encryptContent(enc, cek, c.protected, aad, c.body)
             /\ ~Has(JSON(protected), "zip") => c.body = Body(plaintext)
             /\ JSON(protected)["zip"] = Str("DEF") => c.body = deflate(plaintext)
<1> DEFINE zip  == HeaderString(protected, "zip")
           body == IF zip = "" THEN Body(plaintext) ELSE deflate(plaintext)
           seg  == Seg("json", JSON(protected))
           c    == encryptContent(enc, cek, seg, aad, body)
<1>1. zip \in {"", "DEF"} /\ encodeHeader(protected) = [err |-> nil, seg |-> seg]
  BY DEF seal, encodeHeader, nil
<1>2. seal(plaintext, protected, enc, cek, aad).content = c
  <2> DEFINE e == encodeHeader(protected)
             s == [err |-> nil, content |-> encryptContent(enc, cek, e.seg, aad, body)]
  <2>1. e.err = nil /\ e.seg = seg /\ (zip = "" \/ zip = "DEF")
    <3> HIDE DEF e, seg, zip
    <3>1. e = [err |-> nil, seg |-> seg] /\ zip \in {"", "DEF"}
      BY <1>1 DEF e, zip
    <3> QED BY <3>1
  <2> HIDE DEF e, zip, body
  <2>2. seal(plaintext, protected, enc, cek, aad) = s
    BY <2>1, Zenon DEF seal, e, zip, body
  <2>3. s.content = c
    BY <2>1
  <2> QED BY <2>2, <2>3
<1>3. seg \in ProtectedSegs
  BY JSONType, SegType DEF SegForm
<1>4. "zip" \in Name /\ protected["zip"] \in Value
      /\ JSON(protected)["zip"] = JSONValue(protected["zip"])
  BY KeyMgmtAssumption DEF JSON, Headers
<1>5. ASSUME ~Has(JSON(protected), "zip") PROVE body = Body(plaintext)
  <2>1. protected["zip"] = Absent
    BY <1>4, <1>5, JSONValueKeeps DEF Has
  <2>2. zip = ""
    BY <2>1 DEF HeaderString, Absent
  <2> QED BY <2>2
<1>6. ASSUME JSON(protected)["zip"] = Str("DEF") PROVE body = deflate(plaintext)
  <2>1. protected["zip"] = Str("DEF")
    BY <1>4, <1>6, JSONValueKeeps
  <2>2. zip = "DEF"
    BY <2>1 DEF HeaderString, Str
  <2> QED BY <2>2
<1>7. body \in Bodies
  BY BodyType
<1> HIDE DEF body, seg
<1>8. c \in Contents /\ c.cek = cek /\ c.protected = seg /\ c.body = body
  BY <1>3, <1>7 DEF encryptContent, Contents
<1> QED BY <1>2, <1>5, <1>6, <1>8 DEF seg

-----------------------------------------------------------------------------
(* maybeInflate and decryptOne.                                            *)

\* What inflate and maybeInflate return.
LEMMA MakeRead ==
  ASSUME NEW r, NEW e \in JWEErrors, NEW b \in Bodies, r = [err |-> e, body |-> b]
  PROVE  r.err \in JWEErrors /\ r.body \in Bodies
  OBVIOUS

\* inflate fails with an error of the package, or gives a text.
LEMMA InflateType ==
  ASSUME NEW b \in Bodies, NEW limit
  PROVE  inflate(b, limit).err \in JWEErrors /\ inflate(b, limit).body \in Bodies
<1> DEFINE out == IF b.deflated THEN b.text ELSE Inflated[b.text]
<1>1. CASE ~b.deflated /\ b.text \notin DOMAIN Inflated
  BY <1>1, JWEErrorTypes, NoBodyType DEF inflate
<1>2. CASE b.deflated \/ b.text \in DOMAIN Inflated
  <2>1. out \in Text
    BY <1>2, ContentAssumption DEF Bodies
  <2>2. inflate(b, limit) = IF TextSize[out] > limit
                            THEN [err |-> "ErrCompressionLimit", body |-> Body("")]
                            ELSE [err |-> nil, body |-> Body(out)]
    BY <1>2 DEF inflate
  <2> HIDE DEF out
  <2>3. Body(out) \in Bodies /\ Body("") \in Bodies
    BY <2>1, BodyType, NoBodyType
  <2>4. "ErrCompressionLimit" \in JWEErrors /\ nil \in JWEErrors
    BY JWEErrorTypes
  <2>5. CASE TextSize[out] > limit
    BY <2>2, <2>3, <2>4, <2>5, MakeRead
  <2>6. CASE ~(TextSize[out] > limit)
    BY <2>2, <2>3, <2>4, <2>6, MakeRead
  <2> QED BY <2>5, <2>6
<1> QED BY <1>1, <1>2

\* maybeInflate likewise.
LEMMA MaybeInflateType ==
  ASSUME NEW header, NEW b \in Bodies, NEW opts
  PROVE  maybeInflate(header, b, opts).err \in JWEErrors
         /\ maybeInflate(header, b, opts).body \in Bodies
<1> DEFINE limit == IF opts.MaxDecompressed <= 0 THEN MaxDecompressedSize
                    ELSE opts.MaxDecompressed
<1> HIDE DEF limit
<1>1. maybeInflate(header, b, opts) =
        IF ~Has(header, "zip") THEN [err |-> nil, body |-> b]
        ELSE IF header["zip"] # Str("DEF") THEN [err |-> "ErrInvalidHeader", body |-> Body("")]
        ELSE inflate(b, limit)
  BY DEF maybeInflate, limit
<1>2. "ErrInvalidHeader" \in JWEErrors /\ nil \in JWEErrors /\ Body("") \in Bodies
  BY JWEErrorTypes, NoBodyType
<1>3. inflate(b, limit).err \in JWEErrors /\ inflate(b, limit).body \in Bodies
  BY InflateType
<1>4. CASE ~Has(header, "zip")
  BY <1>1, <1>2, <1>4, MakeRead
<1>5. CASE Has(header, "zip") /\ header["zip"] # Str("DEF")
  BY <1>1, <1>2, <1>5, MakeRead
<1>6. CASE Has(header, "zip") /\ header["zip"] = Str("DEF")
  BY <1>1, <1>3, <1>6
<1> QED BY <1>4, <1>5, <1>6

\* Under the "zip" a body was made with, maybeInflate gives back the plaintext.
LEMMA MaybeInflateSucceeds ==
  ASSUME NEW header, NEW b, NEW opts, NEW t, maybeInflate(header, b, opts).err = nil,
         ~Has(header, "zip") => b = Body(t),
         header["zip"] = Str("DEF") => b = deflate(t)
  PROVE  maybeInflate(header, b, opts).body = Body(t)
<1> DEFINE limit == IF opts.MaxDecompressed <= 0 THEN MaxDecompressedSize
                    ELSE opts.MaxDecompressed
<1>1. CASE ~Has(header, "zip")
  BY <1>1 DEF maybeInflate
<1>2. CASE Has(header, "zip")
  <2> HIDE DEF limit
  <2>1. header["zip"] = Str("DEF") /\ maybeInflate(header, b, opts) = inflate(b, limit)
    BY <1>2 DEF maybeInflate, limit, nil
  <2>2. inflate(b, limit).err = nil /\ b = deflate(t)
    BY <2>1
  <2>3. inflate(b, limit).body = Body(t)
    BY <2>2 DEF inflate, deflate, nil
  <2> QED BY <2>1, <2>3
<1> QED BY <1>1, <1>2

\* A failed call's result is one.
LEMMA FailedType ==
  ASSUME NEW e \in JWEErrors
  PROVE  failed(e) \in Results /\ failed(e).err = e
<1> DEFINE b == Body("")
<1>1. b \in Bodies /\ NoHeader \in Headers
  BY NoBodyType, NoHeaderType
<1> HIDE DEF b
<1>2. failed(e) = [err |-> e, plaintext |-> b, header |-> NoHeader]
  BY DEF failed, b
<1> QED BY <1>1, <1>2 DEF Results

\* permitErr fails with an error of the package.
LEMMA PermitErrType ==
  ASSUME NEW header, NEW alg, NEW enc, NEW key, NEW opts
  PROVE  permitErr(header, alg, enc, key, opts) \in JWEErrors
<1> DEFINE use == checkJWKUsage(key, KeyID(header), "enc", {alg, enc},
                                {"decrypt", "unwrapKey", "deriveKey"})
<1>1. use \in JWEErrors
  BY ErrorTypes, JWEErrorTypes
<1> HIDE DEF use
<1>2. lookupKeyMgmt(alg) \in JWEErrors /\ lookupEnc(enc) \in JWEErrors
  BY JWEErrorTypes DEF lookupKeyMgmt, lookupEnc
<1>3. firstErr(lookupKeyMgmt(alg), firstErr(lookupEnc(enc), use)) \in JWEErrors
  BY <1>1, <1>2 DEF firstErr
<1> QED BY <1>3, JWEErrorTypes DEF permitErr, use

\* What permitErr lets through.
LEMMA PermitSucceeds ==
  ASSUME NEW header, NEW alg, NEW enc, NEW key, NEW opts,
         permitErr(header, alg, enc, key, opts) = nil
  PROVE  /\ alg \in DOMAIN keyMgmts /\ enc \in DOMAIN contentEncs /\ enc # ""
         /\ checkJWKUsage(key, KeyID(header), "enc", {alg, enc},
                          {"decrypt", "unwrapKey", "deriveKey"}) = nil
<1> DEFINE use == checkJWKUsage(key, KeyID(header), "enc", {alg, enc},
                                {"decrypt", "unwrapKey", "deriveKey"})
<1> HIDE DEF use
<1>1. enc # "" /\ firstErr(lookupKeyMgmt(alg), firstErr(lookupEnc(enc), use)) = nil
  BY DEF permitErr, nil, use
<1>2. lookupKeyMgmt(alg) = nil /\ lookupEnc(enc) = nil /\ use = nil
  BY <1>1 DEF firstErr
<1> QED BY <1>1, <1>2, LookupEnc DEF lookupKeyMgmt, nil, use

\* The parts of decryptOne.
AlgOf(h) == Algorithm(h)
EncOf(h) == HeaderString(h, "enc")
PermitOf(h, key, opts) == permitErr(h, AlgOf(h), EncOf(h), key, opts)
ResolvedOf(h, key) == resolveKey(key, KeyID(h))
CEKOf(h, ek, key) == decryptKey(AlgOf(h), EncOf(h), ResolvedOf(h, key).key, h, ek)
OpenOf(h, ek, doc, key) ==
    decryptContent(EncOf(h), CEKOf(h, ek, key).cek, doc.content, doc.parts, doc.protected, doc.aad)
ReadOf(h, doc, opts) == maybeInflate(h, doc.content.body, opts)

LEMMA DecryptOneParts ==
  ASSUME NEW h, NEW ek, NEW doc, NEW key, NEW opts
  PROVE  decryptOne(h, ek, doc, key, opts) =
           orFailed(PermitOf(h, key, opts),
           orFailed(ResolvedOf(h, key).err,
             IF CEKOf(h, ek, key).err # nil THEN failed(CEKOf(h, ek, key).err)
             ELSE IF CEKOf(h, ek, key).cek.size # contentEncs[EncOf(h)].keySize
             THEN failed("ErrDecryptFailed")
             ELSE orFailed(OpenOf(h, ek, doc, key),
                  orFailed(ReadOf(h, doc, opts).err,
                     [err |-> nil, plaintext |-> ReadOf(h, doc, opts).body, header |-> h]))))
  BY DEF decryptOne, AlgOf, EncOf, PermitOf, ResolvedOf, CEKOf, OpenOf, ReadOf

\* orFailed gives a result.
LEMMA OrFailedType ==
  ASSUME NEW e \in JWEErrors, NEW r, e = nil => r \in Results
  PROVE  orFailed(e, r) \in Results
  BY FailedType DEF orFailed

\* decryptOne gives a result.
LEMMA DecryptOneType ==
  ASSUME NEW h \in Headers, NEW ek, NEW doc \in Docs, NEW key \in KeyArgs, NEW opts
  PROVE  decryptOne(h, ek, doc, key, opts) \in Results
<1> DEFINE cek  == CEKOf(h, ek, key)
           open == OpenOf(h, ek, doc, key)
           read == ReadOf(h, doc, opts)
           last == [err |-> nil, plaintext |-> read.body, header |-> h]
           r3   == orFailed(open, orFailed(read.err, last))
           r2   == IF cek.err # nil THEN failed(cek.err)
                   ELSE IF cek.cek.size # contentEncs[EncOf(h)].keySize
                   THEN failed("ErrDecryptFailed") ELSE r3
           r1   == orFailed(ResolvedOf(h, key).err, r2)
<1>1. doc.content.body \in Bodies
  BY DEF Docs, Contents
<1>2. read.err \in JWEErrors /\ read.body \in Bodies
  BY <1>1, MaybeInflateType DEF ReadOf
<1>3. last \in Results
  BY <1>2, JWEErrorTypes DEF Results
<1>4. open \in JWEErrors
  BY JWEErrorTypes DEF OpenOf, decryptContent
<1>5. ResolvedOf(h, key).err \in JWEErrors /\ ResolvedOf(h, key).key \in GoKeys
  BY ResolveType, ResolveErrorType, JWEErrorTypes DEF ResolvedOf
<1>6. PermitOf(h, key, opts) \in JWEErrors
  BY PermitErrType DEF PermitOf
<1> HIDE DEF last, open, read
<1>7. r3 \in Results
  BY <1>2, <1>3, <1>4, OrFailedType
<1>8. ASSUME PermitOf(h, key, opts) = nil PROVE r1 \in Results
  <2>1. AlgOf(h) \in DOMAIN keyMgmts
    BY <1>8, PermitSucceeds DEF PermitOf
  <2>2. cek.err \in JWEErrors
    BY <1>5, <2>1, DecryptKeyRecovered DEF CEKOf, KeyRecovered
  <2> HIDE DEF cek, r3
  <2>3. r2 \in Results
    BY <1>7, <2>2, FailedType, JWEErrorTypes
  <2> QED BY <1>5, <2>3, OrFailedType
<1>9. decryptOne(h, ek, doc, key, opts) = orFailed(PermitOf(h, key, opts), r1)
  BY DecryptOneParts DEF last, open, read
<1> HIDE DEF r1
<1> QED BY <1>6, <1>8, <1>9, OrFailedType

\* An attempt that succeeds.
Reads(r, h, ek, doc, key, opts) ==
    LET c == doc.content
    IN  /\ r.err = nil /\ r.header = h
        /\ ReadOf(h, doc, opts).err = nil /\ r.plaintext = ReadOf(h, doc, opts).body
        /\ c.enc # "" /\ c.protected = doc.protected /\ c.aad = doc.aad
        /\ Recovers(c.cek, ResolvedOf(h, key).key.pair, ek)
        /\ checkJWKUsage(key, KeyID(h), "enc", AlgsOf(h), DecryptOps) = nil
        /\ ResolvedOf(h, key).err = nil

\* A failure is no success.
LEMMA OrFailedSucceeds ==
  ASSUME NEW e, NEW r, orFailed(e, r).err = nil PROVE e = nil /\ orFailed(e, r) = r
<1>1. CASE e = nil
  BY <1>1 DEF orFailed
<1>2. CASE e # nil
  <2>1. orFailed(e, r).err = e
    BY <1>2 DEF orFailed, failed
  <2> QED BY <1>2, <2>1
<1> QED BY <1>1, <1>2

(***************************************************************************)
(* decryptOne succeeds only on content encrypted under the protected       *)
(* header and "aad" of the document, with a CEK its key recovers.          *)
(***************************************************************************)
LEMMA DecryptOneSucceeds ==
  ASSUME NEW h, NEW ek, NEW doc, NEW key \in KeyArgs, NEW opts,
         decryptOne(h, ek, doc, key, opts).err = nil
  PROVE  Reads(decryptOne(h, ek, doc, key, opts), h, ek, doc, key, opts)
<1> DEFINE r    == decryptOne(h, ek, doc, key, opts)
           cek  == CEKOf(h, ek, key)
           open == OpenOf(h, ek, doc, key)
           read == ReadOf(h, doc, opts)
           last == [err |-> nil, plaintext |-> read.body, header |-> h]
           r4   == orFailed(read.err, last)
           r3   == orFailed(open, r4)
           r2   == IF cek.err # nil THEN failed(cek.err)
                   ELSE IF cek.cek.size # contentEncs[EncOf(h)].keySize
                   THEN failed("ErrDecryptFailed") ELSE r3
           r1   == orFailed(ResolvedOf(h, key).err, r2)
<1>1. r = orFailed(PermitOf(h, key, opts), r1)
  BY DecryptOneParts
<1> HIDE DEF r, r1
<1>2. PermitOf(h, key, opts) = nil /\ r = r1
  BY <1>1, OrFailedSucceeds DEF r
<1> HIDE DEF r2
<1>3. ResolvedOf(h, key).err = nil /\ r = r2
  BY <1>2, OrFailedSucceeds DEF r, r1
<1>4. cek.err = nil /\ r = r3
  <2>1. \A e : failed(e).err = e
    BY DEF failed
  <2>2. r.err = nil /\ nil # "ErrDecryptFailed"
    BY DEF r, nil
  <2> HIDE DEF r3, cek
  <2> QED BY <1>3, <2>1, <2>2 DEF r2
<1> HIDE DEF r4
<1>5. open = nil /\ r = r4
  BY <1>4, OrFailedSucceeds DEF r, r3
<1> HIDE DEF last
<1>6. read.err = nil /\ r = last
  BY <1>5, OrFailedSucceeds DEF r, r4
<1>7. r.header = h /\ r.plaintext = read.body
  BY <1>6 DEF last
<1>8. /\ doc.content.enc = EncOf(h) /\ doc.content.cek = cek.cek
      /\ doc.content.protected = doc.protected /\ doc.content.aad = doc.aad
  BY <1>5, DecryptContentSucceeds DEF OpenOf
<1>9. /\ AlgOf(h) \in DOMAIN keyMgmts /\ EncOf(h) # ""
      /\ checkJWKUsage(key, KeyID(h), "enc", AlgsOf(h), DecryptOps) = nil
  BY <1>2, PermitSucceeds DEF PermitOf, AlgsOf, DecryptOps, AlgOf, EncOf
<1>10. Recovers(cek.cek, ResolvedOf(h, key).key.pair, ek)
  <2>1. ResolvedOf(h, key).key \in GoKeys
    BY ResolveType DEF ResolvedOf
  <2> QED BY <1>4, <1>9, <2>1, DecryptKeyRecovered DEF CEKOf, KeyRecovered
<1> HIDE DEF cek
<1>11. r.err = nil
  BY DEF r
<1>12. Reads(r, h, ek, doc, key, opts)
  BY <1>3, <1>6, <1>7, <1>8, <1>9, <1>10, <1>11 DEF Reads
<1> QED BY <1>12 DEF r

-----------------------------------------------------------------------------
(* The decryption calls.                                                   *)

\* The protected header of a document is a header.
LEMMA ProtectedOfType ==
  ASSUME NEW doc \in Docs
  PROVE  protectedOf(doc).hdr \in Headers /\ protectedOf(doc).err \in JWEErrors
<1>1. doc.protected \in ProtectedSegs
  BY DEF Docs
<1>2. decodeHeader(doc.protected).hdr \in Headers /\ decodeHeader(doc.protected).err \in JWEErrors
  BY <1>1, DecodeHeaderType, ErrorTypes, JWEErrorTypes
<1> QED BY <1>2, NoHeaderType, JWEErrorTypes DEF protectedOf

\* The merged header is one.
LEMMA MergeThreeType ==
  ASSUME NEW h1 \in Headers, NEW h2 \in Headers, NEW h3 \in Headers
  PROVE  mergeThree(h1, h2, h3).hdr \in Headers /\ mergeThree(h1, h2, h3).err \in Errors
<1>1. mergeHeaders(h1, h2).hdr \in Headers /\ mergeHeaders(h1, h2).err \in Errors
  BY MergeType, ErrorTypes
<1>2. mergeHeaders(mergeHeaders(h1, h2).hdr, h3).hdr \in Headers
      /\ mergeHeaders(mergeHeaders(h1, h2).hdr, h3).err \in Errors
  BY <1>1, MergeType, ErrorTypes
<1> QED BY <1>1, <1>2 DEF mergeThree

\* A member that mergeHeaders does not find in the first half it takes from
\* the second.
LEMMA MergeTakes ==
  ASSUME NEW h1, NEW h2, mergeHeaders(h1, h2).err = nil, NEW n \in Name, ~Has(h1, n)
  PROVE  mergeHeaders(h1, h2).hdr[n] = h2[n]
<1>1. ~\E m \in Name : Has(h1, m) /\ Has(h2, m)
  BY DEF mergeHeaders, nil
<1> QED BY <1>1 DEF mergeHeaders

\* The merged header of a recipient keeps what is protected, and gets no
\* member from nowhere.
LEMMA MergeThreeKeeps ==
  ASSUME NEW h1, NEW h2, NEW h3, mergeThree(h1, h2, h3).err = nil, NEW n \in Name
  PROVE  /\ Has(h1, n) => mergeThree(h1, h2, h3).hdr[n] = h1[n]
         /\ ~Has(h2, n) /\ ~Has(h3, n) => mergeThree(h1, h2, h3).hdr[n] = h1[n]
<1> DEFINE m == mergeHeaders(h1, h2)
<1>1. m.err = nil /\ mergeThree(h1, h2, h3) = mergeHeaders(m.hdr, h3)
  BY DEF mergeThree
<1>2. Has(h1, n) => m.hdr[n] = h1[n]
  BY <1>1, MergeKeepsProtected
<1>3. Has(m.hdr, n) => mergeHeaders(m.hdr, h3).hdr[n] = m.hdr[n]
  BY <1>1, MergeKeepsProtected
<1>4. ~Has(h1, n) => m.hdr[n] = h2[n]
  BY <1>1, MergeTakes
<1>5. ~Has(m.hdr, n) => mergeHeaders(m.hdr, h3).hdr[n] = h3[n]
  BY <1>1, MergeTakes
<1> HIDE DEF m
<1> QED BY <1>1, <1>2, <1>3, <1>4, <1>5 DEF Has

\* A decryption that succeeds, of the document as a whole.
Opens(r, doc, key, opts) ==
    LET P == protectedOf(doc).hdr
    IN  \E h, ek :
          /\ Reads(r, h, ek, doc, key, opts)
          /\ \/ ek.key = Junk
             \/ \E i \in 1..Len(doc.recipients) : ek = doc.recipients[i].encrypted_key
          /\ \A n \in Name : Has(P, n) => h[n] = P[n]
          /\ h["zip"] = P["zip"]
          /\ checkCritical(P, opts.KnownCritical) = nil

\* Merging nothing with nothing adds nothing.
LEMMA MergeNothing ==
  ASSUME NEW h \in Headers
  PROVE  mergeThree(h, NoHeader, NoHeader) = [err |-> nil, hdr |-> h]
<1>1. \A n \in Name : ~Has(NoHeader, n) /\ NoHeader[n] = Absent
  BY DEF Has, NoHeader
<1>2. \A n \in Name : (IF Has(h, n) THEN h[n] ELSE NoHeader[n]) = h[n]
  BY <1>1 DEF Has
<1>3. [n \in Name |-> IF Has(h, n) THEN h[n] ELSE NoHeader[n]] = h
  BY <1>2 DEF Headers
<1>4. mergeHeaders(h, NoHeader) = [err |-> nil, hdr |-> h]
  BY <1>1, <1>3 DEF mergeHeaders
<1> QED BY <1>4 DEF mergeThree

\* The parts of the parts check.
LEMMA PartsErrType == ASSUME NEW doc PROVE partsErr(doc) \in JWEErrors
  BY JWEErrorTypes DEF partsErr

\* DecryptWithOptions gives a result.
LEMMA DecryptWithOptionsType ==
  ASSUME NEW doc \in Docs, NEW key \in KeyArgs, NEW opts
  PROVE  DecryptWithOptions(doc, key, opts) \in Results
<1> DEFINE ek      == doc.recipients[1].encrypted_key
           segs    == IF ek.form = "notb64" THEN "ErrMalformed" ELSE partsErr(doc)
           decoded == decodeHeader(doc.protected)
           crit    == checkCritical(decoded.hdr, opts.KnownCritical)
           one     == decryptOne(decoded.hdr, ek, doc, key, opts)
<1>1. doc.protected \in ProtectedSegs
  BY DEF Docs
<1>2. decoded.hdr \in Headers /\ decoded.err \in JWEErrors
  BY <1>1, DecodeHeaderType, ErrorTypes, JWEErrorTypes
<1>3. segs \in JWEErrors /\ crit \in JWEErrors
  BY PartsErrType, ErrorTypes, JWEErrorTypes
<1>4. firstErr(crit, segs) \in JWEErrors
  BY <1>3 DEF firstErr
<1>5. one \in Results
  BY <1>2, DecryptOneType
<1>6. orFailed(firstErr(crit, segs), one) \in Results
  BY <1>4, <1>5, OrFailedType
<1>7. failed("ErrMalformed") \in Results /\ failed(decoded.err) \in Results
  BY <1>2, FailedType, JWEErrorTypes
<1>8. DecryptWithOptions(doc, key, opts) =
        IF doc.form # "compact" THEN failed("ErrMalformed")
        ELSE IF decoded.err # nil THEN failed(decoded.err)
        ELSE orFailed(firstErr(crit, segs), one)
  BY DEF DecryptWithOptions
<1> HIDE DEF decoded, segs, crit, one
<1> QED BY <1>6, <1>7, <1>8

\* What DecryptWithOptions demands of a document.
LEMMA DecryptWithOptionsSucceeds ==
  ASSUME NEW doc \in Docs, NEW key \in KeyArgs, NEW opts, WellFormed(doc),
         DecryptWithOptions(doc, key, opts).err = nil
  PROVE  Opens(DecryptWithOptions(doc, key, opts), doc, key, opts)
<1> DEFINE ek      == doc.recipients[1].encrypted_key
           segs    == IF ek.form = "notb64" THEN "ErrMalformed" ELSE partsErr(doc)
           decoded == decodeHeader(doc.protected)
           crit    == checkCritical(decoded.hdr, opts.KnownCritical)
           one     == decryptOne(decoded.hdr, ek, doc, key, opts)
           r       == DecryptWithOptions(doc, key, opts)
<1>1. \A e : failed(e).err = e
  BY DEF failed
<1> HIDE DEF decoded, segs, crit, one
<1>2. r = IF doc.form # "compact" THEN failed("ErrMalformed")
          ELSE IF decoded.err # nil THEN failed(decoded.err)
          ELSE orFailed(firstErr(crit, segs), one)
  BY DEF DecryptWithOptions, decoded, segs, crit, one
<1>3. nil # "ErrMalformed"
  BY DEF nil
<1> HIDE DEF r
<1>4. r.err = nil
  BY DEF r
<1>5. doc.form = "compact" /\ decoded.err = nil /\ r = orFailed(firstErr(crit, segs), one)
  BY <1>1, <1>2, <1>3, <1>4
<1>6. firstErr(crit, segs) = nil /\ r = one
  BY <1>4, <1>5, OrFailedSucceeds
<1>7. crit = nil
  BY <1>6 DEF firstErr
<1>8. Reads(r, decoded.hdr, ek, doc, key, opts)
  BY <1>4, <1>6, DecryptOneSucceeds DEF one
<1>9. protectedOf(doc) = decoded
  BY <1>5 DEF protectedOf, decoded, decodeHeader, nil
<1>10. 1 \in 1..Len(doc.recipients)
  BY <1>5 DEF WellFormed
<1>11. Opens(r, doc, key, opts)
  BY <1>7, <1>8, <1>9, <1>10 DEF Opens, crit
<1> QED BY <1>11 DEF r

\* The recipients a JSON document is read as having.
LEMMA RecipientsOfType ==
  ASSUME NEW doc \in Docs
  PROVE  /\ recipientsOf(doc) \in Seq(Entries) /\ Len(recipientsOf(doc)) \in Nat \ {0}
         /\ \A i \in 1..Len(recipientsOf(doc)) :
              LET ek == recipientsOf(doc)[i].encrypted_key
              IN  \/ ek.key = Junk
                  \/ \E j \in 1..Len(doc.recipients) : ek = doc.recipients[j].encrypted_key
<1>1. doc.recipients \in Seq(Entries)
  BY DEF Docs
<1>2. CASE doc.recipients = <<>>
  <2> DEFINE e == entry(NoHeader, NoKey)
  <2>1. e \in Entries /\ e.encrypted_key = NoKey
    BY NoHeaderType, JunkType DEF entry, Entries
  <2> HIDE DEF e
  <2>2. recipientsOf(doc) = <<e>>
    BY <1>2 DEF recipientsOf, e
  <2> QED BY <2>1, <2>2, JunkType
<1>3. CASE doc.recipients # <<>>
  <2>1. recipientsOf(doc) = doc.recipients
    BY <1>3 DEF recipientsOf
  <2>2. Len(doc.recipients) \in Nat \ {0}
    BY <1>1, <1>3
  <2> QED BY <1>1, <2>1, <2>2
<1> QED BY <1>2, <1>3

\* One attempt of DecryptJSONWithOptions gives a result.
LEMMA DecryptRecipientType ==
  ASSUME NEW doc \in Docs, NEW r \in Entries, NEW key \in KeyArgs, NEW opts
  PROVE  decryptRecipient(doc, r, key, opts) \in Results
<1> DEFINE P      == protectedOf(doc).hdr
           merged == mergeThree(P, doc.unprotected, r.header)
           crit   == checkCritical(P, opts.KnownCritical)
           one    == decryptOne(merged.hdr, r.encrypted_key, doc, key, opts)
           next   == IF r.encrypted_key.form = "notb64" THEN failed("ErrMalformed") ELSE one
<1>1. P \in Headers /\ doc.unprotected \in Headers /\ r.header \in Headers
  BY ProtectedOfType DEF Docs, Entries
<1> HIDE DEF P
<1>2. merged.hdr \in Headers /\ merged.err \in JWEErrors /\ crit \in JWEErrors
  BY <1>1, MergeThreeType, ErrorTypes, JWEErrorTypes
<1>3. firstErr(merged.err, crit) \in JWEErrors
  BY <1>2 DEF firstErr
<1>4. one \in Results
  BY <1>2, DecryptOneType
<1> HIDE DEF one
<1>5. next \in Results
  BY <1>4, FailedType, JWEErrorTypes
<1>6. orFailed(firstErr(merged.err, crit), next) \in Results
  BY <1>3, <1>5, OrFailedType
<1>7. failed("ErrInvalidHeader") \in Results
  BY FailedType, JWEErrorTypes
<1>8. decryptRecipient(doc, r, key, opts) =
        IF unprotectedZip(doc, r) THEN failed("ErrInvalidHeader")
        ELSE orFailed(firstErr(merged.err, crit), next)
  BY DEF decryptRecipient, P, one
<1> HIDE DEF merged, crit, next
<1> QED BY <1>6, <1>7, <1>8

\* What an attempt of DecryptJSONWithOptions demands of a document.
LEMMA DecryptRecipientSucceeds ==
  ASSUME NEW doc \in Docs, NEW i \in 1..Len(recipientsOf(doc)), NEW key \in KeyArgs, NEW opts,
         decryptRecipient(doc, recipientsOf(doc)[i], key, opts).err = nil
  PROVE  Opens(decryptRecipient(doc, recipientsOf(doc)[i], key, opts), doc, key, opts)
<1> DEFINE e      == recipientsOf(doc)[i]
           ek     == e.encrypted_key
           P      == protectedOf(doc).hdr
           merged == mergeThree(P, doc.unprotected, e.header)
           crit   == checkCritical(P, opts.KnownCritical)
           one    == decryptOne(merged.hdr, ek, doc, key, opts)
           next   == IF ek.form = "notb64" THEN failed("ErrMalformed") ELSE one
           r      == decryptRecipient(doc, e, key, opts)
<1>1. \A x : failed(x).err = x
  BY DEF failed
<1>2. nil # "ErrMalformed" /\ nil # "ErrInvalidHeader"
  BY DEF nil
<1>3. r = IF unprotectedZip(doc, e) THEN failed("ErrInvalidHeader")
          ELSE orFailed(firstErr(merged.err, crit), next)
  BY DEF decryptRecipient
<1>4. \/ ek.key = Junk
      \/ \E j \in 1..Len(doc.recipients) : ek = doc.recipients[j].encrypted_key
  BY RecipientsOfType
<1>5. r.err = nil
  OBVIOUS
<1> HIDE DEF r, one, merged, crit, P, e
<1>6. ~unprotectedZip(doc, e) /\ r = orFailed(firstErr(merged.err, crit), next)
  BY <1>1, <1>2, <1>3, <1>5
<1> HIDE DEF next
<1>7. firstErr(merged.err, crit) = nil /\ r = next
  BY <1>5, <1>6, OrFailedSucceeds
<1>8. merged.err = nil /\ crit = nil
  BY <1>7 DEF firstErr
<1>9. r = one
  BY <1>1, <1>2, <1>5, <1>7 DEF next
<1>10. Reads(r, merged.hdr, ek, doc, key, opts)
  BY <1>5, <1>9, DecryptOneSucceeds DEF one
<1>11. \A n \in Name : Has(P, n) => merged.hdr[n] = P[n]
  BY <1>8, MergeThreeKeeps DEF merged
<1>12. merged.hdr["zip"] = P["zip"]
  <2>1. "zip" \in Name
    BY KeyMgmtAssumption
  <2>2. ~Has(doc.unprotected, "zip") /\ ~Has(e.header, "zip")
    BY <1>6 DEF unprotectedZip
  <2> QED BY <1>8, <2>1, <2>2, MergeThreeKeeps DEF merged
<1>13. Opens(r, doc, key, opts)
  BY <1>4, <1>8, <1>10, <1>11, <1>12 DEF Opens, crit, P
<1> QED BY <1>13 DEF r, e

-----------------------------------------------------------------------------
(* The order in which recipients are tried.                                *)

\* The loop of recipientOrder, before its first and in its k-th iteration.
partedNone == [first |-> <<>>, rest |-> <<>>]
partedStep(a, k, doc, kid) ==
    IF effectiveKid(doc, recipientsOf(doc)[k]) = kid
    THEN [a EXCEPT !.first = Append(@, k)] ELSE [a EXCEPT !.rest = Append(@, k)]

\* f holds what the loop has after each of its first m iterations.
partedUpTo(f, m, doc, kid) ==
    f = [k \in 0..m |-> IF k = 0 THEN partedNone ELSE partedStep(f[k - 1], k, doc, kid)]

\* There is such a function, by the least m for which there were none.
LEMMA PartedExists ==
  ASSUME NEW doc, NEW kid, NEW n \in Nat
  PROVE  \E f : partedUpTo(f, n, doc, kid)
<1> DEFINE bad == {m \in Nat : ~\E f : partedUpTo(f, m, doc, kid)}
<1>1. SUFFICES ASSUME bad # {} PROVE FALSE
  BY <1>1
<1>2. PICK m \in bad : \A j \in bad : m <= j
  <2>1. bad \subseteq Nat
    OBVIOUS
  <2> HIDE DEF bad
  <2> QED BY <1>1, <2>1, LeastElement
<1>3. m \in Nat
  OBVIOUS
<1>4. CASE m = 0
  <2> DEFINE f == [k \in 0..0 |-> partedNone]
  <2>1. partedUpTo(f, 0, doc, kid)
    BY DEF partedUpTo
  <2> QED BY <1>4, <2>1
<1>5. CASE m # 0
  <2>1. m - 1 \in Nat /\ ~(m <= m - 1)
    BY <1>3, <1>5
  <2>2. m - 1 \notin bad
    BY <1>2, <2>1
  <2>3. PICK f : partedUpTo(f, m - 1, doc, kid)
    BY <2>1, <2>2
  <2> DEFINE g == [k \in 0..m |-> IF k = m THEN partedStep(f[m - 1], m, doc, kid) ELSE f[k]]
  <2>4. ASSUME NEW k \in 0..m
        PROVE  g[k] = IF k = 0 THEN partedNone ELSE partedStep(g[k - 1], k, doc, kid)
    <3>1. CASE k = m
      <4>1. m - 1 \in 0..m /\ m - 1 # m
        BY <1>3, <2>1
      <4>2. g[m - 1] = f[m - 1]
        BY <4>1
      <4> QED BY <1>5, <3>1, <4>2
    <3>2. CASE k # m
      <4>1. k \in 0..(m - 1) /\ g[k] = f[k]
        BY <1>3, <3>2
      <4>2. f[k] = IF k = 0 THEN partedNone ELSE partedStep(f[k - 1], k, doc, kid)
        BY <2>3, <4>1 DEF partedUpTo
      <4>3. ASSUME k # 0 PROVE g[k - 1] = f[k - 1]
        <5>1. k - 1 \in 0..m /\ k - 1 # m
          BY <1>3, <4>1, <4>3
        <5> QED BY <5>1
      <4> HIDE DEF g
      <4> QED BY <4>1, <4>2, <4>3
    <3> QED BY <3>1, <3>2
  <2>5. g = [k \in 0..m |-> g[k]]
    OBVIOUS
  <2> HIDE DEF g
  <2>6. partedUpTo(g, m, doc, kid)
    BY <2>4, <2>5 DEF partedUpTo
  <2> QED BY <2>6
<1> QED BY <1>4, <1>5

\* parted is what the loop has at its end.
LEMMA PartedIs ==
  ASSUME NEW doc, NEW kid, Len(recipientsOf(doc)) \in Nat
  PROVE  \E f : partedUpTo(f, Len(recipientsOf(doc)), doc, kid)
                /\ parted(doc, kid) = f[Len(recipientsOf(doc))]
<1> DEFINE n == Len(recipientsOf(doc))
           f == CHOOSE g : partedUpTo(g, n, doc, kid)
<1>1. partedUpTo(f, n, doc, kid)
  BY PartedExists
<1>2. parted(doc, kid) = f[n]
  BY DEF parted, partedUpTo, partedStep, partedNone
<1> QED BY <1>1, <1>2

\* seq lists some of the first k recipients, in document order.
Ascending(seq, k) ==
    /\ seq \in Seq(Nat)
    /\ \A p \in 1..Len(seq) : seq[p] \in 1..k
    /\ \A p, q \in 1..Len(seq) : p < q => seq[p] < seq[q]

\* a parts the first k recipients by their "kid".
Parted(a, k, doc, kid) ==
    /\ a = [first |-> a.first, rest |-> a.rest]
    /\ Ascending(a.first, k) /\ Ascending(a.rest, k)
    /\ \A p \in 1..Len(a.first) : effectiveKid(doc, recipientsOf(doc)[a.first[p]]) = kid
    /\ \A p \in 1..Len(a.rest) : effectiveKid(doc, recipientsOf(doc)[a.rest[p]]) # kid
    /\ \A i \in 1..k : \/ \E p \in 1..Len(a.first) : a.first[p] = i
                       \/ \E p \in 1..Len(a.rest) : a.rest[p] = i

\* Appending the next recipient keeps the order.
LEMMA AscendingAppend ==
  ASSUME NEW k \in Nat \ {0}, NEW seq, Ascending(seq, k - 1)
  PROVE  /\ Ascending(Append(seq, k), k)
         /\ Len(Append(seq, k)) = Len(seq) + 1 /\ Append(seq, k)[Len(seq) + 1] = k
         /\ \A p \in 1..Len(seq) : Append(seq, k)[p] = seq[p]
<1> DEFINE s == Append(seq, k)
<1>1. seq \in Seq(Nat) /\ Len(seq) \in Nat
  BY DEF Ascending
<1>2. /\ s \in Seq(Nat) /\ Len(s) = Len(seq) + 1 /\ s[Len(seq) + 1] = k
      /\ \A p \in 1..Len(seq) : s[p] = seq[p]
  BY <1>1
<1> HIDE DEF s
<1>3. ASSUME NEW p \in 1..Len(s) PROVE s[p] \in 1..k /\ (p # Len(s) => s[p] \in 1..(k - 1))
  <2>1. CASE p = Len(s)
    BY <1>1, <1>2, <2>1
  <2>2. CASE p # Len(s)
    <3>1. p \in 1..Len(seq)
      BY <1>1, <1>2, <2>2
    <3>2. seq[p] \in 1..(k - 1)
      BY <3>1 DEF Ascending
    <3> QED BY <1>2, <3>1, <3>2
  <2> QED BY <2>1, <2>2
<1>4. ASSUME NEW p \in 1..Len(s), NEW q \in 1..Len(s), p < q PROVE s[p] < s[q]
  <2>1. p \in 1..Len(seq) /\ p # Len(s)
    BY <1>1, <1>2, <1>4
  <2>2. CASE q = Len(s)
    <3>1. s[q] = k /\ s[p] \in 1..(k - 1)
      BY <1>2, <1>3, <2>1, <2>2
    <3> QED BY <3>1
  <2>3. CASE q # Len(s)
    <3>1. q \in 1..Len(seq)
      BY <1>1, <1>2, <2>3
    <3>2. seq[p] < seq[q]
      BY <1>4, <2>1, <3>1 DEF Ascending
    <3> QED BY <1>2, <2>1, <3>1, <3>2
  <2> QED BY <2>2, <2>3
<1>5. Ascending(s, k)
  BY <1>2, <1>3, <1>4 DEF Ascending
<1> QED BY <1>2, <1>5 DEF s

\* The order of the first k - 1 is an order of the first k.
LEMMA AscendingMore ==
  ASSUME NEW k \in Nat \ {0}, NEW seq, Ascending(seq, k - 1) PROVE Ascending(seq, k)
<1>1. ASSUME NEW p \in 1..Len(seq) PROVE seq[p] \in 1..k
  <2>1. seq[p] \in 1..(k - 1)
    BY DEF Ascending
  <2> QED BY <2>1
<1> QED BY <1>1 DEF Ascending

\* One iteration of the loop.
LEMMA PartedStep ==
  ASSUME NEW k \in Nat \ {0}, NEW a, NEW doc, NEW kid, Parted(a, k - 1, doc, kid)
  PROVE  Parted(partedStep(a, k, doc, kid), k, doc, kid)
<1> DEFINE K(i) == effectiveKid(doc, recipientsOf(doc)[i])
           f == a.first  g == a.rest
           f1 == Append(f, k)  g1 == Append(g, k)
           b == partedStep(a, k, doc, kid)
<1>1. a = [first |-> f, rest |-> g] /\ Ascending(f, k - 1) /\ Ascending(g, k - 1)
  BY DEF Parted
<1>2. Len(f) \in Nat /\ Len(g) \in Nat
  BY <1>1 DEF Ascending
<1>3. /\ \A p \in 1..Len(f) : K(f[p]) = kid
      /\ \A p \in 1..Len(g) : K(g[p]) # kid
      /\ \A i \in 1..(k - 1) : \/ \E p \in 1..Len(f) : f[p] = i
                               \/ \E p \in 1..Len(g) : g[p] = i
  BY DEF Parted
<1>4. /\ Ascending(f1, k) /\ Len(f1) = Len(f) + 1 /\ f1[Len(f) + 1] = k
      /\ \A p \in 1..Len(f) : f1[p] = f[p]
  BY <1>1, AscendingAppend
<1>5. /\ Ascending(g1, k) /\ Len(g1) = Len(g) + 1 /\ g1[Len(g) + 1] = k
      /\ \A p \in 1..Len(g) : g1[p] = g[p]
  BY <1>1, AscendingAppend
<1>6. Ascending(f, k) /\ Ascending(g, k)
  BY <1>1, AscendingMore
<1>7. b = IF K(k) = kid THEN [first |-> f1, rest |-> g] ELSE [first |-> f, rest |-> g1]
  <2>1. b = IF K(k) = kid THEN [a EXCEPT !.first = f1] ELSE [a EXCEPT !.rest = g1]
    BY DEF partedStep
  <2> HIDE DEF f, g, f1, g1, b, K
  <2>2. a = [first |-> f, rest |-> g]
    BY <1>1
  <2>3. /\ [a EXCEPT !.first = f1] = [first |-> f1, rest |-> g]
        /\ [a EXCEPT !.rest = g1] = [first |-> f, rest |-> g1]
    BY <2>2
  <2> QED BY <2>1, <2>3
<1>8. \A i \in 1..k : i = k \/ i \in 1..(k - 1)
  OBVIOUS
<1> HIDE DEF b, f, g, f1, g1, K
<1>9. CASE K(k) = kid
  <2>1. b.first = f1 /\ b.rest = g /\ b = [first |-> f1, rest |-> g]
    BY <1>7, <1>9
  <2>2. \A p \in 1..Len(f1) : p = Len(f) + 1 \/ p \in 1..Len(f)
    BY <1>2, <1>4
  <2>3. \A p \in 1..Len(f1) : K(f1[p]) = kid
    BY <1>3, <1>4, <1>9, <2>2
  <2>4. Len(f) + 1 \in 1..Len(f1) /\ \A p \in 1..Len(f) : p \in 1..Len(f1)
    BY <1>2, <1>4
  <2>5. \A i \in 1..k : \/ \E p \in 1..Len(f1) : f1[p] = i
                        \/ \E p \in 1..Len(g) : g[p] = i
    BY <1>3, <1>4, <1>8, <2>4
  <2>6. Parted(b, k, doc, kid)
    BY <1>3, <1>4, <1>6, <2>1, <2>3, <2>5 DEF Parted, K
  <2> QED BY <2>6 DEF b
<1>10. CASE K(k) # kid
  <2>1. b.first = f /\ b.rest = g1 /\ b = [first |-> f, rest |-> g1]
    BY <1>7, <1>10
  <2>2. \A p \in 1..Len(g1) : p = Len(g) + 1 \/ p \in 1..Len(g)
    BY <1>2, <1>5
  <2>3. \A p \in 1..Len(g1) : K(g1[p]) # kid
    BY <1>3, <1>5, <1>10, <2>2
  <2>4. Len(g) + 1 \in 1..Len(g1) /\ \A p \in 1..Len(g) : p \in 1..Len(g1)
    BY <1>2, <1>5
  <2>5. \A i \in 1..k : \/ \E p \in 1..Len(f) : f[p] = i
                        \/ \E p \in 1..Len(g1) : g1[p] = i
    BY <1>3, <1>5, <1>8, <2>4
  <2>6. Parted(b, k, doc, kid)
    BY <1>3, <1>5, <1>6, <2>1, <2>3, <2>5 DEF Parted, K
  <2> QED BY <2>6 DEF b
<1> QED BY <1>9, <1>10

\* The loop parts all recipients, by the least iteration after which it had
\* not parted the first ones.
LEMMA PartedAll ==
  ASSUME NEW doc, NEW kid, Len(recipientsOf(doc)) \in Nat
  PROVE  Parted(parted(doc, kid), Len(recipientsOf(doc)), doc, kid)
<1> DEFINE n == Len(recipientsOf(doc))
<1>1. PICK f : partedUpTo(f, n, doc, kid) /\ parted(doc, kid) = f[n]
  BY PartedIs
<1> DEFINE bad == {m \in 0..n : ~Parted(f[m], m, doc, kid)}
<1>2. CASE bad = {}
  <2>1. n \in 0..n
    OBVIOUS
  <2> QED BY <1>1, <1>2, <2>1
<1>3. CASE bad # {}
  <2>1. PICK m \in bad : \A j \in bad : m <= j
    <3>1. bad \subseteq Nat
      OBVIOUS
    <3> HIDE DEF bad
    <3> QED BY <1>3, <3>1, LeastElement
  <2>2. m \in 0..n /\ ~Parted(f[m], m, doc, kid)
    OBVIOUS
  <2>3. f[m] = IF m = 0 THEN partedNone ELSE partedStep(f[m - 1], m, doc, kid)
    BY <1>1, <2>2 DEF partedUpTo
  <2>4. CASE m = 0
    <3>1. <<>> \in Seq(Nat) /\ Len(<<>>) = 0
      OBVIOUS
    <3>2. Ascending(<<>>, 0)
      BY <3>1 DEF Ascending
    <3>3. Parted(partedNone, 0, doc, kid)
      BY <3>1, <3>2 DEF Parted, partedNone
    <3> QED BY <2>2, <2>3, <2>4, <3>3
  <2>5. CASE m # 0
    <3>1. m - 1 \in 0..n /\ ~(m <= m - 1) /\ m \in Nat \ {0}
      BY <2>2, <2>5
    <3>2. m - 1 \notin bad
      BY <2>1, <3>1
    <3>3. Parted(f[m - 1], m - 1, doc, kid)
      BY <3>1, <3>2
    <3>4. Parted(f[m], m, doc, kid)
      BY <2>3, <2>5, <3>1, <3>3, PartedStep
    <3> QED BY <2>2, <3>4
  <2> QED BY <2>4, <2>5
<1> QED BY <1>2, <1>3

\* order tries every recipient, and first those with this "kid" as they stand
\* in the document.
TriesAll(order, doc, kid) ==
    LET n    == Len(recipientsOf(doc))
        K(i) == effectiveKid(doc, recipientsOf(doc)[i])
    IN  /\ order \in Seq(Nat) /\ Len(order) \in Nat \ {0}
        /\ \A p \in 1..Len(order) : order[p] \in 1..n
        /\ \A i \in 1..n : \E p \in 1..Len(order) : order[p] = i
        /\ kid # "" => \A p, q \in 1..Len(order) :
              q < p /\ K(order[p]) = kid => K(order[q]) = kid /\ order[q] < order[p]

(***************************************************************************)
(* recipientOrder tries every recipient of the document, and those with    *)
(* the "kid" of the key first, in document order.                          *)
(***************************************************************************)
LEMMA RecipientOrderTriesAll ==
  ASSUME NEW doc \in Docs, NEW key
  PROVE  TriesAll(recipientOrder(doc, key), doc, wantKid(key))
<1> DEFINE n     == Len(recipientsOf(doc))
           kid   == wantKid(key)
           order == recipientOrder(doc, key)
           K(i)  == effectiveKid(doc, recipientsOf(doc)[i])
<1>1. n \in Nat \ {0}
  BY RecipientsOfType
<1>2. CASE kid = ""
  <2> DEFINE o == [i \in 1..n |-> i]
  <2>1. order = o
    BY <1>2 DEF recipientOrder, documentOrder
  <2>2. o \in Seq(Nat) /\ Len(o) = n /\ \A p \in 1..n : o[p] = p
    BY <1>1
  <2> HIDE DEF o, n, order, kid
  <2>3. /\ \A p \in 1..Len(o) : o[p] \in 1..n
        /\ \A i \in 1..n : \E p \in 1..Len(o) : o[p] = i
    BY <2>2
  <2>4. TriesAll(o, doc, kid)
    BY <1>1, <1>2, <2>2, <2>3 DEF TriesAll, n
  <2> QED BY <2>1, <2>4 DEF order, kid
<1>3. CASE kid # ""
  <2> DEFINE a == parted(doc, kid)  f == a.first  g == a.rest  o == f \o g
  <2>1. order = o
    BY <1>3 DEF recipientOrder
  <2>2. Parted(a, n, doc, kid)
    BY <1>1, PartedAll
  <2> HIDE DEF a
  <2>3. /\ Ascending(f, n) /\ Ascending(g, n)
        /\ \A p \in 1..Len(f) : K(f[p]) = kid
        /\ \A p \in 1..Len(g) : K(g[p]) # kid
        /\ \A i \in 1..n : \/ \E p \in 1..Len(f) : f[p] = i
                           \/ \E p \in 1..Len(g) : g[p] = i
    BY <2>2 DEF Parted
  <2> HIDE DEF f, g
  <2>4. /\ f \in Seq(Nat) /\ Len(f) \in Nat /\ g \in Seq(Nat) /\ Len(g) \in Nat
        /\ \A p \in 1..Len(f) : f[p] \in 1..n
        /\ \A p \in 1..Len(g) : g[p] \in 1..n
        /\ \A p, q \in 1..Len(f) : p < q => f[p] < f[q]
    BY <2>3 DEF Ascending
  <2>5. /\ o \in Seq(Nat) /\ Len(o) = Len(f) + Len(g)
        /\ \A p \in 1..Len(f) : o[p] = f[p]
        /\ \A p \in 1..Len(g) : o[Len(f) + p] = g[p]
    BY <2>4
  <2> HIDE DEF o, order, kid, K, n
  <2>6. ASSUME NEW p \in 1..Len(o)
        PROVE  \/ p \in 1..Len(f) /\ o[p] = f[p]
               \/ \E q \in 1..Len(g) : p = Len(f) + q /\ o[p] = g[q]
    <3>1. CASE p <= Len(f)
      <4>1. p \in 1..Len(f)
        BY <2>4, <2>5, <3>1
      <4> QED BY <2>5, <4>1
    <3>2. CASE ~(p <= Len(f))
      <4>1. p - Len(f) \in 1..Len(g) /\ p = Len(f) + (p - Len(f))
        BY <2>4, <2>5, <3>2
      <4> QED BY <2>5, <4>1
    <3> QED BY <3>1, <3>2
  <2>7. \A p \in 1..Len(o) : o[p] \in 1..n
    BY <2>4, <2>6
  <2>8. ASSUME NEW i \in 1..n PROVE \E p \in 1..Len(o) : o[p] = i
    <3>1. CASE \E p \in 1..Len(f) : f[p] = i
      <4>1. PICK p \in 1..Len(f) : f[p] = i
        BY <3>1
      <4>2. p \in 1..Len(o) /\ o[p] = i
        BY <2>4, <2>5, <4>1
      <4> QED BY <4>2
    <3>2. CASE \E p \in 1..Len(g) : g[p] = i
      <4>1. PICK p \in 1..Len(g) : g[p] = i
        BY <3>2
      <4>2. Len(f) + p \in 1..Len(o) /\ o[Len(f) + p] = i
        BY <2>4, <2>5, <4>1
      <4> QED BY <4>2
    <3> QED BY <2>3, <3>1, <3>2
  <2>9. ASSUME NEW p \in 1..Len(o), NEW q \in 1..Len(o), q < p, K(o[p]) = kid
        PROVE  K(o[q]) = kid /\ o[q] < o[p]
    <3>1. p \in 1..Len(f) /\ o[p] = f[p]
      BY <2>3, <2>6, <2>9
    <3>2. q \in 1..Len(f)
      BY <2>4, <2>9, <3>1
    <3>3. o[q] = f[q] /\ f[q] < f[p] /\ K(f[q]) = kid
      BY <2>3, <2>4, <2>5, <2>9, <3>1, <3>2
    <3> QED BY <3>1, <3>3
  <2>10. Len(o) \in Nat \ {0}
    <3>1. 1 \in 1..n
      BY <1>1 DEF n
    <3>2. PICK p \in 1..Len(o) : o[p] = 1
      BY <2>8, <3>1
    <3> QED BY <2>4, <2>5, <3>2
  <2>11. TriesAll(o, doc, kid)
    BY <2>5, <2>7, <2>8, <2>9, <2>10 DEF TriesAll, K, n
  <2> QED BY <2>1, <2>11 DEF order, kid
<1> QED BY <1>2, <1>3

-----------------------------------------------------------------------------
(* What producers make of their options.                                   *)

\* The parameters that are nobody's output: "crit" and what it may list.
LEMMA ExtensionNames ==
  ASSUME NEW n, Extension(n)
  PROVE  n \notin KeyOutputs /\ n # "alg" /\ n # "kid" /\ n # "enc" /\ n # "zip"
  BY DEF Extension, isRegisteredHeader, registeredHeaders, KeyOutputs

\* copyHeader gives a header.
LEMMA CopyType ==
  ASSUME NEW h1 \in Headers, NEW h2 \in Headers
  PROVE  copyHeader(h1, h2) \in Headers
  BY DEF copyHeader, Headers

\* The content encryption a call names, or the default, is a symbol.
LEMMA ChooseEncType ==
  ASSUME NEW opts \in EncryptOptions PROVE chooseEnc(opts) \in Symbol
<1>1. opts.Encryption \in Symbol
  BY DEF EncryptOptions
<1>2. "A256GCM" \in DOMAIN contentEncs
  BY DEF contentEncs
<1>3. "A256GCM" \in Symbol
  BY <1>2, SymbolsAssumption
<1> QED BY <1>1, <1>3 DEF chooseEnc

\* The protected header of the options is one, and has the "enc" in use.
LEMMA BaseHeaderType ==
  ASSUME NEW opts \in EncryptOptions
  PROVE  baseHeader(opts) \in Headers /\ baseHeader(opts)["enc"] = Str(chooseEnc(opts))
<1> DEFINE h0 == copyHeader(opts.Header, opts.AdditionalHeaders)
           h  == With(h0, "enc", Str(chooseEnc(opts)))
           z  == With(h, "zip", Str("DEF"))
<1>1. h0 \in Headers
  BY CopyType DEF EncryptOptions
<1>2. Str(chooseEnc(opts)) \in Value /\ Str("DEF") \in Value
  BY ChooseEncType, StrType, SymbolsAssumption
<1> HIDE DEF h0
<1>3. h \in Headers
  BY <1>1, <1>2, WithType
<1>4. "enc" \in Name /\ "zip" # "enc"
  BY KeyMgmtAssumption
<1>5. h["enc"] = Str(chooseEnc(opts))
  BY <1>1, <1>4 DEF With, Headers
<1> HIDE DEF h
<1>6. z \in Headers /\ z["enc"] = h["enc"]
  BY <1>2, <1>3, <1>4, WithType, WithKeeps
<1>7. baseHeader(opts) = IF opts.Compress THEN z ELSE h
  BY DEF baseHeader, h, h0
<1> QED BY <1>3, <1>5, <1>6, <1>7

\* With a "kid", a header is one and keeps the rest.
LEMMA WithKid ==
  ASSUME NEW h \in Headers, NEW kid \in Symbol
  PROVE  /\ With(h, "kid", Str(kid)) \in Headers
         /\ \A n \in Name \ {"kid"} : With(h, "kid", Str(kid))[n] = h[n]
  BY StrType, WithType, WithKeeps

\* The "kid" of a JWK is a symbol.
LEMMA JwkKidType ==
  ASSUME NEW key \in KeyArgs PROVE jwkKid(key) \in Symbol
<1>1. CASE key.kind = "*JWK"
  <2>1. Len(key.keys) = 1 /\ key.keys \in Seq(JWKs)
    BY <1>1 DEF KeyArgs
  <2>2. key.keys[1] \in JWKs
    BY <2>1
  <2> QED BY <1>1, <2>2 DEF jwkKid, JWKs
<1>2. CASE key.kind # "*JWK"
  BY <1>2, SymbolAssumption DEF jwkKid
<1> QED BY <1>1, <1>2

\* h has the given "alg", and is header but for that and a "kid".
Stamped(h, header, alg) ==
    /\ h \in Headers
    /\ h["alg"] = Str(alg)
    /\ \A n \in Name \ {"alg", "kid"} : h[n] = header[n]

\* Writing "alg" and, for one of several reasons, a "kid" stamps a header.
LEMMA MakeStamped ==
  ASSUME NEW header \in Headers, NEW alg \in Symbol, NEW r,
         r = With(header, "alg", Str(alg))
         \/ \E kid \in Symbol : r = With(With(header, "alg", Str(alg)), "kid", Str(kid))
  PROVE  Stamped(r, header, alg)
<1> DEFINE h == With(header, "alg", Str(alg))
<1>1. "alg" \in Name /\ h \in Headers
  BY NameAssumption, StrType, WithType
<1>2. h["alg"] = Str(alg)
  BY <1>1 DEF With, Headers
<1>3. \A n \in Name \ {"alg"} : h[n] = header[n]
  BY WithKeeps
<1>4. Stamped(h, header, alg)
  BY <1>1, <1>2, <1>3 DEF Stamped
<1> HIDE DEF h
<1>5. ASSUME NEW kid \in Symbol, r = With(h, "kid", Str(kid)) PROVE Stamped(r, header, alg)
  <2>1. r \in Headers /\ \A n \in Name \ {"kid"} : r[n] = h[n]
    BY <1>1, <1>5, WithKid
  <2>2. r["alg"] = Str(alg)
    BY <1>1, <1>2, <2>1
  <2> QED BY <1>3, <2>1, <2>2 DEF Stamped
<1> QED BY <1>4, <1>5 DEF h

\* Encrypt's protected header.
LEMMA CompactHeaderType ==
  ASSUME NEW key \in KeyArgs, NEW opts \in EncryptOptions, NEW alg \in Symbol
  PROVE  Stamped(compactHeader(key, opts, alg), baseHeader(opts), alg)
<1> DEFINE h == With(baseHeader(opts), "alg", Str(alg))
           r == compactHeader(key, opts, alg)
<1>1. baseHeader(opts) \in Headers /\ opts.KeyID \in Symbol /\ jwkKid(key) \in Symbol
  BY BaseHeaderType, JwkKidType DEF EncryptOptions
<1>2. r = h \/ \E kid \in Symbol : r = With(h, "kid", Str(kid))
  BY <1>1 DEF compactHeader
<1> HIDE DEF r
<1>3. Stamped(r, baseHeader(opts), alg)
  BY <1>1, <1>2, MakeStamped
<1> QED BY <1>3 DEF r

\* The header of one of several recipients.
LEMMA RecipientHeaderType ==
  ASSUME NEW r \in Recipient, NEW alg \in Symbol, NEW protected
  PROVE  Stamped(recipientHeader(r, alg, protected), r.Header, alg)
<1> DEFINE h == With(r.Header, "alg", Str(alg))
           x == recipientHeader(r, alg, protected)
<1>1. r.Header \in Headers /\ r.KeyID \in Symbol /\ r.Key \in KeyArgs
  BY DEF Recipient
<1>2. jwkKid(r.Key) \in Symbol
  BY <1>1, JwkKidType
<1>3. x = h \/ \E kid \in Symbol : x = With(h, "kid", Str(kid))
  BY <1>1, <1>2 DEF recipientHeader
<1> HIDE DEF x
<1>4. Stamped(x, r.Header, alg)
  BY <1>1, <1>3, MakeStamped
<1> QED BY <1>4 DEF x

\* The header EncryptJSONMulti starts with is one, and is the options' but
\* for a "kid".
LEMMA SharedHeaderType ==
  ASSUME NEW c \in Call
  PROVE  /\ sharedHeader(c) \in Headers
         /\ \A n \in Name \ {"kid"} : sharedHeader(c)[n] = baseHeader(c.opts)[n]
<1>1. c.opts \in EncryptOptions
  BY DEF Call
<1>2. baseHeader(c.opts) \in Headers /\ c.opts.KeyID \in Symbol
  BY <1>1, BaseHeaderType DEF EncryptOptions
<1> QED BY <1>2, WithKid DEF sharedHeader

EncryptOps == {"encrypt", "wrapKey", "deriveKey"}

\* What prepare has found out about a recipient with this key and "kid".
Prepared(p, key, kid, enc) ==
    /\ p.alg \in DOMAIN keyMgmts /\ p.alg \in Symbol
    /\ p.key = resolveKey(key, kid).key /\ p.key \in GoKeys
    /\ resolveKey(key, kid).err = nil
    /\ checkJWKUsage(key, kid, "enc", {p.alg, enc}, EncryptOps) = nil

\* prepare resolves the recipient's key and heeds its restrictions.
LEMMA PrepareSucceeds ==
  ASSUME NEW key \in KeyArgs, NEW kid, NEW algOpt, NEW enc,
         prepare(key, kid, algOpt, enc).err = nil
  PROVE  Prepared(prepare(key, kid, algOpt, enc), key, kid, enc)
<1> DEFINE res    == resolveKey(key, kid)
           chosen == chooseKeyMgmtAlg(algOpt, key, res.key)
           use    == checkJWKUsage(key, kid, "enc", {chosen.alg, enc},
                                   EncryptOps)
           p      == prepare(key, kid, algOpt, enc)
<1> HIDE DEF res, chosen, use
<1>1. p = [err |-> firstErr(res.err, firstErr(chosen.err,
                     firstErr(lookupKeyMgmt(chosen.alg), use))),
           alg |-> chosen.alg, key |-> res.key]
  BY DEF prepare, res, chosen, use, EncryptOps
<1>2. p.err = nil
  OBVIOUS
<1> HIDE DEF p
<1>3. p.alg = chosen.alg /\ p.key = res.key
      /\ firstErr(res.err, firstErr(chosen.err, firstErr(lookupKeyMgmt(chosen.alg), use))) = nil
  BY <1>1, <1>2
<1>4. res.err = nil /\ lookupKeyMgmt(chosen.alg) = nil /\ use = nil
  BY <1>3 DEF firstErr
<1>5. chosen.alg \in DOMAIN keyMgmts
  BY <1>4 DEF lookupKeyMgmt, nil
<1>6. chosen.alg \in Symbol
  BY <1>5, MgmtType
<1>7. res.key \in GoKeys
  BY ResolveType DEF res
<1>8. Prepared(p, key, kid, enc)
  BY <1>3, <1>4, <1>5, <1>6, <1>7 DEF Prepared, res, use
<1> QED BY <1>8 DEF p

-----------------------------------------------------------------------------
(* Encrypt.                                                                *)

\* doc is what a call c that drew the CEK id may return.
MadeDoc(doc, c, id) ==
    LET s == [content |-> doc.content, entries |-> doc.recipients, call |-> c]
    IN  /\ doc \in Docs /\ WellFormed(doc)
        /\ doc.content.protected.form = "json"
        /\ BodyMade(s)
        /\ IF doc.content.cek.from = "random" THEN doc.content.cek.id = id
           ELSE doc.content.cek.id \in Addressed(c)
        /\ \A n \in Name : Extension(n) =>
              doc.content.protected.hdr[n] = JSONValue(Asked(c)[n])
        /\ \A e \in 1..Len(doc.recipients) :
              LET w == doc.recipients[e].encrypted_key.key
              IN  w # Junk => Carries(w, doc.content.cek, c)

\* r has a CEK drawn as id, wrapped for an addressee of c, or an addressee's
\* own.
Handed(r, c, alg, id) ==
    /\ IF r.cek.from = "random" THEN r.cek.id = id
       ELSE derivesCEK(alg) /\ r.cek.id \in Addressed(c)
    /\ r.key.key # Junk => Carries(r.key.key, r.cek, c)

\* encryptKey hands it out like that.
LEMMA KeyMadeCarries ==
  ASSUME NEW r, NEW pair \in Pair, NEW alg, NEW enc \in DOMAIN contentEncs, NEW header,
         NEW draws, draws.cek \in Symbol, NEW c, pair \in Addressed(c),
         KeyMade(r, pair, alg, enc, header, NoSecret, draws)
  PROVE  Handed(r, c, alg, draws.cek)
<1>1. newCEK(draws.cek, contentEncs[enc].keySize).from = "random"
      /\ newCEK(draws.cek, contentEncs[enc].keySize).id = draws.cek
  BY EncType, NewCEKType
<1> DEFINE n == newCEK(draws.cek, contentEncs[enc].keySize)
<1> HIDE DEF n
<1>2. n.from = "random" /\ n.id = draws.cek
  BY <1>1 DEF n
<1>3. CASE derivesCEK(alg)
  <2>1. r.cek.from \in {"key", "ecdh"} /\ r.cek.id = pair /\ r.key = NoKey
    BY <1>3 DEF KeyMade
  <2> QED BY <1>3, <2>1, JunkType DEF Handed
<1>4. CASE ~derivesCEK(alg)
  <2>1. r.cek = n /\ r.key.key.cek = r.cek /\ r.key.key.kek.id = pair
    BY <1>4 DEF KeyMade, n
  <2> QED BY <1>2, <2>1 DEF Carries, Handed
<1> QED BY <1>3, <1>4

\* orNotMade succeeds when there was no error and the rest succeeds.
LEMMA OrNotMadeSucceeds ==
  ASSUME NEW e, NEW r, orNotMade(e, r).err = nil PROVE e = nil /\ orNotMade(e, r) = r
<1>1. CASE e = nil
  BY <1>1 DEF orNotMade
<1>2. CASE e # nil
  <2>1. orNotMade(e, r).err = e
    BY <1>2 DEF orNotMade, notMade
  <2> QED BY <1>2, <2>1
<1> QED BY <1>1, <1>2

\* The documents before anything fills them in.
LEMMA NoDocType ==
  NoDoc \in Docs /\ NoDoc.form = "none" /\ NoDoc.recipients = <<>>
  /\ NoDoc.content = NoContent /\ NoDoc.unprotected = NoHeader /\ NoDoc.aad = Empty
<1>1. NoSeg \in ProtectedSegs
  BY NoHeaderType, SegType DEF NoSeg, SegForm
<1>2. AsMade \in Parts
  BY DEF AsMade, Parts, PartForm
<1>3. <<>> \in Seq(Entries)
  OBVIOUS
<1>4. NoContent \in Contents
  BY NoContentType
<1> HIDE DEF NoSeg, AsMade, NoContent
<1>5. NoDoc.form = "none" /\ NoDoc.recipients = <<>> /\ NoDoc.content = NoContent
      /\ NoDoc.unprotected = NoHeader /\ NoDoc.aad = Empty
  BY DEF NoDoc
<1>6. NoDoc \in Docs
  BY <1>1, <1>2, <1>3, <1>4, NoHeaderType, EmptyType DEF NoDoc, Docs, DocForm
<1> QED BY <1>5, <1>6

\* The steps of Encrypt, when none of them fails.
EncryptsAs(doc, plaintext, key, opts, draws) ==
    LET enc    == chooseEnc(opts)
        p      == prepare(key, opts.KeyID, opts.Algorithm, enc)
        header == compactHeader(key, opts, p.alg)
        made   == encryptKey(p.alg, enc, p.key, header, NoSecret, draws)
        s      == seal(plaintext, made.header, enc, made.cek, Empty)
    IN  /\ lookupEnc(enc) = nil /\ p.err = nil /\ made.err = nil /\ s.err = nil
        /\ checkCriticalProduced(header) = nil
        /\ opts.Unprotected = NoHeader /\ opts.AAD = Empty
        /\ doc = [NoDoc EXCEPT !.form = "compact", !.protected = s.content.protected,
                               !.recipients = <<entry(NoHeader, made.key)>>,
                               !.content = s.content]

\* Encrypt succeeds when they all do.
LEMMA EncryptParts ==
  ASSUME NEW plaintext, NEW key, NEW opts, NEW draws,
         Encrypt(plaintext, key, opts, draws).err = nil
  PROVE  EncryptsAs(Encrypt(plaintext, key, opts, draws).doc, plaintext, key, opts, draws)
<1> DEFINE enc    == chooseEnc(opts)
           p      == prepare(key, opts.KeyID, opts.Algorithm, enc)
           header == compactHeader(key, opts, p.alg)
           made   == encryptKey(p.alg, enc, p.key, header, NoSecret, draws)
           s      == seal(plaintext, made.header, enc, made.cek, Empty)
           d      == [NoDoc EXCEPT !.form = "compact", !.protected = s.content.protected,
                                   !.recipients = <<entry(NoHeader, made.key)>>,
                                   !.content = s.content]
           r5     == [err |-> nil, doc |-> d]
           r4     == orNotMade(s.err, r5)
           r3     == orNotMade(made.err, r4)
           r2     == orNotMade(checkCriticalProduced(header), r3)
           r1     == orNotMade(p.err, r2)
           r0     == orNotMade(lookupEnc(enc), r1)
           r      == Encrypt(plaintext, key, opts, draws)
<1>1. r = IF opts.Unprotected # NoHeader THEN notMade("ErrInvalidHeader")
          ELSE IF opts.AAD # Empty THEN notMade("ErrInvalidHeader") ELSE r0
  BY DEF Encrypt
<1>2. r.err = nil
  OBVIOUS
<1>3. notMade("ErrInvalidHeader").err # nil
  BY DEF notMade, nil
<1> HIDE DEF r, r0
<1>4. opts.Unprotected = NoHeader /\ opts.AAD = Empty /\ r = r0
  BY <1>1, <1>2, <1>3
<1> HIDE DEF r1
<1>5. lookupEnc(enc) = nil /\ r = r1
  BY <1>2, <1>4, OrNotMadeSucceeds DEF r0
<1> HIDE DEF r2
<1>6. p.err = nil /\ r = r2
  BY <1>2, <1>5, OrNotMadeSucceeds DEF r1
<1> HIDE DEF r3
<1>7. checkCriticalProduced(header) = nil /\ r = r3
  BY <1>2, <1>6, OrNotMadeSucceeds DEF r2
<1> HIDE DEF r4
<1>8. made.err = nil /\ r = r4
  BY <1>2, <1>7, OrNotMadeSucceeds DEF r3
<1> HIDE DEF r5
<1>9. s.err = nil /\ r = r5
  BY <1>2, <1>8, OrNotMadeSucceeds DEF r4
<1> HIDE DEF d
<1>10. r.doc = d
  BY <1>9 DEF r5
<1>11. EncryptsAs(r.doc, plaintext, key, opts, draws)
  BY <1>4, <1>5, <1>6, <1>7, <1>8, <1>9, <1>10 DEF EncryptsAs, d
<1> QED BY <1>11 DEF r

\* With one recipient that adds no parameters, a call asks for those of its
\* options.
LEMMA AskedOfSingle ==
  ASSUME NEW c \in Call, SingleCall(c)
  PROVE  \A n \in Name : Asked(c)[n] = baseHeader(c.opts)[n]
<1>1. Asked(c) = copyHeader(baseHeader(c.opts), NoHeader)
  BY DEF Asked, SingleCall
<1>2. \A n \in Name : ~Has(NoHeader, n)
  BY DEF Has, NoHeader
<1> QED BY <1>1, <1>2 DEF copyHeader

\* The recipients of a call resolve to its addressees.
LEMMA AddressedType ==
  ASSUME NEW c \in Call, NEW k \in 1..Len(c.recipients)
  PROVE  /\ c.recipients[k] \in Recipient
         /\ resolveKey(c.recipients[k].Key, c.recipients[k].KeyID).key.pair \in Addressed(c)
         /\ resolveKey(c.recipients[k].Key, c.recipients[k].KeyID).key.pair \in Pair
<1>1. c.recipients[k] \in Recipient
  BY DEF Call
<1>2. c.recipients[k].Key \in KeyArgs
  BY <1>1 DEF Recipient
<1> QED BY <1>1, <1>2, ResolveType DEF Addressed, GoKeys

\* What seal makes of a header that keeps the extensions a call asks for.
LEMMA SealMadeOf ==
  ASSUME NEW c \in Call, NEW protected \in Headers, NEW enc \in Symbol, NEW cek \in Secrets,
         NEW aad \in Octets, NEW entries,
         seal(c.plaintext, protected, enc, cek, aad).err = nil,
         \A n \in Name : Extension(n) => protected[n] = Asked(c)[n]
  PROVE  LET content == seal(c.plaintext, protected, enc, cek, aad).content
         IN  /\ content \in Contents /\ content.cek = cek
             /\ content.protected.form = "json" /\ content.protected.hdr \in Headers
             /\ BodyMade([content |-> content, entries |-> entries, call |-> c])
             /\ \A n \in Name : Extension(n) =>
                   content.protected.hdr[n] = JSONValue(Asked(c)[n])
<1> DEFINE content == seal(c.plaintext, protected, enc, cek, aad).content
           s       == [content |-> content, entries |-> entries, call |-> c]
<1>1. c.plaintext \in Text
  BY DEF Call
<1>2. /\ content \in Contents /\ content.cek = cek
      /\ content.protected = Seg("json", JSON(protected))
      /\ ~Has(JSON(protected), "zip") => content.body = Body(c.plaintext)
      /\ JSON(protected)["zip"] = Str("DEF") => content.body = deflate(c.plaintext)
  BY <1>1, SealSucceeds
<1> HIDE DEF content
<1>3. content.protected.form = "json" /\ content.protected.hdr = JSON(protected)
  BY <1>2 DEF Seg
<1>4. JSON(protected) \in Headers
  BY JSONType
<1>5. \A n \in Name : JSON(protected)[n] = JSONValue(protected[n])
  BY DEF JSON
<1>6. s.content = content /\ s.call = c
  OBVIOUS
<1> HIDE DEF s
<1>7. BodyMade(s)
  BY <1>2, <1>3, <1>6 DEF BodyMade
<1> QED BY <1>2, <1>3, <1>4, <1>5, <1>7 DEF content, s

(***************************************************************************)
(* Encrypt seals under its own CEK and for its one addressee.              *)
(***************************************************************************)
LEMMA EncryptMade ==
  ASSUME NEW c \in Call, SingleCall(c), NEW draws, draws.cek \in Symbol, draws.own \in Symbol,
         Encrypt(c.plaintext, c.recipients[1].Key, c.opts, draws).err = nil
  PROVE  MadeDoc(Encrypt(c.plaintext, c.recipients[1].Key, c.opts, draws).doc, c, draws.cek)
<1> DEFINE key    == c.recipients[1].Key
           opts   == c.opts
           enc    == chooseEnc(opts)
           p      == prepare(key, opts.KeyID, opts.Algorithm, enc)
           header == compactHeader(key, opts, p.alg)
           made   == encryptKey(p.alg, enc, p.key, header, NoSecret, draws)
           s      == seal(c.plaintext, made.header, enc, made.cek, Empty)
           e      == entry(NoHeader, made.key)
           doc    == Encrypt(c.plaintext, key, opts, draws).doc
<1>1. /\ lookupEnc(enc) = nil /\ p.err = nil /\ made.err = nil /\ s.err = nil
      /\ doc = [NoDoc EXCEPT !.form = "compact", !.protected = s.content.protected,
                             !.recipients = <<e>>, !.content = s.content]
  <2>1. EncryptsAs(doc, c.plaintext, key, opts, draws)
    BY EncryptParts
  <2> QED BY <2>1 DEF EncryptsAs
<1>2. /\ 1 \in 1..Len(c.recipients) /\ opts.KeyID = c.recipients[1].KeyID
      /\ opts \in EncryptOptions
  BY DEF SingleCall, Call
<1>3. key \in KeyArgs /\ resolveKey(key, opts.KeyID).key.pair \in Addressed(c)
      /\ resolveKey(key, opts.KeyID).key.pair \in Pair
  BY <1>2, AddressedType DEF Recipient
<1>4. enc \in DOMAIN contentEncs /\ enc \in Symbol
  BY <1>1, LookupEnc, EncType
<1>5. /\ p.alg \in DOMAIN keyMgmts /\ p.alg \in Symbol /\ p.key \in GoKeys
      /\ p.key.pair \in Addressed(c) /\ p.key.pair \in Pair
  <2>1. Prepared(p, key, opts.KeyID, enc)
    BY <1>1, <1>3, PrepareSucceeds
  <2> HIDE DEF p
  <2> QED BY <1>3, <2>1 DEF Prepared
<1> HIDE DEF enc, p
<1>6. Stamped(header, baseHeader(opts), p.alg)
  BY <1>2, <1>3, <1>5, CompactHeaderType
<1>7. header \in Headers
  BY <1>6 DEF Stamped
<1> HIDE DEF header
<1>8. KeyMade(made, p.key.pair, p.alg, enc, header, NoSecret, draws)
  BY <1>1, <1>4, <1>5, <1>7, NoSecretType, EncryptKeyMade
<1> HIDE DEF made
<1>9. made.cek \in Secrets /\ made.key \in EncryptedKeys /\ made.header \in Headers
  BY <1>8 DEF KeyMade
<1>10. /\ IF made.cek.from = "random" THEN made.cek.id = draws.cek
          ELSE made.cek.id \in Addressed(c)
       /\ made.key.key # Junk => Carries(made.key.key, made.cek, c)
  BY <1>4, <1>5, <1>8, KeyMadeCarries DEF Handed
<1>11. \A n \in Name : Extension(n) => made.header[n] = Asked(c)[n]
  BY <1>6, <1>8, AskedOfSingle, ExtensionNames DEF KeyMade, Stamped
<1>12. e \in Entries /\ e.encrypted_key = made.key /\ e.header = NoHeader
  BY <1>9, NoHeaderType DEF entry, Entries
<1> DEFINE content == s.content
<1>13. /\ content \in Contents /\ content.cek = made.cek
       /\ content.protected.form = "json" /\ content.protected.hdr \in Headers
       /\ BodyMade([content |-> content, entries |-> <<e>>, call |-> c])
       /\ \A n \in Name : Extension(n) => content.protected.hdr[n] = JSONValue(Asked(c)[n])
  BY <1>1, <1>4, <1>9, <1>11, EmptyType, SealMadeOf
<1> HIDE DEF e, content
<1>14. doc = [NoDoc EXCEPT !.form = "compact", !.protected = content.protected,
                           !.recipients = <<e>>, !.content = content]
  BY <1>1 DEF content
<1>15. content.protected \in ProtectedSegs /\ <<e>> \in Seq(Entries) /\ "compact" \in DocForm
  BY <1>12, <1>13 DEF Contents, DocForm
<1> HIDE DEF doc
<1>16. /\ doc \in Docs /\ doc.form = "compact" /\ doc.content = content
       /\ doc.recipients = <<e>> /\ doc.unprotected = NoHeader /\ doc.aad = Empty
  BY <1>13, <1>14, <1>15, NoDocType DEF Docs
<1>17. WellFormed(doc)
  BY <1>12, <1>16 DEF WellFormed
<1>18. \A k \in 1..Len(doc.recipients) : doc.recipients[k] = e
  BY <1>16
<1>19. MadeDoc(doc, c, draws.cek)
  BY <1>10, <1>12, <1>13, <1>16, <1>17, <1>18 DEF MadeDoc
<1> QED BY <1>19 DEF doc

-----------------------------------------------------------------------------
(* EncryptJSONMulti.                                                       *)

\* The key of recipient r resolves, and its restrictions permit alg and enc.
Permitted(r, alg, enc) ==
    /\ resolveKey(r.Key, r.KeyID).err = nil
    /\ checkJWKUsage(r.Key, r.KeyID, "enc", {alg, enc}, EncryptOps) = nil

\* What the loop makes of recipient k of call c, given the CEK so far.
RecipientMade(x, c, k, given, id) ==
    LET enc == chooseEnc(c.opts)
    IN  /\ x.cek \in Secrets /\ x.key \in EncryptedKeys /\ x.header \in Headers
        /\ IF given = NoSecret
           THEN IF x.cek.from = "random" THEN x.cek.id = id
                ELSE Len(c.recipients) = 1 /\ x.cek.id \in Addressed(c)
           ELSE x.cek = given
        /\ x.key.key # Junk => Carries(x.key.key, x.cek, c)
        /\ \E alg \in Symbol :
              x.header["alg"] = Str(alg) /\ Permitted(c.recipients[k], alg, enc)
        /\ Len(c.recipients) = 1 =>
              /\ x.header["enc"] = Str(enc)
              /\ \A n \in Name : Extension(n) => x.header[n] = Asked(c)[n]

\* The header that encryptKey reads and writes for recipient r.
Readable(h, c, r, alg) ==
    /\ h \in Headers
    /\ h["alg"] = Str(alg)
    /\ Len(c.recipients) = 1 =>
          /\ h["enc"] = Str(chooseEnc(c.opts))
          /\ \A n \in Name : Extension(n) => h[n] = Asked(c)[n]

\* Folding the protected header into the single recipient's.
LEMMA FoldReadable ==
  ASSUME NEW c \in Call, NEW r \in Recipient, NEW alg \in Symbol, NEW own,
         Len(c.recipients) = 1 => r = c.recipients[1],
         Stamped(own, r.Header, alg),
         NEW folded,
         folded = IF Len(c.recipients) = 1 THEN fold(own, sharedHeader(c))
                  ELSE [err |-> nil, hdr |-> own],
         folded.err = nil
  PROVE  Readable(folded.hdr, c, r, alg)
<1> DEFINE P == sharedHeader(c)
           B == baseHeader(c.opts)
<1>1. own \in Headers /\ own["alg"] = Str(alg)
      /\ \A n \in Name \ {"alg", "kid"} : own[n] = r.Header[n]
  BY DEF Stamped
<1>2. CASE Len(c.recipients) # 1
  <2>1. folded.hdr = own
    BY <1>2
  <2> QED BY <1>1, <1>2, <2>1 DEF Readable
<1>3. CASE Len(c.recipients) = 1
  <2>1. fold(own, P).err = nil /\ folded = fold(own, P)
    BY <1>3
  <2>2. /\ ~\E n \in Name \ {"kid"} : Has(own, n) /\ Has(P, n)
        /\ folded.hdr = copyHeader(P, own)
    BY <2>1 DEF fold, nil
  <2>3. P \in Headers /\ \A n \in Name \ {"kid"} : P[n] = B[n]
    BY SharedHeaderType
  <2>4. c.opts \in EncryptOptions
    BY DEF Call
  <2>5. B \in Headers /\ B["enc"] = Str(chooseEnc(c.opts))
    BY <2>4, BaseHeaderType
  <2>6. "alg" \in Name /\ "enc" \in Name /\ "enc" # "kid"
    BY NameAssumption, KeyMgmtAssumption
  <2> HIDE DEF P, B
  <2>7. \A s : Str(s) # Absent
    BY DEF Str, Absent
  <2>8. folded.hdr \in Headers
    BY <1>1, <2>2, <2>3, CopyType
  <2>9. folded.hdr["alg"] = Str(alg)
    BY <1>1, <2>2, <2>6, <2>7 DEF copyHeader, Has
  <2>10. folded.hdr["enc"] = Str(chooseEnc(c.opts))
    BY <2>2, <2>3, <2>5, <2>6, <2>7 DEF copyHeader, Has
  <2>11. ASSUME NEW n \in Name, Extension(n) PROVE folded.hdr[n] = Asked(c)[n]
    <3>1. n # "alg" /\ n # "kid"
      BY <2>11, ExtensionNames
    <3>2. own[n] = r.Header[n] /\ P[n] = B[n]
      BY <1>1, <2>3, <3>1
    <3>3. Asked(c) = copyHeader(B, r.Header)
      BY <1>3 DEF Asked, B
    <3> QED BY <2>2, <3>2, <3>3 DEF copyHeader, Has
  <2> QED BY <2>8, <2>9, <2>10, <2>11 DEF Readable
<1> QED BY <1>2, <1>3

\* The steps of one iteration, when none of them fails.
EncryptsRecipientAs(x, r, count, enc, protected, cek, draws) ==
    LET p      == prepare(r.Key, r.KeyID, r.Algorithm, enc)
        own    == recipientHeader(r, p.alg, protected)
        folded == IF count = 1 THEN fold(own, protected) ELSE [err |-> nil, hdr |-> own]
    IN  /\ p.err = nil /\ folded.err = nil /\ ~(derivesCEK(p.alg) /\ count > 1)
        /\ x = encryptKey(p.alg, enc, p.key, folded.hdr, cek, draws)

\* An iteration succeeds when they all do.
LEMMA EncryptRecipientParts ==
  ASSUME NEW r, NEW count, NEW enc, NEW protected, NEW cek, NEW draws,
         encryptRecipient(r, count, enc, protected, cek, draws).err = nil
  PROVE  EncryptsRecipientAs(encryptRecipient(r, count, enc, protected, cek, draws),
                             r, count, enc, protected, cek, draws)
<1> DEFINE p      == prepare(r.Key, r.KeyID, r.Algorithm, enc)
           own    == recipientHeader(r, p.alg, protected)
           folded == IF count = 1 THEN fold(own, protected) ELSE [err |-> nil, hdr |-> own]
           x      == encryptRecipient(r, count, enc, protected, cek, draws)
<1>1. \A e : noKey(e).err = e
  BY Zenon DEF noKey
<1>2. nil # "ErrUnsupportedAlgorithm" /\ x.err = nil
  BY DEF nil
<1> HIDE DEF p, own, folded
<1>3. x = IF p.err # nil THEN noKey(p.err)
          ELSE IF derivesCEK(p.alg) /\ count > 1 THEN noKey("ErrUnsupportedAlgorithm")
          ELSE IF folded.err # nil THEN noKey(folded.err)
          ELSE encryptKey(p.alg, enc, p.key, folded.hdr, cek, draws)
  BY DEF encryptRecipient, p, own, folded
<1> HIDE DEF x
<1>4. /\ p.err = nil /\ folded.err = nil /\ ~(derivesCEK(p.alg) /\ count > 1)
      /\ x = encryptKey(p.alg, enc, p.key, folded.hdr, cek, draws)
  BY <1>1, <1>2, <1>3
<1>5. EncryptsRecipientAs(x, r, count, enc, protected, cek, draws)
  BY <1>4 DEF EncryptsRecipientAs, p, own, folded
<1> QED BY <1>5 DEF x

(***************************************************************************)
(* An iteration of EncryptJSONMulti's loop hands the CEK all recipients    *)
(* share, or the single recipient's own, to an addressee.                  *)
(***************************************************************************)
LEMMA EncryptRecipientMade ==
  ASSUME NEW c \in Call, NEW k \in 1..Len(c.recipients), NEW given \in Secrets, NEW draws,
         draws.cek \in Symbol, draws.own \in Symbol,
         given = NoSecret \/ given.from = "random",
         lookupEnc(chooseEnc(c.opts)) = nil,
         NEW x, x = encryptRecipient(c.recipients[k], Len(c.recipients), chooseEnc(c.opts),
                                     sharedHeader(c), given, draws),
         x.err = nil
  PROVE  RecipientMade(x, c, k, given, draws.cek)
<1> DEFINE r      == c.recipients[k]
           count  == Len(c.recipients)
           enc    == chooseEnc(c.opts)
           P      == sharedHeader(c)
           p      == prepare(r.Key, r.KeyID, r.Algorithm, enc)
           own    == recipientHeader(r, p.alg, P)
           folded == IF count = 1 THEN fold(own, P) ELSE [err |-> nil, hdr |-> own]
<1>1. EncryptsRecipientAs(x, r, count, enc, P, given, draws)
  BY EncryptRecipientParts
<1>2. /\ p.err = nil /\ folded.err = nil /\ ~(derivesCEK(p.alg) /\ count > 1)
      /\ x = encryptKey(p.alg, enc, p.key, folded.hdr, given, draws)
  BY <1>1 DEF EncryptsRecipientAs
<1>3. /\ r \in Recipient /\ resolveKey(r.Key, r.KeyID).key.pair \in Addressed(c)
      /\ resolveKey(r.Key, r.KeyID).key.pair \in Pair
  BY AddressedType
<1>4. r.Key \in KeyArgs
  BY <1>3 DEF Recipient
<1>5. Prepared(p, r.Key, r.KeyID, enc)
  BY <1>2, <1>4, PrepareSucceeds
<1>6. enc \in DOMAIN contentEncs
  BY LookupEnc
<1> HIDE DEF p, r
<1>7. /\ p.alg \in DOMAIN keyMgmts /\ p.alg \in Symbol /\ p.key \in GoKeys
      /\ p.key.pair \in Addressed(c) /\ p.key.pair \in Pair
      /\ Permitted(r, p.alg, enc)
  BY <1>3, <1>5 DEF Prepared, Permitted
<1>8. Stamped(own, r.Header, p.alg)
  BY <1>3, <1>7, RecipientHeaderType
<1>9. count = 1 => r = c.recipients[1]
  BY DEF r
<1> HIDE DEF own
<1>10. Readable(folded.hdr, c, r, p.alg)
  BY <1>2, <1>3, <1>7, <1>8, <1>9, FoldReadable
<1> HIDE DEF folded
<1>11. folded.hdr \in Headers
  BY <1>10 DEF Readable
<1>12. /\ derivesCEK(p.alg) => given = NoSecret
       /\ KeyMade(x, p.key.pair, p.alg, enc, folded.hdr, given, draws)
  BY <1>2, <1>6, <1>7, <1>11, EncryptKeyMade
<1>13. x.cek \in Secrets /\ x.key \in EncryptedKeys /\ x.header \in Headers
       /\ \A n \in Name \ KeyOutputs : x.header[n] = folded.hdr[n]
  BY <1>12 DEF KeyMade
<1>16. /\ IF given = NoSecret
          THEN IF x.cek.from = "random" THEN x.cek.id = draws.cek
               ELSE count = 1 /\ x.cek.id \in Addressed(c)
          ELSE x.cek = given
       /\ x.key.key # Junk => Carries(x.key.key, x.cek, c)
  <2> HIDE DEF enc
  <2>1. CASE given = NoSecret
    <3>0. KeyMade(x, p.key.pair, p.alg, enc, folded.hdr, NoSecret, draws)
      BY <1>12, <2>1
    <3>1. /\ IF x.cek.from = "random" THEN x.cek.id = draws.cek
             ELSE derivesCEK(p.alg) /\ x.cek.id \in Addressed(c)
          /\ x.key.key # Junk => Carries(x.key.key, x.cek, c)
      <4> HIDE DEF folded
      <4>1. p.key.pair \in Pair /\ p.key.pair \in Addressed(c)
        BY <1>7
      <4>2. Handed(x, c, p.alg, draws.cek)
        BY <1>6, <3>0, <4>1, KeyMadeCarries
      <4> QED BY <4>2 DEF Handed
    <3>2. derivesCEK(p.alg) => count = 1
      <4>1. count \in Nat /\ k \in 1..count
        BY DEF Call
      <4>2. ~(derivesCEK(p.alg) /\ count > 1)
        BY <1>2
      <4> HIDE DEF count
      <4> QED BY <4>1, <4>2
    <3> QED BY <2>1, <3>1, <3>2
  <2>2. CASE given # NoSecret
    <3>1. ~derivesCEK(p.alg) /\ given.from = "random"
      BY <1>12, <2>2
    <3>2. x.cek = given /\ x.key.key.cek = x.cek /\ x.key.key.kek.id = p.key.pair
      BY <1>12, <2>2, <3>1 DEF KeyMade
    <3>3. x.key.key # Junk => Carries(x.key.key, x.cek, c)
      BY <1>7, <3>1, <3>2 DEF Carries
    <3> QED BY <2>2, <3>2, <3>3
  <2> QED BY <2>1, <2>2
<1>17. x.header["alg"] = Str(p.alg)
  <2>1. "alg" \in Name \ KeyOutputs
    BY NameAssumption DEF KeyOutputs
  <2> QED BY <1>10, <1>13, <2>1 DEF Readable
<1>18. count = 1 => x.header["enc"] = Str(enc)
  <2>1. "enc" \in Name \ KeyOutputs
    BY KeyMgmtAssumption DEF KeyOutputs
  <2> QED BY <1>10, <1>13, <2>1 DEF Readable
<1>19. count = 1 => \A n \in Name : Extension(n) => x.header[n] = Asked(c)[n]
  BY <1>10, <1>13, ExtensionNames DEF Readable
<1> HIDE DEF enc, count
<1>20. RecipientMade(x, c, k, given, draws.cek)
  BY <1>7, <1>13, <1>16, <1>17, <1>18, <1>19 DEF RecipientMade, enc, count, r
<1> QED BY <1>20

\* encoding/json on a finished document keeps all but headers, and these are
\* what JSON makes of them.
LEMMA ToJSONType ==
  ASSUME NEW d \in Docs
  PROVE  LET j == toJSON(d)
         IN  /\ j \in Docs /\ j.form = d.form /\ j.content = d.content
             /\ j.protected = d.protected /\ j.aad = d.aad
             /\ j.unprotected = JSON(d.unprotected)
             /\ Len(j.recipients) = Len(d.recipients)
             /\ \A i \in 1..Len(d.recipients) :
                  /\ j.recipients[i].encrypted_key = d.recipients[i].encrypted_key
                  /\ j.recipients[i].header = JSON(d.recipients[i].header)
<1> DEFINE one(e) == entry(JSON(e.header), e.encrypted_key)
           js == [i \in DOMAIN d.recipients |-> one(d.recipients[i])]
           u  == JSON(d.unprotected)
           j  == toJSON(d)
<1>1. d.recipients \in Seq(Entries) /\ d.unprotected \in Headers
  BY DEF Docs
<1>2. DOMAIN d.recipients = 1..Len(d.recipients) /\ Len(d.recipients) \in Nat
  BY <1>1
<1>3. ASSUME NEW e \in Entries
      PROVE  /\ one(e) \in Entries /\ one(e).encrypted_key = e.encrypted_key
             /\ one(e).header = JSON(e.header)
  <2>1. e.header \in Headers
    BY <1>3 DEF Entries
  <2>2. JSON(e.header) \in Headers
    BY <2>1, JSONType
  <2> QED BY <2>2 DEF Entries, entry
<1>4. \A i \in 1..Len(d.recipients) : d.recipients[i] \in Entries
  BY <1>1
<1> HIDE DEF one
<1>5. /\ js \in Seq(Entries) /\ Len(js) = Len(d.recipients)
      /\ \A i \in 1..Len(d.recipients) : js[i] = one(d.recipients[i])
  BY <1>2, <1>3, <1>4
<1>6. u \in Headers
  BY <1>1, JSONType
<1> HIDE DEF js, u
<1>7. j = [d EXCEPT !.unprotected = u, !.recipients = js]
  BY DEF toJSON, one, js, u
<1>8. /\ j \in Docs /\ j.form = d.form /\ j.content = d.content
      /\ j.protected = d.protected /\ j.aad = d.aad
      /\ j.unprotected = u /\ j.recipients = js
  BY <1>5, <1>6, <1>7 DEF Docs
<1> QED BY <1>3, <1>4, <1>5, <1>8 DEF j, u

\* The document that finish seals, before encoding/json.
Sealed(c, content, entries) ==
    [NoDoc EXCEPT !.form = "general", !.protected = content.protected,
                  !.unprotected = c.opts.Unprotected, !.recipients = entries,
                  !.aad = EncodeSegment(c.opts.AAD), !.content = content]

\* The steps of finish, when none of them fails.
FinishesAs(doc, c, protected, cek, entries) ==
    LET s == seal(c.plaintext, protected, chooseEnc(c.opts), cek, EncodeSegment(c.opts.AAD))
    IN  /\ finishErr(protected, c.opts.Unprotected, entries) = nil /\ s.err = nil
        /\ doc = toJSON(Sealed(c, s.content, entries))

\* finish succeeds when they all do.
LEMMA FinishParts ==
  ASSUME NEW c, NEW protected, NEW cek, NEW entries,
         finish(c, protected, cek, entries).err = nil
  PROVE  FinishesAs(finish(c, protected, cek, entries).doc, c, protected, cek, entries)
<1> DEFINE s  == seal(c.plaintext, protected, chooseEnc(c.opts), cek, EncodeSegment(c.opts.AAD))
           d  == Sealed(c, s.content, entries)
           r2 == IF ~marshals(d) THEN notMade("json") ELSE [err |-> nil, doc |-> toJSON(d)]
           r1 == orNotMade(s.err, r2)
           r0 == orNotMade(finishErr(protected, c.opts.Unprotected, entries), r1)
           r  == finish(c, protected, cek, entries)
<1>1. r = r0 /\ r.err = nil
  BY DEF finish, Sealed
<1> HIDE DEF r, r1
<1>2. finishErr(protected, c.opts.Unprotected, entries) = nil /\ r = r1
  BY <1>1, OrNotMadeSucceeds
<1> HIDE DEF r2
<1>3. s.err = nil /\ r = r2
  BY <1>1, <1>2, OrNotMadeSucceeds DEF r1
<1>4. notMade("json").err # nil
  BY DEF notMade, nil
<1> HIDE DEF d
<1>5. r.doc = toJSON(d)
  BY <1>1, <1>3, <1>4 DEF r2
<1>6. FinishesAs(r.doc, c, protected, cek, entries)
  BY <1>2, <1>3, <1>5 DEF FinishesAs, d
<1> QED BY <1>6 DEF r

(***************************************************************************)
(* What follows EncryptJSONMulti's loop seals under the CEK its recipients *)
(* were handed.                                                            *)
(***************************************************************************)
LEMMA FinishMade ==
  ASSUME NEW c \in Call, NEW protected \in Headers, NEW cek \in Secrets,
         NEW entries \in Seq(Entries), NEW id,
         IF cek.from = "random" THEN cek.id = id ELSE cek.id \in Addressed(c),
         \A n \in Name : Extension(n) => protected[n] = Asked(c)[n],
         \A k \in 1..Len(entries) :
            entries[k].encrypted_key.key # Junk => Carries(entries[k].encrypted_key.key, cek, c),
         finish(c, protected, cek, entries).err = nil
  PROVE  MadeDoc(finish(c, protected, cek, entries).doc, c, id)
<1> DEFINE aad     == EncodeSegment(c.opts.AAD)
           enc     == chooseEnc(c.opts)
           s       == seal(c.plaintext, protected, enc, cek, aad)
           content == s.content
           d       == Sealed(c, content, entries)
           doc     == finish(c, protected, cek, entries).doc
<1>1. FinishesAs(doc, c, protected, cek, entries)
  BY FinishParts
<1>2. s.err = nil /\ doc = toJSON(d)
  BY <1>1 DEF FinishesAs
<1>3. c.opts \in EncryptOptions
  BY DEF Call
<1>4. aad \in Octets /\ enc \in Symbol /\ c.opts.Unprotected \in Headers
  BY <1>3, EncodeType, ChooseEncType DEF EncryptOptions
<1> HIDE DEF aad, enc, doc
<1>5. /\ content \in Contents /\ content.cek = cek
      /\ content.protected.form = "json" /\ content.protected.hdr \in Headers
      /\ BodyMade([content |-> content, entries |-> doc.recipients, call |-> c])
      /\ \A n \in Name : Extension(n) => content.protected.hdr[n] = JSONValue(Asked(c)[n])
  BY <1>2, <1>4, SealMadeOf
<1> HIDE DEF content
<1>6. d = [NoDoc EXCEPT !.form = "general", !.protected = content.protected,
                        !.unprotected = c.opts.Unprotected, !.recipients = entries,
                        !.aad = aad, !.content = content]
  BY DEF Sealed, aad
<1>7. content.protected \in ProtectedSegs /\ "general" \in DocForm
  BY <1>5 DEF Contents, DocForm
<1> HIDE DEF d
<1>8. d \in Docs /\ d.form = "general" /\ d.content = content /\ d.recipients = entries
  BY <1>4, <1>5, <1>6, <1>7, NoDocType DEF Docs
<1>9. /\ doc \in Docs /\ doc.form = "general" /\ doc.content = content
      /\ Len(doc.recipients) = Len(entries)
      /\ \A i \in 1..Len(entries) :
            doc.recipients[i].encrypted_key = entries[i].encrypted_key
  BY <1>2, <1>8, ToJSONType
<1>10. MadeDoc(doc, c, id)
  BY <1>5, <1>9 DEF MadeDoc, WellFormed
<1> QED BY <1>10 DEF doc

-----------------------------------------------------------------------------
(* What a document says of the keys it was made with.                      *)

\* A string in the protected header, or in a recipient's own, is what the
\* recipient's three headers say, where they repeat no member.
LEMMA MergedMember ==
  ASSUME NEW P \in Headers, NEW U \in Headers, NEW H \in Headers,
         mergeThree(P, U, H).err = nil,
         NEW n \in Name, NEW s, P[n] = Str(s) \/ H[n] = Str(s)
  PROVE  copyHeader(copyHeader(JSON(P), JSON(U)), JSON(H))[n] = Str(s)
<1>1. Str(s) # Absent
  BY DEF Str, Absent
<1>2. CASE H[n] = Str(s)
  <2>1. JSON(H)[n] = Str(s)
    BY <1>2, JSONMember
  <2> QED BY <1>1, <2>1 DEF copyHeader, Has
<1>3. CASE P[n] = Str(s)
  <2> DEFINE m == mergeHeaders(P, U)
  <2>1. m.err = nil /\ mergeHeaders(m.hdr, H).err = nil
    BY DEF mergeThree
  <2>2. Has(P, n)
    BY <1>1, <1>3 DEF Has
  <2>3. ~Has(U, n) /\ m.hdr[n] = Str(s)
    BY <1>3, <2>1, <2>2 DEF mergeHeaders, nil
  <2> HIDE DEF m
  <2>4. Has(m.hdr, n)
    BY <1>1, <2>3 DEF Has
  <2>5. ~Has(H, n)
    BY <2>1, <2>4 DEF mergeHeaders, nil
  <2>6. JSON(P)[n] = Str(s) /\ ~Has(JSON(U), n) /\ ~Has(JSON(H), n)
    BY <1>3, <2>3, <2>5, JSONMember
  <2> QED BY <2>6 DEF copyHeader
<1> QED BY <1>2, <1>3

\* What recipient k of a document with an encoded protected header is told.
LEMMA MergedOfMade ==
  ASSUME NEW doc, NEW h, doc.protected = Seg("json", h),
         NEW k \in 1..Len(doc.recipients)
  PROVE  MergedOf(doc, k) =
           copyHeader(copyHeader(h, doc.unprotected), doc.recipients[k].header)
<1>1. protectedOf(doc).hdr = h
  BY DEF protectedOf, decodeHeader, Seg
<1>2. doc.recipients # <<>>
  OBVIOUS
<1>3. recipientsOf(doc) = doc.recipients
  BY <1>2 DEF recipientsOf
<1> QED BY <1>1, <1>3 DEF MergedOf

\* Recipient k of a document is told the "alg" and "enc" its key was checked
\* for.
Entitled(doc, c, k) ==
    \E alg \in Symbol :
       /\ MergedOf(doc, k)["alg"] = Str(alg)
       /\ MergedOf(doc, k)["enc"] = Str(chooseEnc(c.opts))
       /\ Permitted(c.recipients[k], alg, chooseEnc(c.opts))

\* Encrypt tells its one recipient.
LEMMA EncryptEntitles ==
  ASSUME NEW c \in Call, SingleCall(c), NEW draws, draws.cek \in Symbol, draws.own \in Symbol,
         Encrypt(c.plaintext, c.recipients[1].Key, c.opts, draws).err = nil
  PROVE  Entitled(Encrypt(c.plaintext, c.recipients[1].Key, c.opts, draws).doc, c, 1)
<1> DEFINE key    == c.recipients[1].Key
           opts   == c.opts
           enc    == chooseEnc(opts)
           p      == prepare(key, opts.KeyID, opts.Algorithm, enc)
           header == compactHeader(key, opts, p.alg)
           made   == encryptKey(p.alg, enc, p.key, header, NoSecret, draws)
           s      == seal(c.plaintext, made.header, enc, made.cek, Empty)
           e      == entry(NoHeader, made.key)
           doc    == Encrypt(c.plaintext, key, opts, draws).doc
<1>1. /\ lookupEnc(enc) = nil /\ p.err = nil /\ made.err = nil /\ s.err = nil
      /\ doc = [NoDoc EXCEPT !.form = "compact", !.protected = s.content.protected,
                             !.recipients = <<e>>, !.content = s.content]
  <2>1. EncryptsAs(doc, c.plaintext, key, opts, draws)
    BY EncryptParts
  <2> QED BY <2>1 DEF EncryptsAs
<1>2. /\ 1 \in 1..Len(c.recipients) /\ opts.KeyID = c.recipients[1].KeyID
      /\ opts \in EncryptOptions /\ c.plaintext \in Text
  BY DEF SingleCall, Call
<1>3. key \in KeyArgs
  BY <1>2, AddressedType DEF Recipient
<1>4. enc \in DOMAIN contentEncs /\ enc \in Symbol
  BY <1>1, LookupEnc, EncType
<1>5. p.alg \in DOMAIN keyMgmts /\ p.alg \in Symbol /\ p.key \in GoKeys
      /\ Permitted(c.recipients[1], p.alg, enc)
  <2>1. Prepared(p, key, opts.KeyID, enc)
    BY <1>1, <1>3, PrepareSucceeds
  <2> HIDE DEF p
  <2> QED BY <1>2, <2>1 DEF Prepared, Permitted
<1> HIDE DEF p
<1>6. Stamped(header, baseHeader(opts), p.alg)
  BY <1>2, <1>3, <1>5, CompactHeaderType
<1>7. header \in Headers /\ header["alg"] = Str(p.alg) /\ header["enc"] = Str(enc)
  <2>1. "enc" \in Name \ {"alg", "kid"}
    BY KeyMgmtAssumption
  <2>2. baseHeader(opts)["enc"] = Str(enc)
    BY <1>2, BaseHeaderType
  <2> HIDE DEF header, enc
  <2> QED BY <1>6, <2>1, <2>2 DEF Stamped
<1> HIDE DEF header, enc
<1>8. KeyMade(made, p.key.pair, p.alg, enc, header, NoSecret, draws)
  BY <1>1, <1>4, <1>5, <1>7, NoSecretType, EncryptKeyMade
<1> HIDE DEF made
<1>9. made.cek \in Secrets /\ made.header \in Headers
      /\ \A n \in Name \ KeyOutputs : made.header[n] = header[n]
  BY <1>8 DEF KeyMade
<1>10. "alg" \in Name \ KeyOutputs /\ "enc" \in Name \ KeyOutputs
  BY NameAssumption, KeyMgmtAssumption DEF KeyOutputs
<1> DEFINE h == JSON(made.header)
<1>11. h["alg"] = Str(p.alg) /\ h["enc"] = Str(enc)
  BY <1>7, <1>9, <1>10, JSONMember
<1>12. s.content.protected = Seg("json", h)
  BY <1>1, <1>2, <1>4, <1>9, EmptyType, SealSucceeds
<1> DEFINE content == s.content
<1> HIDE DEF doc, h, content, e
<1>13. /\ doc.protected = Seg("json", h) /\ doc.unprotected = NoHeader
       /\ doc.recipients = <<e>>
  <2>1. doc = [NoDoc EXCEPT !.form = "compact", !.protected = content.protected,
                            !.recipients = <<e>>, !.content = content]
    BY <1>1 DEF content
  <2>2. content.protected = Seg("json", h)
    BY <1>12 DEF content
  <2> QED BY <2>1, <2>2, NoDocType DEF Docs
<1>14. MergedOf(doc, 1) = copyHeader(copyHeader(h, NoHeader), NoHeader)
  <2>1. 1 \in 1..Len(doc.recipients) /\ doc.recipients[1] = e
    BY <1>13
  <2>2. e.header = NoHeader
    BY DEF e, entry
  <2> QED BY <1>13, <2>1, <2>2, MergedOfMade
<1>15. MergedOf(doc, 1)["alg"] = Str(p.alg) /\ MergedOf(doc, 1)["enc"] = Str(enc)
  BY <1>10, <1>11, <1>14 DEF copyHeader, Has, NoHeader
<1>16. Entitled(doc, c, 1)
  BY <1>5, <1>15 DEF Entitled, enc
<1> QED BY <1>16 DEF doc

\* finish gives its recipients the headers it was given.
LEMMA FinishMerged ==
  ASSUME NEW c \in Call, NEW protected \in Headers, NEW cek \in Secrets,
         NEW entries \in Seq(Entries), finish(c, protected, cek, entries).err = nil,
         NEW k \in 1..Len(entries)
  PROVE  LET H == entries[k].header
             U == c.opts.Unprotected
         IN  /\ U \in Headers /\ H \in Headers
             /\ mergeThree(protected, U, H).err = nil
             /\ MergedOf(finish(c, protected, cek, entries).doc, k) =
                   copyHeader(copyHeader(JSON(protected), JSON(U)), JSON(H))
<1> DEFINE aad     == EncodeSegment(c.opts.AAD)
           enc     == chooseEnc(c.opts)
           s       == seal(c.plaintext, protected, enc, cek, aad)
           content == s.content
           d       == Sealed(c, content, entries)
           doc     == finish(c, protected, cek, entries).doc
           U       == c.opts.Unprotected
           H       == entries[k].header
<1>1. FinishesAs(doc, c, protected, cek, entries)
  BY FinishParts
<1>2. finishErr(protected, U, entries) = nil /\ s.err = nil /\ doc = toJSON(d)
  BY <1>1 DEF FinishesAs
<1>3. c.opts \in EncryptOptions /\ c.plaintext \in Text
  BY DEF Call
<1>4. aad \in Octets /\ enc \in Symbol /\ U \in Headers
  BY <1>3, EncodeType, ChooseEncType DEF EncryptOptions
<1>5. H \in Headers
  <2>1. entries[k] \in Entries
    OBVIOUS
  <2> QED BY <2>1 DEF Entries
<1>6. mergeThree(protected, U, H).err = nil
  <2> DEFINE bad == {i \in 1..Len(entries) :
                       mergeThree(protected, U, entries[i].header).err # nil}
  <2>1. bad = {}
    BY <1>2 DEF finishErr, firstErr, nil
  <2> QED BY <2>1
<1> HIDE DEF aad, enc, doc
<1>7. content \in Contents /\ content.protected = Seg("json", JSON(protected))
  BY <1>2, <1>3, <1>4, SealSucceeds
<1> HIDE DEF content, U
<1>8. d = [NoDoc EXCEPT !.form = "general", !.protected = content.protected,
                        !.unprotected = U, !.recipients = entries,
                        !.aad = aad, !.content = content]
  BY DEF Sealed, aad, U
<1>9. content.protected \in ProtectedSegs /\ "general" \in DocForm
  BY <1>7 DEF Contents, DocForm
<1> HIDE DEF d
<1>10. /\ d \in Docs /\ d.protected = content.protected /\ d.unprotected = U
       /\ d.recipients = entries
  BY <1>4, <1>7, <1>8, <1>9, NoDocType DEF Docs
<1>11. /\ doc.protected = Seg("json", JSON(protected)) /\ doc.unprotected = JSON(U)
       /\ Len(doc.recipients) = Len(entries) /\ doc.recipients[k].header = JSON(H)
  BY <1>2, <1>7, <1>10, ToJSONType
<1>12. MergedOf(doc, k) = copyHeader(copyHeader(JSON(protected), JSON(U)), JSON(H))
  BY <1>11, MergedOfMade
<1> QED BY <1>4, <1>5, <1>6, <1>12 DEF doc, U

\* A JWK that passes checkJWKUsage permits the use of the key it resolves to.
LEMMA CheckedIsPermitted ==
  ASSUME NEW key \in KeyArgs, NEW kid, NEW algs, NEW ops,
         resolveKey(key, kid).err = nil,
         checkJWKUsage(key, kid, "enc", algs, ops) = nil
  PROVE  PermittedBy(key, resolveKey(key, kid).key.pair, ops, algs)
<1> SUFFICES ASSUME key.kind \in {"*JWK", "*JWKSet"}
             PROVE  \E k \in 1..Len(key.keys) :
                       /\ key.keys[k].valid
                       /\ key.keys[k].material.pair = resolveKey(key, kid).key.pair
                       /\ Permits(key.keys[k], ops, algs)
  BY DEF PermittedBy
<1> DEFINE at == selectJWK(key, kid)
<1>1. /\ at \in 1..Len(key.keys) /\ key.keys[at].valid
      /\ key.keys[at].material = resolveKey(key, kid).key
  BY SelectedIsResolved
<1> HIDE DEF at
<1>2. at # 0
  BY <1>1
<1>3. Permits(key.keys[at], ops, algs)
  <2> DEFINE j == key.keys[at]
  <2>1. /\ ~(j.use # "" /\ j.use # "enc") /\ ~(j.alg # "" /\ j.alg \notin algs)
        /\ ~(j.key_ops # {} /\ j.key_ops \cap ops = {})
    BY <1>2 DEF checkJWKUsage, nil, at
  <2> HIDE DEF j
  <2> QED BY <2>1 DEF Permits, j
<1> QED BY <1>1, <1>3

\* The restrictions of an entitled recipient's JWK are kept.
LEMMA EntitledIsPermitted ==
  ASSUME NEW doc, NEW c \in Call, NEW k \in 1..Len(c.recipients), Entitled(doc, c, k)
  PROVE  LET r == c.recipients[k]
         IN  PermittedBy(r.Key, resolveKey(r.Key, r.KeyID).key.pair,
                         {"encrypt", "wrapKey", "deriveKey"}, AlgsOf(MergedOf(doc, k)))
<1> DEFINE r   == c.recipients[k]
           h   == MergedOf(doc, k)
           enc == chooseEnc(c.opts)
<1>1. PICK alg \in Symbol : /\ h["alg"] = Str(alg) /\ h["enc"] = Str(enc)
                            /\ Permitted(r, alg, enc)
  BY DEF Entitled
<1>2. r.Key \in KeyArgs
  BY AddressedType DEF Recipient
<1> HIDE DEF h, r, enc
<1>3. AlgsOf(h) = {alg, enc}
  BY <1>1 DEF AlgsOf, Algorithm, HeaderString, Str
<1>4. PermittedBy(r.Key, resolveKey(r.Key, r.KeyID).key.pair, EncryptOps, AlgsOf(h))
  BY <1>1, <1>2, <1>3, CheckedIsPermitted DEF Permitted
<1> QED BY <1>4 DEF r, h, EncryptOps

-----------------------------------------------------------------------------
(* Encrypt against EncryptJSON.                                            *)

\* The options of a call that names no "alg" of its own give none.
LEMMA BaseHasNoAlg ==
  ASSUME NEW opts \in EncryptOptions,
         ~Has(copyHeader(opts.Header, opts.AdditionalHeaders), "alg")
  PROVE  baseHeader(opts)["alg"] = Absent
<1> DEFINE h0 == copyHeader(opts.Header, opts.AdditionalHeaders)
           h  == With(h0, "enc", Str(chooseEnc(opts)))
<1>1. "alg" \in Name /\ "enc" \in Name /\ "zip" \in Name /\ "alg" # "enc" /\ "alg" # "zip"
  BY NameAssumption, KeyMgmtAssumption
<1>2. h0 \in Headers /\ h0["alg"] = Absent
  BY <1>1, CopyType DEF EncryptOptions, Has
<1>3. Str(chooseEnc(opts)) \in Value
  BY ChooseEncType, StrType
<1>4. baseHeader(opts) = IF opts.Compress THEN With(h, "zip", Str("DEF")) ELSE h
  BY DEF baseHeader
<1> HIDE DEF h0
<1>5. h \in Headers /\ h["alg"] = Absent
  BY <1>1, <1>2, <1>3, WithType, WithMember
<1> HIDE DEF h
<1>6. With(h, "zip", Str("DEF"))["alg"] = Absent
  BY <1>1, <1>5, WithMember
<1> QED BY <1>4, <1>5, <1>6

(***************************************************************************)
(* With one recipient, the header that EncryptJSONMulti folds together is  *)
(* the protected header Encrypt writes.                                    *)
(***************************************************************************)
LEMMA FoldIsCompact ==
  ASSUME NEW c \in Call, SingleCall(c),
         ~Has(copyHeader(c.opts.Header, c.opts.AdditionalHeaders), "alg"),
         NEW alg \in Symbol
  PROVE  LET r == c.recipients[1]
             P == sharedHeader(c)
         IN  fold(recipientHeader(r, alg, P), P) =
               [err |-> nil, hdr |-> compactHeader(r.Key, c.opts, alg)]
<1> DEFINE opts == c.opts
           r    == c.recipients[1]
           B    == baseHeader(opts)
           P    == sharedHeader(c)
           own  == recipientHeader(r, alg, P)
           C    == compactHeader(r.Key, opts, alg)
           id   == opts.KeyID
           jk   == jwkKid(r.Key)
           h    == With(B, "alg", Str(alg))
           a    == With(NoHeader, "alg", Str(alg))
           kid(x) == With(x, "kid", Str(id))
           jwk(x) == With(x, "kid", Str(jk))
<1>1. /\ Len(c.recipients) = 1 /\ r.KeyID = id /\ r.Header = NoHeader
      /\ opts \in EncryptOptions /\ r \in Recipient
  BY DEF SingleCall, Call
<1>2. "alg" \in Name /\ "kid" \in Name /\ "alg" # "kid" /\ \A s : Str(s) # Absent
  BY NameAssumption DEF Str, Absent
<1>3. B \in Headers /\ B["alg"] = Absent /\ Str(alg) \in Value
  BY <1>1, BaseHeaderType, BaseHasNoAlg, StrType
<1>4. /\ P = IF id # "" THEN kid(B) ELSE B
      /\ own = IF id # "" THEN kid(a)
               ELSE IF jk # "" /\ ~Has(a, "kid") /\ ~Has(P, "kid") THEN jwk(a) ELSE a
      /\ C = IF id # "" THEN kid(h) ELSE IF jk # "" /\ ~Has(h, "kid") THEN jwk(h) ELSE h
  BY <1>1 DEF sharedHeader, recipientHeader, compactHeader
<1>5. P \in Headers /\ own \in Headers /\ C \in Headers
  <2>1. P \in Headers
    BY SharedHeaderType
  <2>2. Stamped(own, r.Header, alg)
    BY <1>1, RecipientHeaderType
  <2>3. Stamped(C, B, alg)
    BY <1>1, CompactHeaderType DEF Recipient
  <2> QED BY <2>1, <2>2, <2>3 DEF Stamped
<1> HIDE DEF B, P, own, C, id, jk
<1>6. /\ h \in Headers /\ h["alg"] = Str(alg) /\ \A n \in Name : n # "alg" => h[n] = B[n]
      /\ a \in Headers /\ a["alg"] = Str(alg) /\ \A n \in Name : n # "alg" => a[n] = Absent
  <2>1. \A n \in Name : NoHeader[n] = Absent
    BY DEF NoHeader
  <2> QED BY <1>2, <1>3, <2>1, NoHeaderType, WithType, WithMember
<1>7. \A x \in Headers :
        /\ kid(x)["kid"] = Str(id) /\ jwk(x)["kid"] = Str(jk)
        /\ \A n \in Name : n # "kid" => kid(x)[n] = x[n] /\ jwk(x)[n] = x[n]
  BY <1>2, WithMember
<1> HIDE DEF h, a, kid, jwk
<1>8. \A n \in Name : n # "kid" => P[n] = B[n] /\ own[n] = a[n] /\ C[n] = h[n]
  BY <1>3, <1>4, <1>6, <1>7
<1>9. copyHeader(P, own)["kid"] = C["kid"]
  <2>1. a["kid"] = Absent /\ h["kid"] = B["kid"]
    BY <1>2, <1>6
  <2>2. CASE id # ""
    <3>1. own["kid"] = Str(id) /\ C["kid"] = Str(id)
      BY <1>4, <1>6, <1>7, <2>2
    <3> QED BY <1>2, <3>1 DEF copyHeader, Has
  <2>3. CASE id = "" /\ jk # "" /\ B["kid"] = Absent
    <3>1. own = jwk(a) /\ C = jwk(h)
      BY <1>2, <1>4, <2>1, <2>3 DEF Has
    <3>2. own["kid"] = Str(jk) /\ C["kid"] = Str(jk)
      BY <1>6, <1>7, <3>1
    <3> QED BY <1>2, <3>2 DEF copyHeader, Has
  <2>4. CASE id = "" /\ ~(jk # "" /\ B["kid"] = Absent)
    <3>1. P = B /\ own = a /\ C = h
      BY <1>2, <1>4, <2>1, <2>4 DEF Has
    <3> QED BY <1>2, <2>1, <3>1 DEF copyHeader, Has
  <2> QED BY <2>2, <2>3, <2>4
<1>10. ASSUME NEW n \in Name, n # "kid" PROVE copyHeader(P, own)[n] = C[n]
  <2>1. CASE n = "alg"
    BY <1>2, <1>6, <1>8, <1>10, <2>1 DEF copyHeader, Has
  <2>2. CASE n # "alg"
    BY <1>6, <1>8, <1>10, <2>2 DEF copyHeader, Has
  <2> QED BY <2>1, <2>2
<1>11. copyHeader(P, own) = C
  <2>1. copyHeader(P, own) \in Headers
    BY <1>5, CopyType
  <2>2. \A n \in Name : copyHeader(P, own)[n] = C[n]
    BY <1>9, <1>10
  <2> QED BY <1>5, <2>1, <2>2 DEF Headers
<1>12. ~\E n \in Name \ {"kid"} : Has(own, n) /\ Has(P, n)
  <2>1. ASSUME NEW n \in Name, n # "kid", Has(own, n) PROVE ~Has(P, n)
    <3>1. own[n] = a[n] /\ P[n] = B[n]
      BY <1>8, <2>1
    <3>2. n = "alg"
      BY <1>6, <2>1, <3>1 DEF Has
    <3> QED BY <1>3, <3>1, <3>2 DEF Has
  <2> QED BY <2>1
<1>13. fold(own, P) = [err |-> nil, hdr |-> C]
  BY <1>11, <1>12 DEF fold
<1> QED BY <1>13 DEF own, P, C

\* The check of a header's "crit" before a document is made goes by what
\* key management does not write.
LEMMA CriticalUnchanged ==
  ASSUME NEW h \in Headers, NEW g \in Headers, \A n \in Name \ KeyOutputs : g[n] = h[n]
  PROVE  checkCriticalProduced(g) = checkCriticalProduced(h)
<1>1. "crit" \in Name \ KeyOutputs
  BY NameAssumption DEF KeyOutputs
<1>2. g["crit"] = h["crit"]
  BY <1>1
<1>3. /\ Has(g, "crit") <=> Has(h, "crit")
      /\ CriticalOK(g) <=> CriticalOK(h)
      /\ Critical(g) = Critical(h)
  BY <1>2 DEF Has, CriticalOK, Critical
<1>4. ASSUME NEW known, NEW n PROVE critNameErr(g, known, n) = critNameErr(h, known, n)
  <2>1. CASE isRegisteredHeader(n)
    BY <2>1 DEF critNameErr
  <2>2. CASE ~isRegisteredHeader(n)
    <3>1. n \notin KeyOutputs
      BY <2>2 DEF isRegisteredHeader, registeredHeaders, KeyOutputs
    <3>2. Has(g, n) <=> Has(h, n)
      BY <3>1 DEF Has
    <3> QED BY <3>2 DEF critNameErr
  <2> QED BY <2>1, <2>2
<1>5. ASSUME NEW known PROVE checkCritical(g, known) = checkCritical(h, known)
  <2> DEFINE crit   == Critical(h)
             bad(x) == {i \in 1..Len(crit) : critNameErr(x, known, crit[i]) # nil}
             first(b) == CHOOSE i \in b : \A j \in b : i <= j
             check(x) == IF Has(x, "crit") /\ ~CriticalOK(x) THEN "ErrInvalidCrit"
                         ELSE IF ~Has(x, "crit") THEN nil
                         ELSE IF crit = <<>> THEN "ErrInvalidCrit"
                         ELSE IF bad(x) = {} THEN nil
                         ELSE critNameErr(x, known, crit[first(bad(x))])
  <2>1. checkCritical(h, known) = check(h)
    BY DEF checkCritical
  <2>2. checkCritical(g, known) = check(g)
    BY <1>3 DEF checkCritical
  <2>3. bad(g) = bad(h)
    BY <1>4
  <2> HIDE DEF bad, first, crit
  <2>4. check(g) = check(h)
    BY <1>3, <1>4, <2>3
  <2> QED BY <2>1, <2>2, <2>4
<1> QED BY <1>3, <1>5 DEF checkCriticalProduced

\* Encrypt's document.
CompactOf(content, e) ==
    [NoDoc EXCEPT !.form = "compact", !.protected = content.protected,
                  !.recipients = <<e>>, !.content = content]

\* What both make of the same sealed content.
LEMMA SameWire ==
  ASSUME NEW content \in Contents, NEW e \in Entries, e.header = NoHeader,
         NEW opts \in EncryptOptions, opts.Unprotected = NoHeader, opts.AAD = Empty,
         NEW c, c.opts = opts
  PROVE  /\ marshals(Sealed(c, content, <<e>>))
         /\ toJSON(Sealed(c, content, <<e>>)) = [CompactOf(content, e) EXCEPT !.form = "general"]
<1> DEFINE d == Sealed(c, content, <<e>>)
           m == CompactOf(content, e)
           g == [m EXCEPT !.form = "general"]
           j == toJSON(d)
           list == <<e>>
           P == content.protected
<1>1. EncodeSegment(Empty) = Empty
  BY DEF EncodeSegment
<1>2. P \in ProtectedSegs /\ list \in Seq(Entries) /\ {"compact", "general"} \subseteq DocForm
  BY DEF Contents, DocForm
<1>3. Len(list) = 1 /\ list[1] = e /\ DOMAIN list = {1}
  OBVIOUS
<1> HIDE DEF list, P
<1>4. d = [NoDoc EXCEPT !.form = "general", !.protected = P, !.unprotected = NoHeader,
                        !.recipients = list, !.aad = Empty, !.content = content]
  BY <1>1 DEF Sealed, P, list
<1>5. /\ d \in Docs /\ d.form = "general" /\ d.protected = P /\ d.unprotected = NoHeader
      /\ d.recipients = list /\ d.aad = Empty /\ d.content = content /\ d.parts = NoDoc.parts
  <2> HIDE DEF NoDoc
  <2> QED BY <1>2, <1>4, NoDocType, NoHeaderType, EmptyType DEF Docs
<1>6. /\ m \in Docs /\ m.form = "compact" /\ m.protected = P /\ m.unprotected = NoHeader
      /\ m.recipients = list /\ m.aad = Empty /\ m.content = content /\ m.parts = NoDoc.parts
  <2>1. m = [NoDoc EXCEPT !.form = "compact", !.protected = P, !.recipients = list,
                          !.content = content]
    BY DEF P, list, CompactOf
  <2> HIDE DEF m
  <2> QED BY <1>2, <2>1, NoDocType DEF Docs
<1> HIDE DEF m, d
<1>7. /\ g \in Docs /\ g.form = "general" /\ g.protected = P /\ g.unprotected = NoHeader
      /\ g.recipients = list /\ g.aad = Empty /\ g.content = content /\ g.parts = NoDoc.parts
  BY <1>2, <1>6 DEF Docs
<1> HIDE DEF g
<1>8. Marshals(NoHeader) /\ JSON(NoHeader) = NoHeader
  BY DEF Marshals, JSON, NoHeader, JSONValue, Absent
<1>9. marshals(d)
  BY <1>3, <1>5, <1>8 DEF marshals
<1>10. /\ j \in Docs /\ j.form = "general" /\ j.content = content /\ j.protected = P
       /\ j.aad = Empty /\ j.unprotected = NoHeader
       /\ Len(j.recipients) = 1
       /\ j.recipients[1].encrypted_key = e.encrypted_key
       /\ j.recipients[1].header = NoHeader
  BY <1>3, <1>5, <1>8, ToJSONType
<1>11. j.recipients = list
  <2>1. j.recipients \in Seq(Entries)
    BY <1>10 DEF Docs
  <2>2. j.recipients[1] \in Entries
    BY <1>10, <2>1
  <2>3. j.recipients[1] = e
    BY <1>10, <2>2 DEF Entries
  <2> QED BY <1>2, <1>3, <1>10, <2>1, <2>3
<1>12. j.parts = NoDoc.parts
  BY <1>5 DEF toJSON, Docs
<1>13. \A x, y \in Docs :
          /\ x.form = y.form /\ x.protected = y.protected /\ x.unprotected = y.unprotected
          /\ x.recipients = y.recipients /\ x.aad = y.aad /\ x.content = y.content
          /\ x.parts = y.parts
          => x = y
  BY DEF Docs
<1> HIDE DEF j
<1>14. j = g
  BY <1>7, <1>10, <1>11, <1>12, <1>13
<1> QED BY <1>9, <1>14 DEF j, g, m, d, list, P

\* Encrypt makes a document when each of its steps succeeds.
LEMMA EncryptDoes ==
  ASSUME NEW plaintext, NEW key, NEW opts, NEW draws, NEW doc,
         EncryptsAs(doc, plaintext, key, opts, draws)
  PROVE  Encrypt(plaintext, key, opts, draws) = [err |-> nil, doc |-> doc]
<1> DEFINE enc    == chooseEnc(opts)
           p      == prepare(key, opts.KeyID, opts.Algorithm, enc)
           header == compactHeader(key, opts, p.alg)
           made   == encryptKey(p.alg, enc, p.key, header, NoSecret, draws)
           s      == seal(plaintext, made.header, enc, made.cek, Empty)
           d      == [NoDoc EXCEPT !.form = "compact", !.protected = s.content.protected,
                                   !.recipients = <<entry(NoHeader, made.key)>>,
                                   !.content = s.content]
           r5     == [err |-> nil, doc |-> d]
           r4     == orNotMade(s.err, r5)
           r3     == orNotMade(made.err, r4)
           r2     == orNotMade(checkCriticalProduced(header), r3)
           r1     == orNotMade(p.err, r2)
           r0     == orNotMade(lookupEnc(enc), r1)
           r      == Encrypt(plaintext, key, opts, draws)
<1>1. r = IF opts.Unprotected # NoHeader THEN notMade("ErrInvalidHeader")
          ELSE IF opts.AAD # Empty THEN notMade("ErrInvalidHeader") ELSE r0
  BY DEF Encrypt
<1>2. /\ lookupEnc(enc) = nil /\ p.err = nil /\ checkCriticalProduced(header) = nil
      /\ made.err = nil /\ s.err = nil /\ opts.Unprotected = NoHeader /\ opts.AAD = Empty
      /\ doc = d
  BY DEF EncryptsAs
<1>3. \A x : orNotMade(nil, x) = x
  BY DEF orNotMade
<1> HIDE DEF r, r0
<1>4. r = r0
  BY <1>1, <1>2
<1> HIDE DEF r1
<1>5. r0 = r1
  BY <1>2, <1>3 DEF r0
<1> HIDE DEF r2
<1>6. r1 = r2
  BY <1>2, <1>3 DEF r1
<1> HIDE DEF r3
<1>7. r2 = r3
  BY <1>2, <1>3 DEF r2
<1> HIDE DEF r4
<1>8. r3 = r4
  BY <1>2, <1>3 DEF r3
<1> HIDE DEF r5
<1>9. r4 = r5
  BY <1>2, <1>3 DEF r4
<1> HIDE DEF d
<1>10. r5 = [err |-> nil, doc |-> doc]
  BY <1>2 DEF r5
<1> QED BY <1>4, <1>5, <1>6, <1>7, <1>8, <1>9, <1>10 DEF r

\* So does an iteration of EncryptJSONMulti's loop,
LEMMA EncryptRecipientDoes ==
  ASSUME NEW r, NEW count, NEW enc, NEW protected, NEW cek, NEW draws, NEW x,
         EncryptsRecipientAs(x, r, count, enc, protected, cek, draws)
  PROVE  encryptRecipient(r, count, enc, protected, cek, draws) = x
<1> DEFINE p      == prepare(r.Key, r.KeyID, r.Algorithm, enc)
           own    == recipientHeader(r, p.alg, protected)
           folded == IF count = 1 THEN fold(own, protected) ELSE [err |-> nil, hdr |-> own]
           y      == encryptRecipient(r, count, enc, protected, cek, draws)
<1>1. /\ p.err = nil /\ folded.err = nil /\ ~(derivesCEK(p.alg) /\ count > 1)
      /\ x = encryptKey(p.alg, enc, p.key, folded.hdr, cek, draws)
  BY DEF EncryptsRecipientAs
<1> HIDE DEF p, own, folded
<1>2. y = IF p.err # nil THEN noKey(p.err)
          ELSE IF derivesCEK(p.alg) /\ count > 1 THEN noKey("ErrUnsupportedAlgorithm")
          ELSE IF folded.err # nil THEN noKey(folded.err)
          ELSE encryptKey(p.alg, enc, p.key, folded.hdr, cek, draws)
  BY DEF encryptRecipient, p, own, folded
<1> HIDE DEF y
<1>3. y = x
  BY <1>1, <1>2
<1> QED BY <1>3 DEF y

\* and what follows the loop.
LEMMA FinishDoes ==
  ASSUME NEW c, NEW protected, NEW cek, NEW entries, NEW doc,
         FinishesAs(doc, c, protected, cek, entries),
         NEW s, s = seal(c.plaintext, protected, chooseEnc(c.opts), cek, EncodeSegment(c.opts.AAD)),
         marshals(Sealed(c, s.content, entries))
  PROVE  finish(c, protected, cek, entries) = [err |-> nil, doc |-> doc]
<1> DEFINE d  == Sealed(c, s.content, entries)
           r2 == IF ~marshals(d) THEN notMade("json") ELSE [err |-> nil, doc |-> toJSON(d)]
           r1 == orNotMade(s.err, r2)
           r0 == orNotMade(finishErr(protected, c.opts.Unprotected, entries), r1)
           r  == finish(c, protected, cek, entries)
<1>1. r = r0
  BY DEF finish, Sealed
<1>2. /\ finishErr(protected, c.opts.Unprotected, entries) = nil /\ s.err = nil
      /\ doc = toJSON(d)
  BY DEF FinishesAs
<1>3. \A x : orNotMade(nil, x) = x
  BY DEF orNotMade
<1>4. marshals(d)
  OBVIOUS
<1> HIDE DEF r, r1
<1>5. r0 = r1
  BY <1>2, <1>3
<1> HIDE DEF r2
<1>6. r1 = r2
  BY <1>2, <1>3 DEF r1
<1> HIDE DEF d
<1>7. r2 = [err |-> nil, doc |-> doc]
  BY <1>2, <1>4 DEF r2
<1> QED BY <1>1, <1>5, <1>6, <1>7 DEF r

\* The key management algorithm of a single-recipient call, the header it
\* reads, and what it and the content encryption make.
SingleKey(c)    == prepare(c.recipients[1].Key, c.opts.KeyID, c.opts.Algorithm, chooseEnc(c.opts))
SingleHeader(c) == compactHeader(c.recipients[1].Key, c.opts, SingleKey(c).alg)
SingleMade(c, draws) ==
    encryptKey(SingleKey(c).alg, chooseEnc(c.opts), SingleKey(c).key, SingleHeader(c), NoSecret, draws)
SingleSeal(c, draws) ==
    seal(c.plaintext, SingleMade(c, draws).header, chooseEnc(c.opts), SingleMade(c, draws).cek, Empty)

\* The conditions under which either producer makes a document of it.
BothAccept(c, draws) ==
    /\ c.opts.Unprotected = NoHeader /\ c.opts.AAD = Empty
    /\ lookupEnc(chooseEnc(c.opts)) = nil /\ SingleKey(c).err = nil
    /\ checkCriticalProduced(SingleHeader(c)) = nil
    /\ SingleMade(c, draws).err = nil /\ SingleSeal(c, draws).err = nil

\* Both read the same header, and no parameter but key management's own is
\* written into it.
LEMMA SingleMadeType ==
  ASSUME NEW c \in Call, SingleCall(c), NEW draws, draws.cek \in Symbol, draws.own \in Symbol,
         lookupEnc(chooseEnc(c.opts)) = nil, SingleKey(c).err = nil
  PROVE  /\ SingleKey(c).alg \in Symbol /\ SingleHeader(c) \in Headers
         /\ SingleMade(c, draws).err = nil =>
              LET made == SingleMade(c, draws)
              IN  /\ made.cek \in Secrets /\ made.key \in EncryptedKeys /\ made.header \in Headers
                  /\ checkCriticalProduced(made.header) = checkCriticalProduced(SingleHeader(c))
<1> DEFINE key    == c.recipients[1].Key
           opts   == c.opts
           enc    == chooseEnc(opts)
           p      == SingleKey(c)
           header == SingleHeader(c)
           made   == SingleMade(c, draws)
<1>1. /\ 1 \in 1..Len(c.recipients) /\ opts \in EncryptOptions
  BY DEF SingleCall, Call
<1>2. key \in KeyArgs
  BY <1>1, AddressedType DEF Recipient
<1>3. enc \in DOMAIN contentEncs /\ enc \in Symbol
  BY LookupEnc, EncType
<1>4. Prepared(p, key, opts.KeyID, enc)
  BY <1>2, PrepareSucceeds DEF SingleKey
<1> HIDE DEF p
<1>5. p.alg \in DOMAIN keyMgmts /\ p.alg \in Symbol /\ p.key \in GoKeys
  BY <1>4 DEF Prepared
<1>6. Stamped(header, baseHeader(opts), p.alg)
  BY <1>1, <1>2, <1>5, CompactHeaderType DEF SingleHeader, p
<1>7. header \in Headers
  BY <1>6 DEF Stamped
<1> HIDE DEF header
<1>8. ASSUME made.err = nil
      PROVE  /\ made.cek \in Secrets /\ made.key \in EncryptedKeys /\ made.header \in Headers
             /\ checkCriticalProduced(made.header) = checkCriticalProduced(header)
  <2>1. made = encryptKey(p.alg, enc, p.key, header, NoSecret, draws)
    BY DEF SingleMade, p, header
  <2> HIDE DEF made, enc
  <2>2. KeyMade(made, p.key.pair, p.alg, enc, header, NoSecret, draws)
    BY <1>3, <1>5, <1>7, <1>8, <2>1, NoSecretType, EncryptKeyMade
  <2> QED BY <1>7, <2>2, CriticalUnchanged DEF KeyMade
<1> QED BY <1>5, <1>7, <1>8 DEF p, header, made

\* Encrypt accepts no other call,
LEMMA EncryptAccepts ==
  ASSUME NEW c, NEW draws,
         Encrypt(c.plaintext, c.recipients[1].Key, c.opts, draws).err = nil
  PROVE  BothAccept(c, draws)
<1> DEFINE doc == Encrypt(c.plaintext, c.recipients[1].Key, c.opts, draws).doc
<1>1. EncryptsAs(doc, c.plaintext, c.recipients[1].Key, c.opts, draws)
  BY EncryptParts
<1> HIDE DEF doc
<1> QED BY <1>1 DEF EncryptsAs, BothAccept, SingleKey, SingleHeader, SingleMade, SingleSeal

\* and the loop of EncryptJSONMulti reads the same header as Encrypt.
LEMMA SingleIteration ==
  ASSUME NEW c \in Call, SingleCall(c),
         ~Has(copyHeader(c.opts.Header, c.opts.AdditionalHeaders), "alg"),
         NEW draws, draws.cek \in Symbol, draws.own \in Symbol,
         lookupEnc(chooseEnc(c.opts)) = nil, SingleKey(c).err = nil
  PROVE  encryptRecipient(c.recipients[1], 1, chooseEnc(c.opts), sharedHeader(c), NoSecret, draws)
           = SingleMade(c, draws)
<1> DEFINE r   == c.recipients[1]
           enc == chooseEnc(c.opts)
           P   == sharedHeader(c)
           p   == SingleKey(c)
           own == recipientHeader(r, p.alg, P)
           x   == SingleMade(c, draws)
<1>1. r.KeyID = c.opts.KeyID /\ r.Algorithm = c.opts.Algorithm
  BY DEF SingleCall
<1>2. prepare(r.Key, r.KeyID, r.Algorithm, enc) = p
  BY <1>1 DEF SingleKey
<1>3. p.alg \in Symbol
  BY SingleMadeType
<1>4. fold(own, P) = [err |-> nil, hdr |-> compactHeader(r.Key, c.opts, p.alg)]
  BY <1>3, FoldIsCompact
<1>5. fold(own, P).err = nil /\ fold(own, P).hdr = SingleHeader(c)
  BY <1>4 DEF SingleHeader
<1>6. ~(1 > 1)
  OBVIOUS
<1>7. x = encryptKey(p.alg, enc, p.key, fold(own, P).hdr, NoSecret, draws)
  BY <1>5 DEF SingleMade
<1> HIDE DEF p, P, enc, r, x
<1>8. EncryptsRecipientAs(x, r, 1, enc, P, NoSecret, draws)
  BY <1>2, <1>5, <1>6, <1>7 DEF EncryptsRecipientAs, p
<1>9. encryptRecipient(r, 1, enc, P, NoSecret, draws) = x
  BY <1>8, EncryptRecipientDoes
<1> QED BY <1>9 DEF r, enc, P, x

\* The single entry without parameters of its own.
LEMMA SingleEntry ==
  ASSUME NEW key \in EncryptedKeys
  PROVE  LET e == entry(NoHeader, key)
         IN  e \in Entries /\ e.header = NoHeader
  BY NoHeaderType DEF entry, Entries

(***************************************************************************)
(* What both accept they make alike.                                       *)
(***************************************************************************)
LEMMA BothMake ==
  ASSUME NEW c \in Call, SingleCall(c),
         ~Has(copyHeader(c.opts.Header, c.opts.AdditionalHeaders), "alg"),
         NEW draws, draws.cek \in Symbol, draws.own \in Symbol, BothAccept(c, draws)
  PROVE  SameDocument(Encrypt(c.plaintext, c.recipients[1].Key, c.opts, draws),
                      encryptJSON(c, draws))
<1> DEFINE key  == c.recipients[1].Key
           opts == c.opts
           enc  == chooseEnc(opts)
           made == SingleMade(c, draws)
           s    == SingleSeal(c, draws)
           e    == entry(NoHeader, made.key)
           m    == CompactOf(s.content, e)
           d    == Sealed(c, s.content, <<e>>)
           C    == Encrypt(c.plaintext, key, opts, draws)
           J    == encryptJSON(c, draws)
<1>1. /\ opts.Unprotected = NoHeader /\ opts.AAD = Empty
      /\ lookupEnc(enc) = nil /\ SingleKey(c).err = nil
      /\ checkCriticalProduced(SingleHeader(c)) = nil /\ made.err = nil /\ s.err = nil
  BY DEF BothAccept
<1>2. /\ made.cek \in Secrets /\ made.key \in EncryptedKeys /\ made.header \in Headers
      /\ checkCriticalProduced(made.header) = nil
  BY <1>1, SingleMadeType
<1>3. opts \in EncryptOptions /\ c.plaintext \in Text /\ Len(c.recipients) = 1
      /\ c.recipients[1].Header = NoHeader
  BY DEF SingleCall, Call
<1>4. e \in Entries /\ e.header = NoHeader
  BY <1>2, SingleEntry
<1>5. C = [err |-> nil, doc |-> m]
  <2>1. EncryptsAs(m, c.plaintext, key, opts, draws)
    <3> HIDE DEF m
    <3>1. m = [NoDoc EXCEPT !.form = "compact", !.protected = s.content.protected,
                            !.recipients = <<entry(NoHeader, made.key)>>, !.content = s.content]
      BY DEF m, CompactOf
    <3> QED BY <1>1, <3>1
            DEF EncryptsAs, SingleKey, SingleHeader, SingleMade, SingleSeal
  <2> HIDE DEF m
  <2> QED BY <2>1, EncryptDoes
<1>6. EncodeSegment(opts.AAD) = Empty
  BY <1>1 DEF EncodeSegment
<1>7. s.content \in Contents
  <2> HIDE DEF made
  <2> QED BY <1>1, <1>2, <1>3, EmptyType, ChooseEncType, SealSucceeds DEF SingleSeal, made
<1> HIDE DEF e, s
<1>8. marshals(d) /\ toJSON(d) = [m EXCEPT !.form = "general"]
  BY <1>1, <1>3, <1>4, <1>7, SameWire
<1> HIDE DEF m
<1>9. finishErr(made.header, opts.Unprotected, <<e>>) = nil
  <2>1. mergeThree(made.header, NoHeader, NoHeader).err = nil
    BY <1>2, MergeNothing
  <2>2. {i \in 1..Len(<<e>>) :
           mergeThree(made.header, opts.Unprotected, <<e>>[i].header).err # nil} = {}
    BY <1>1, <1>4, <2>1
  <2> HIDE DEF made
  <2> QED BY <1>2, <2>2 DEF finishErr, firstErr
<1>10. finish(c, made.header, made.cek, <<e>>) = [err |-> nil, doc |-> toJSON(d)]
  <2>1. s = seal(c.plaintext, made.header, enc, made.cek, EncodeSegment(opts.AAD))
    BY <1>6 DEF s, SingleSeal
  <2> HIDE DEF made
  <2>2. FinishesAs(toJSON(d), c, made.header, made.cek, <<e>>)
    BY <1>1, <1>9, <2>1 DEF FinishesAs
  <2> QED BY <1>8, <2>1, <2>2, FinishDoes
<1>11. multiErr(c) = nil
  <2>1. ~Has(NoHeader, "zip")
    BY DEF Has, NoHeader
  <2>2. \A i \in 1..Len(c.recipients) : c.recipients[i].Header = NoHeader
    BY <1>3
  <2> QED BY <1>1, <2>1, <2>2 DEF multiErr
<1>12. J = [err |-> nil, doc |-> toJSON(d)]
  <2> DEFINE x   == encryptRecipient(c.recipients[1], 1, enc, sharedHeader(c), NoSecret, draws)
             fin == finish(c, x.header, x.cek, <<entry(NoHeader, x.key)>>)
  <2>1. x = made
    BY <1>1, SingleIteration
  <2>2. J = orNotMade(multiErr(c), orNotMade(x.err, fin))
    BY DEF encryptJSON
  <2> HIDE DEF x
  <2>3. fin = [err |-> nil, doc |-> toJSON(d)]
    BY <1>10, <2>1 DEF e
  <2> HIDE DEF fin, J, made, d
  <2> QED BY <1>1, <1>11, <2>1, <2>2, <2>3 DEF orNotMade
<1> HIDE DEF C, J, d
<1>13. SameDocument(C, J)
  BY <1>5, <1>8, <1>12 DEF SameDocument
<1> QED BY <1>13 DEF C, J

\* EncryptJSON accepts no other call.
LEMMA EncryptJSONAccepts ==
  ASSUME NEW c \in Call, SingleCall(c), c.opts.Unprotected = NoHeader, c.opts.AAD = Empty,
         ~Has(copyHeader(c.opts.Header, c.opts.AdditionalHeaders), "alg"),
         NEW draws, draws.cek \in Symbol, draws.own \in Symbol,
         encryptJSON(c, draws).err = nil
  PROVE  BothAccept(c, draws)
<1> DEFINE r    == c.recipients[1]
           opts == c.opts
           enc  == chooseEnc(opts)
           P    == sharedHeader(c)
           x    == encryptRecipient(r, 1, enc, P, NoSecret, draws)
           list == <<entry(NoHeader, x.key)>>
           fin  == finish(c, x.header, x.cek, list)
           rest == orNotMade(x.err, fin)
           J    == encryptJSON(c, draws)
           made == SingleMade(c, draws)
<1>1. J = orNotMade(multiErr(c), rest) /\ J.err = nil
  BY DEF encryptJSON
<1> HIDE DEF J, rest
<1>2. multiErr(c) = nil /\ J = rest
  BY <1>1, OrNotMadeSucceeds
<1> HIDE DEF fin
<1>3. x.err = nil /\ fin.err = nil
  BY <1>1, <1>2, OrNotMadeSucceeds DEF rest
<1>4. lookupEnc(enc) = nil
  <2>1. "ErrInvalidHeader" # nil
    BY DEF nil
  <2> QED BY <1>2, <2>1 DEF multiErr
<1>5. SingleKey(c).err = nil
  <2>1. EncryptsRecipientAs(x, r, 1, enc, P, NoSecret, draws)
    BY <1>3, EncryptRecipientParts
  <2>2. r.KeyID = opts.KeyID /\ r.Algorithm = opts.Algorithm
    BY DEF SingleCall
  <2> HIDE DEF x, P, enc
  <2>3. prepare(r.Key, r.KeyID, r.Algorithm, enc).err = nil
    BY <2>1 DEF EncryptsRecipientAs
  <2> QED BY <2>2, <2>3 DEF SingleKey, enc
<1>6. x = made
  BY <1>4, <1>5, SingleIteration
<1>7. FinishesAs(fin.doc, c, x.header, x.cek, list)
  <2> HIDE DEF x, list
  <2> QED BY <1>3, FinishParts DEF fin
<1> HIDE DEF x, list
<1>8. /\ finishErr(made.header, opts.Unprotected, list) = nil
      /\ seal(c.plaintext, made.header, enc, made.cek, EncodeSegment(opts.AAD)).err = nil
  BY <1>6, <1>7 DEF FinishesAs
<1>9. checkCriticalProduced(made.header) = nil
  BY <1>8 DEF finishErr, firstErr
<1>10. checkCriticalProduced(SingleHeader(c)) = nil
  BY <1>3, <1>4, <1>5, <1>6, <1>9, SingleMadeType
<1>11. SingleSeal(c, draws).err = nil
  <2>1. EncodeSegment(opts.AAD) = Empty
    BY DEF EncodeSegment
  <2> QED BY <1>8, <2>1 DEF SingleSeal
<1> QED BY <1>3, <1>4, <1>5, <1>6, <1>10, <1>11 DEF BothAccept

-----------------------------------------------------------------------------
(* decryptKey on what encryptKey made.                                     *)

\* ek wraps cek for the key own the way alg does, with what header h says of
\* it: by an RSA encryption,
WrapsRSA(alg, enc, own, h, cek, ek) ==
    ek = b64Key(wrapped(alg, [NoSecret EXCEPT !.from = "key", !.id = own.pair], "", cek))

\* under a secret agreed with an ephemeral key, or by being that secret,
WrapsECDH(alg, enc, own, h, cek, ek) ==
    LET apu == headerBytesOptional(h, "apu")
        apv == headerBytesOptional(h, "apv")
        e   == h["epk"].items[2]
        z   == ecdhDerive(own.pair, e, alg, enc, apu.out, apv.out)
    IN  /\ asECDHPublicErr(own) = nil /\ apu.err = nil /\ apv.err = nil
        /\ h["epk"] = epkMap("public", e, own.crv)
        /\ IF derivesCEK(alg) THEN cek = z /\ ek = NoKey
           ELSE ek = b64Key(wrapped("aeskw", z, "", cek))

\* under a key derived from a password,
WrapsPBES2(alg, enc, own, h, cek, ek) ==
    LET salt == headerBytes(h, "p2s")
        z    == PBKDF2(own.pair, alg, salt.out, headerInt(h["p2c"]).int)
    IN  /\ passwordErr(own) = nil
        /\ Has(h, "p2c") /\ p2cErr(h["p2c"]) = nil /\ p2sErr(salt) = nil
        /\ ek = b64Key(wrapped("aeskw", z, "", cek))

SymmetricSize(alg, enc) ==
    IF keyMgmts[alg].kind = "dir" THEN contentEncs[enc].keySize ELSE wrapKeySize(alg)

\* not at all, because the key is the CEK,
WrapsDir(alg, enc, own, h, cek, ek) ==
    symmetricKeyErr(own, SymmetricSize(alg, enc)) = nil /\ cek = secretOf(own) /\ ek = NoKey

\* by AES key wrap,
WrapsKW(alg, enc, own, h, cek, ek) ==
    /\ symmetricKeyErr(own, SymmetricSize(alg, enc)) = nil
    /\ ek = b64Key(wrapped("aeskw", secretOf(own), "", cek))

\* or by AES-GCM.
WrapsGCM(alg, enc, own, h, cek, ek) ==
    LET iv  == headerBytes(h, "iv")
        tag == headerBytes(h, "tag")
    IN  /\ symmetricKeyErr(own, SymmetricSize(alg, enc)) = nil
        /\ iv.err = nil /\ tag.err = nil /\ tag.out = iv.out
        /\ ek = b64Key(wrapped("gcm", secretOf(own), iv.out, cek))

Wraps(alg, enc, own, h, cek, ek) ==
    LET kind == keyMgmts[alg].kind
    IN  /\ kind = "rsa"   => WrapsRSA(alg, enc, own, h, cek, ek)
        /\ kind = "ecdh"  => WrapsECDH(alg, enc, own, h, cek, ek)
        /\ kind = "pbes2" => WrapsPBES2(alg, enc, own, h, cek, ek)
        /\ kind = "dir"   => WrapsDir(alg, enc, own, h, cek, ek)
        /\ kind = "kw"    => WrapsKW(alg, enc, own, h, cek, ek)
        /\ kind = "gcmkw" => WrapsGCM(alg, enc, own, h, cek, ek)

AgreedSize(alg, enc) ==
    IF keyMgmts[alg].wrapBits = 0 THEN contentEncs[enc].keySize ELSE wrapKeySize(alg)

\* encryptKeyECDH.
LEMMA EncryptKeyECDHWraps ==
  ASSUME NEW alg, NEW enc, NEW key, NEW header \in Headers, NEW cek, NEW own,
         encryptKeyECDH(alg, enc, key, header, cek, own).err = nil
  PROVE  LET r == encryptKeyECDH(alg, enc, key, header, cek, own)
         IN  /\ WrapsECDH(alg, enc, key, r.header, r.cek, r.key)
             /\ IF derivesCEK(alg) THEN r.cek.size = AgreedSize(alg, enc) ELSE r.cek = cek
<1> DEFINE r   == encryptKeyECDH(alg, enc, key, header, cek, own)
           epk == epkMap("public", own, key.crv)
           hdr == With(header, "epk", epk)
           apu == headerBytesOptional(hdr, "apu")
           apv == headerBytesOptional(hdr, "apv")
           z   == ecdhDerive(key.pair, own, alg, enc, apu.out, apv.out)
<1>1. \A e : noKey(e).err = e
  BY Zenon DEF noKey
<1>2. "epk" \in Name
  BY KeyMgmtAssumption
<1>3. hdr["epk"] = epk
  BY <1>2, WithMember
<1>4. epk.items[2] = own
  BY DEF epkMap
<1>5. /\ asECDHPublicErr(key) = nil /\ apu.err = nil /\ apv.err = nil
      /\ r = IF derivesCEK(alg) THEN [err |-> nil, cek |-> z, key |-> NoKey, header |-> hdr]
             ELSE [err |-> nil, cek |-> cek, header |-> hdr,
                   key |-> b64Key(wrapped("aeskw", z, "", cek))]
  <2>1. asECDHPublicErr(key) = nil /\ apu.err = nil /\ apv.err = nil
    BY <1>1 DEF encryptKeyECDH
  <2>2. r = IF derivesCEK(alg) THEN [err |-> nil, cek |-> z, key |-> NoKey, header |-> hdr]
            ELSE [err |-> nil, cek |-> cek, header |-> hdr,
                  key |-> b64Key(wrapped("aeskw", z, "", cek))]
    BY DEF encryptKeyECDH, noKey, nil
  <2> QED BY <2>1, <2>2
<1> HIDE DEF r, hdr, epk, apu, apv, z
<1>6. r.header = hdr
  BY <1>5
<1>7. IF derivesCEK(alg) THEN r.cek = z /\ r.key = NoKey
      ELSE r.cek = cek /\ r.key = b64Key(wrapped("aeskw", z, "", cek))
  BY <1>5
<1>8. /\ headerBytesOptional(r.header, "apu") = apu /\ headerBytesOptional(r.header, "apv") = apv
      /\ r.header["epk"] = epkMap("public", own, key.crv) /\ r.header["epk"].items[2] = own
  BY <1>3, <1>4, <1>6 DEF apu, apv, epk
<1>9. WrapsECDH(alg, enc, key, r.header, r.cek, r.key)
  BY <1>5, <1>7, <1>8, Zenon DEF WrapsECDH, z
<1>10. z.size = AgreedSize(alg, enc)
  BY DEF z, ecdhDerive, AgreedSize
<1> QED BY <1>7, <1>9, <1>10 DEF r

\* Int32 writes a number that headerInt reads.
LEMMA Int32Reads ==
  ASSUME NEW n, \E s \in DOMAIN Number : Number[s] = n
  PROVE  headerInt(Int32(n)) = [err |-> nil, int |-> n] /\ Int32(n) # Absent
<1> DEFINE s == CHOOSE t \in DOMAIN Number : Number[t] = n
<1>1. s \in DOMAIN Number /\ Number[s] = n
  OBVIOUS
<1> HIDE DEF s
<1>2. Int32(n) = [go |-> "int", items |-> <<s>>]
  BY DEF Int32, s
<1> QED BY <1>1, <1>2 DEF headerInt, Absent

\* The salt and the count are checked alike on both sides.
LEMMA CountChecksAgree ==
  ASSUME NEW v, p2cProducedErr(v) = nil, NEW w, headerInt(w) = headerInt(v)
  PROVE  p2cErr(w) = nil /\ headerInt(v).err = nil
<1>1. headerInt(v).err = nil
  BY DEF p2cProducedErr, nil
<1>2. headerInt(v).int \in Int
  BY <1>1, HeaderIntType
<1>3. ~(headerInt(v).int < MinPBES2Count \/ headerInt(v).int > MaxPBES2Count)
  BY <1>1 DEF p2cProducedErr, nil
<1>4. MinPBES2Count \in Int /\ MaxPBES2Count \in Int
  BY SMT DEF MinPBES2Count, MaxPBES2Count
<1>5. headerInt(v).int \in MinPBES2Count..MaxPBES2Count
  BY <1>2, <1>3, <1>4
<1> QED BY <1>1, <1>5 DEF p2cErr

\* encryptKeyPBES2.
PBES2Wraps(r, alg, enc, key, cek) ==
    WrapsPBES2(alg, enc, key, r.header, r.cek, r.key) /\ r.cek = cek

LEMMA EncryptKeyPBES2Wraps ==
  ASSUME NEW alg, NEW enc, NEW key, NEW header \in Headers, NEW cek,
         NEW own \in DOMAIN SegLen,
         encryptKeyPBES2(alg, key, header, cek, own).err = nil
  PROVE  PBES2Wraps(encryptKeyPBES2(alg, key, header, cek, own), alg, enc, key, cek)
<1> DEFINE r    == encryptKeyPBES2(alg, key, header, cek, own)
           p2c  == IF Has(header, "p2c") THEN header["p2c"] ELSE Int32(DefaultPBES2Count)
           salt == IF Has(header, "p2s") THEN headerBytes(header, "p2s")
                   ELSE [err |-> nil, out |-> own]
           n    == headerInt(p2c).int
           one  == With(header, "p2s", Str(salt.out))
           hdr  == With(one, "p2c", Int32(n))
           z    == PBKDF2(key.pair, alg, salt.out, n)
<1>1. \A e : noKey(e).err = e
  BY Zenon DEF noKey
<1>2. /\ passwordErr(key) = nil /\ p2cProducedErr(p2c) = nil /\ p2sErr(salt) = nil
      /\ r = [err |-> nil, cek |-> cek, header |-> hdr,
              key |-> b64Key(wrapped("aeskw", z, "", cek))]
  <2>1. passwordErr(key) = nil /\ p2cProducedErr(p2c) = nil /\ p2sErr(salt) = nil
    BY <1>1 DEF encryptKeyPBES2
  <2>2. r = [err |-> nil, cek |-> cek, header |-> hdr,
             key |-> b64Key(wrapped("aeskw", z, "", cek))]
    BY DEF encryptKeyPBES2, noKey, nil
  <2> QED BY <2>1, <2>2
<1> HIDE DEF r
<1>3. headerInt(p2c).err = nil
  BY <1>2, CountChecksAgree
<1>4. salt.err = nil
  BY <1>2 DEF p2sErr, nil
<1>5. salt.out \in DOMAIN SegLen
  <2>1. CASE Has(header, "p2s")
    BY <1>4, <2>1 DEF headerBytes, nil
  <2>2. CASE ~Has(header, "p2s")
    BY <2>2
  <2> QED BY <2>1, <2>2
<1>51. salt = [err |-> nil, out |-> salt.out]
  BY <1>4 DEF salt, headerBytes
<1> HIDE DEF p2c, salt
<1>6. "p2s" \in Name /\ "p2c" \in Name /\ "p2s" # "p2c"
  BY KeyMgmtAssumption
<1>7. n \in Int /\ \E s \in DOMAIN Number : Number[s] = n
  BY <1>3, HeaderIntType
<1> HIDE DEF n
<1>8. one \in Headers /\ one["p2s"] = Str(salt.out)
  <2>1. salt.out \in Symbol
    BY <1>5, SegTexts
  <2>2. Str(salt.out) \in Value
    BY <2>1, StrType
  <2> QED BY <1>6, <2>2, WithType, WithMember
<1>9. hdr["p2c"] = Int32(n) /\ hdr["p2s"] = Str(salt.out)
  BY <1>6, <1>8, WithMember
<1> HIDE DEF one, hdr, z
<1>10. r.header = hdr /\ r.cek = cek /\ r.key = b64Key(wrapped("aeskw", z, "", cek))
  BY <1>2
<1>11. headerInt(hdr["p2c"]) = [err |-> nil, int |-> n] /\ Has(hdr, "p2c")
  BY <1>6, <1>7, <1>9, Int32Reads DEF Has
<1>12. headerInt(p2c) = [err |-> nil, int |-> n]
  BY <1>3 DEF headerInt, n, nil
<1>13. p2cErr(hdr["p2c"]) = nil
  BY <1>2, <1>11, <1>12, CountChecksAgree
<1>14. headerBytes(hdr, "p2s") = [err |-> nil, out |-> salt.out]
  BY <1>5, <1>9 DEF headerBytes, Str
<1>15. p2sErr(headerBytes(hdr, "p2s")) = nil
  BY <1>2, <1>51, <1>14
<1>16. z = PBKDF2(key.pair, alg, headerBytes(hdr, "p2s").out, headerInt(hdr["p2c"]).int)
  BY <1>11, <1>14 DEF z
<1>17. WrapsPBES2(alg, enc, key, hdr, cek, b64Key(wrapped("aeskw", z, "", cek)))
  BY <1>2, <1>11, <1>13, <1>15, <1>16, Zenon DEF WrapsPBES2
<1> QED BY <1>10, <1>17 DEF r, PBES2Wraps

\* The key that wraps kinds of other algorithms say nothing about a kind.
LEMMA WrapsOfKind ==
  ASSUME NEW alg, NEW enc, NEW own, NEW h, NEW cek, NEW ek,
         \/ keyMgmts[alg].kind = "rsa" /\ WrapsRSA(alg, enc, own, h, cek, ek)
         \/ keyMgmts[alg].kind = "ecdh" /\ WrapsECDH(alg, enc, own, h, cek, ek)
         \/ keyMgmts[alg].kind = "pbes2" /\ WrapsPBES2(alg, enc, own, h, cek, ek)
         \/ keyMgmts[alg].kind = "dir" /\ WrapsDir(alg, enc, own, h, cek, ek)
         \/ keyMgmts[alg].kind = "kw" /\ WrapsKW(alg, enc, own, h, cek, ek)
         \/ keyMgmts[alg].kind = "gcmkw" /\ WrapsGCM(alg, enc, own, h, cek, ek)
  PROVE  Wraps(alg, enc, own, h, cek, ek)
BY DEF Wraps

KeyWraps(r, alg, enc, key) ==
    /\ Wraps(alg, enc, key, r.header, r.cek, r.key)
    /\ r.cek.size = contentEncs[enc].keySize

(***************************************************************************)
(* What encryptKey makes wraps the CEK it returns, which has the length    *)
(* that the content encryption needs.                                      *)
(***************************************************************************)
LEMMA EncryptKeyWraps ==
  ASSUME NEW alg \in DOMAIN keyMgmts, NEW enc \in DOMAIN contentEncs, NEW key \in GoKeys,
         NEW header \in Headers, NEW given, NEW draws, draws.own \in DOMAIN SegLen,
         given # NoSecret => given.size = contentEncs[enc].keySize,
         encryptKey(alg, enc, key, header, given, draws).err = nil
  PROVE  KeyWraps(encryptKey(alg, enc, key, header, given, draws), alg, enc, key)
<1> DEFINE km   == keyMgmts[alg]
           r    == encryptKey(alg, enc, key, header, given, draws)
           cek  == IF given = NoSecret /\ ~derivesCEK(alg)
                   THEN newCEK(draws.cek, contentEncs[enc].keySize) ELSE given
           done(w) == [err |-> nil, cek |-> cek, key |-> b64Key(w), header |-> header]
           size == SymmetricSize(alg, enc)
           bad  == symmetricKeyErr(key, size)
<1>1. derivesCEK(alg) => given = NoSecret
  BY DEF encryptKey, noKey, nil
<1>2. ~derivesCEK(alg) => cek.size = contentEncs[enc].keySize
  BY DEF newCEK, NoSecret
<1>3. km.kind \in MgmtKinds
  BY MgmtType
<1>4. km.kind \in {"rsa", "pbes2", "kw", "gcmkw"} => ~derivesCEK(alg)
  BY DEF derivesCEK, keyMgmt
<1> HIDE DEF cek
<1>5. \A e : noKey(e).err = e
  BY Zenon DEF noKey
<1>6. CASE km.kind = "ecdh"
  <2>1. r = encryptKeyECDH(alg, enc, key, header, cek, draws.own)
    BY <1>1, <1>6 DEF encryptKey, cek
  <2>2. derivesCEK(alg) => AgreedSize(alg, enc) = contentEncs[enc].keySize
    BY <1>6 DEF derivesCEK, keyMgmt, AgreedSize
  <2>3. /\ WrapsECDH(alg, enc, key, r.header, r.cek, r.key)
        /\ IF derivesCEK(alg) THEN r.cek.size = AgreedSize(alg, enc) ELSE r.cek = cek
    BY <2>1, EncryptKeyECDHWraps
  <2> HIDE DEF r, KeyWraps
  <2>4. Wraps(alg, enc, key, r.header, r.cek, r.key)
    BY <1>6, <2>3, WrapsOfKind
  <2> QED BY <1>2, <2>2, <2>3, <2>4 DEF r, KeyWraps
<1>7. CASE km.kind = "pbes2"
  <2>1. r = encryptKeyPBES2(alg, key, header, cek, draws.own)
    BY <1>1, <1>7 DEF encryptKey, cek
  <2> DEFINE x == encryptKeyPBES2(alg, key, header, cek, draws.own)
  <2>2. x.err = nil
    BY <2>1
  <2>3. PBES2Wraps(x, alg, enc, key, cek)
    BY <2>2, EncryptKeyPBES2Wraps
  <2> HIDE DEF r, x
  <2>4. WrapsPBES2(alg, enc, key, r.header, r.cek, r.key) /\ r.cek = cek
    BY <2>1, <2>3 DEF x, PBES2Wraps
  <2>5. Wraps(alg, enc, key, r.header, r.cek, r.key)
    BY <1>7, <2>4, WrapsOfKind
  <2> QED BY <1>2, <1>4, <1>7, <2>4, <2>5 DEF r, KeyWraps
<1>8. CASE km.kind = "rsa"
  <2> DEFINE z == [NoSecret EXCEPT !.from = "key", !.id = key.pair]
  <2>1. r = done(wrapped(alg, z, "", cek))
    BY <1>1, <1>8 DEF encryptKey, cek, noKey, nil
  <2> HIDE DEF z, r
  <2>2. r.cek = cek /\ r.key = b64Key(wrapped(alg, z, "", cek))
    BY <2>1
  <2>3. WrapsRSA(alg, enc, key, r.header, r.cek, r.key)
    BY <2>2, Zenon DEF WrapsRSA, z
  <2>4. Wraps(alg, enc, key, r.header, r.cek, r.key)
    BY <1>8, <2>3, WrapsOfKind
  <2> QED BY <1>2, <1>4, <1>8, <2>2, <2>4 DEF r, KeyWraps
<1>9. km.kind \in {"dir", "kw", "gcmkw"} => bad = nil
  BY <1>1, <1>5 DEF encryptKey, SymmetricSize
<1>10. CASE km.kind = "dir"
  <2>1. r = [err |-> nil, cek |-> secretOf(key), key |-> NoKey, header |-> header]
    BY <1>1, <1>10 DEF encryptKey, cek, noKey, nil
  <2> HIDE DEF r, KeyWraps
  <2>2. r.cek = secretOf(key) /\ r.key = NoKey
    BY <2>1
  <2>3. WrapsDir(alg, enc, key, r.header, r.cek, r.key)
    BY <1>9, <1>10, <2>2 DEF WrapsDir
  <2>4. Wraps(alg, enc, key, r.header, r.cek, r.key)
    BY <1>10, <2>3, WrapsOfKind
  <2>5. secretOf(key).size = contentEncs[enc].keySize
    BY <1>9, <1>10 DEF symmetricKeyErr, nil, SymmetricSize, secretOf, NoSecret
  <2> QED BY <2>2, <2>4, <2>5 DEF r, KeyWraps
<1>11. CASE km.kind = "kw"
  <2>1. r = done(wrapped("aeskw", secretOf(key), "", cek))
    BY <1>1, <1>11 DEF encryptKey, cek, noKey, nil
  <2> HIDE DEF r, KeyWraps
  <2>2. r.cek = cek /\ r.key = b64Key(wrapped("aeskw", secretOf(key), "", cek))
    BY <2>1
  <2>3. WrapsKW(alg, enc, key, r.header, r.cek, r.key)
    BY <1>9, <1>11, <2>2 DEF WrapsKW
  <2>4. Wraps(alg, enc, key, r.header, r.cek, r.key)
    BY <1>11, <2>3, WrapsOfKind
  <2> QED BY <1>2, <1>4, <1>11, <2>2, <2>4 DEF r, KeyWraps
<1>12. CASE km.kind = "gcmkw"
  <2> DEFINE own == draws.own
             w   == b64Key(wrapped("gcm", secretOf(key), own, cek))
             one == With(header, "iv", Str(own))
             hdr == With(one, "tag", Str(own))
  <2>1. r = [[err |-> nil, cek |-> cek, key |-> w, header |-> header] EXCEPT !.header = hdr]
    BY <1>1, <1>12 DEF encryptKey, cek, noKey, nil
  <2>2. "iv" \in Name /\ "tag" \in Name /\ "iv" # "tag"
    BY KeyMgmtAssumption
  <2>3. own \in Symbol
    BY SegTexts
  <2>4. one \in Headers /\ one["iv"] = Str(own)
    BY <2>2, <2>3, StrType, WithType, WithMember
  <2>5. hdr["tag"] = Str(own) /\ hdr["iv"] = Str(own)
    BY <2>2, <2>4, WithMember, WithKeeps
  <2> HIDE DEF r, w, hdr
  <2>6. r.cek = cek /\ r.header = hdr /\ r.key = w
    BY <2>1
  <2>7. /\ headerBytes(hdr, "iv") = [err |-> nil, out |-> own]
        /\ headerBytes(hdr, "tag") = [err |-> nil, out |-> own]
    BY <2>5 DEF headerBytes, Str
  <2> HIDE DEF own
  <2>8. WrapsGCM(alg, enc, key, r.header, r.cek, r.key)
    BY <1>9, <1>12, <2>6, <2>7 DEF WrapsGCM, w
  <2>9. Wraps(alg, enc, key, r.header, r.cek, r.key)
    BY <1>12, <2>8, WrapsOfKind
  <2> QED BY <1>2, <1>4, <1>12, <2>6, <2>9 DEF r, KeyWraps
<1> QED BY <1>3, <1>6, <1>7, <1>8, <1>10, <1>11, <1>12 DEF MgmtKinds

-----------------------------------------------------------------------------
(* decryptKey on what encryptKey made.                                     *)

\* The ephemeral key in the header, on the curve of the key it was made for.
HoldsEpk(h, e, crv) == h["epk"] = epkMap("public", e, crv)

LEMMA EpkReads ==
  ASSUME NEW h, NEW e, NEW crv, HoldsEpk(h, e, crv)
  PROVE  /\ epkErr(h) = nil
         /\ h["epk"].items[2] = e /\ h["epk"].items[3] = crv
<1>1. h["epk"].go = "map" /\ h["epk"].items[1] = "public"
      /\ h["epk"].items[2] = e /\ h["epk"].items[3] = crv
  BY DEF HoldsEpk, epkMap
<1>2. h["epk"] # Absent
  BY <1>1 DEF Absent
<1>3. "epk" \in Name
  BY KeyMgmtAssumption
<1> QED BY <1>1, <1>2, <1>3 DEF epkErr, Has

\* A private key on the curve of a public key that agreement takes.
LEMMA AgreementFits ==
  ASSUME NEW g \in GoKeys, NEW own \in GoKeys, g.crv = own.crv,
         g.type \in {"*ecdh.PrivateKey", "*ecdsa.PrivateKey"}, asECDHPublicErr(own) = nil
  PROVE  asECDHPrivateErr(g) = nil
<1>1. own.crv \in {"P-256", "P-384", "P-521", "X25519"}
  BY DEF asECDHPublicErr, ecdhCurveErr, GoKeys, nil
<1>2. g.type = "*ecdsa.PrivateKey" => g.crv # "X25519"
  BY DEF GoKeys
<1> QED BY <1>1, <1>2 DEF asECDHPrivateErr, ecdhCurveErr

LEMMA UnwrapsWrapped ==
  ASSUME NEW z, NEW cek
  PROVE  AESKeyUnwrap(z, b64Key(wrapped("aeskw", z, "", cek))) = found(cek)
BY DEF AESKeyUnwrap, UnwrapLength, b64Key, wrapped, found

LEMMA UnwrapUniform ==
  ASSUME NEW z, NEW ek, UnwrapLength(ek)
  PROVE  AESKeyUnwrap(z, ek).err \in {nil, "ErrDecryptFailed"}
BY DEF AESKeyUnwrap

\* A key of the right length has the length the key it belongs to has.
LEMMA SameOctets ==
  ASSUME NEW g, NEW own, g.pair = own.pair, g.size = "right", octets(own) # 0
  PROVE  octets(g) = octets(own) /\ secretOf(g) = secretOf(own)
<1>1. own.size # "wrong"
  BY DEF octets
<1>2. octets(g) = octets(own)
  BY <1>1 DEF octets
<1> QED BY <1>2 DEF secretOf

\* A symmetric key that has the right length is not empty.
LEMMA SymmetricNotEmpty ==
  ASSUME NEW alg \in DOMAIN keyMgmts, NEW enc \in DOMAIN contentEncs,
         keyMgmts[alg].kind \in {"kw", "gcmkw", "dir"}
  PROVE  SymmetricSize(alg, enc) # 0
<1>1. CASE keyMgmts[alg].kind = "dir"
  <2>1. contentEncs[enc].keySize \in {16, 24, 32, 48, 64}
    BY DEF contentEncs, contentEnc
  <2> QED BY <1>1, <2>1 DEF SymmetricSize
<1>2. CASE keyMgmts[alg].kind \in {"kw", "gcmkw"}
  <2>1. keyMgmts[alg].wrapBits \in {128, 192, 256}
    BY <1>2 DEF keyMgmts, keyMgmt
  <2> QED BY <1>2, <2>1 DEF SymmetricSize, wrapKeySize
<1> QED BY <1>1, <1>2

\* symmetricKeyErr of the consumer's key, where there is none of the
\* producer's.
LEMMA SymmetricFits ==
  ASSUME NEW g, NEW own, NEW size, g.type = "[]byte", octets(g) = octets(own),
         symmetricKeyErr(own, size) = nil
  PROVE  symmetricKeyErr(g, size) = nil
BY DEF symmetricKeyErr, nil

\* decryptKeyECDH recovers what encryptKeyECDH wrapped.
LEMMA ECDHRecovers ==
  ASSUME NEW alg, NEW enc, NEW g \in GoKeys, NEW own \in GoKeys, NEW h, NEW cek, NEW ek,
         g.type \in {"*ecdh.PrivateKey", "*ecdsa.PrivateKey"}, g.crv = own.crv,
         g.pair = own.pair, WrapsECDH(alg, enc, own, h, cek, ek)
  PROVE  decryptKeyECDH(alg, enc, g, h, ek) = found(cek)
<1> DEFINE apu == headerBytesOptional(h, "apu")
           apv == headerBytesOptional(h, "apv")
           e   == h["epk"].items[2]
           z   == ecdhDerive(own.pair, e, alg, enc, apu.out, apv.out)
<1>1. /\ asECDHPublicErr(own) = nil /\ apu.err = nil /\ apv.err = nil
      /\ h["epk"] = epkMap("public", e, own.crv)
      /\ IF derivesCEK(alg) THEN cek = z /\ ek = NoKey
         ELSE ek = b64Key(wrapped("aeskw", z, "", cek))
  BY DEF WrapsECDH
<1> HIDE DEF e
<1>2. epkErr(h) = nil /\ h["epk"].items[2] = e /\ h["epk"].items[3] = g.crv
  <2>1. HoldsEpk(h, e, own.crv)
    BY <1>1 DEF HoldsEpk
  <2> QED BY <2>1, EpkReads
<1>3. asECDHPrivateErr(g) = nil
  BY <1>1, AgreementFits
<1> DEFINE r == decryptKeyECDH(alg, enc, g, h, ek)
<1>4. r = IF ~derivesCEK(alg) THEN AESKeyUnwrap(z, ek)
          ELSE IF ek.form # "" THEN noCEK("ErrMalformed") ELSE found(z)
  BY <1>1, <1>2, <1>3 DEF decryptKeyECDH
<1> HIDE DEF apu, apv, z, r
<1>5. CASE derivesCEK(alg)
  <2>1. NoKey.form = ""
    BY DEF NoKey
  <2> QED BY <1>1, <1>4, <1>5, <2>1 DEF r
<1>6. CASE ~derivesCEK(alg)
  BY <1>1, <1>4, <1>6, UnwrapsWrapped DEF r
<1> QED BY <1>5, <1>6

\* decryptKeyPBES2 recovers what encryptKeyPBES2 wrapped.
LEMMA PBES2Recovers ==
  ASSUME NEW alg, NEW enc, NEW g, NEW own, NEW h, NEW cek, NEW ek,
         g.type \in {"[]byte", "string"}, g.pair = own.pair, g.size = "right",
         WrapsPBES2(alg, enc, own, h, cek, ek)
  PROVE  decryptKeyPBES2(alg, g, h, ek) = found(cek)
<1> DEFINE salt == headerBytes(h, "p2s")
           z    == PBKDF2(own.pair, alg, salt.out, headerInt(h["p2c"]).int)
<1>1. /\ passwordErr(own) = nil
      /\ Has(h, "p2c") /\ p2cErr(h["p2c"]) = nil /\ p2sErr(salt) = nil
      /\ ek = b64Key(wrapped("aeskw", z, "", cek))
  BY DEF WrapsPBES2
<1>2. octets(own) # 0
  BY <1>1 DEF passwordErr, nil
<1>3. passwordErr(g) = nil
  BY <1>2, SameOctets DEF passwordErr
<1>4. decryptKeyPBES2(alg, g, h, ek) = AESKeyUnwrap(z, ek)
  BY <1>1, <1>3 DEF decryptKeyPBES2
<1> HIDE DEF z
<1> QED BY <1>1, <1>4, UnwrapsWrapped

(***************************************************************************)
(* decryptKey, with the key that belongs to the one encryptKey was given,  *)
(* recovers the CEK.                                                       *)
(***************************************************************************)
LEMMA DecryptKeyRecovers ==
  ASSUME NEW alg \in DOMAIN keyMgmts, NEW enc \in DOMAIN contentEncs,
         NEW g \in GoKeys, NEW own \in GoKeys, NEW h, NEW cek, NEW ek,
         KeyTo(g, own, alg), Wraps(alg, enc, own, h, cek, ek),
         cek.size = contentEncs[enc].keySize
  PROVE  decryptKey(alg, enc, g, h, ek) = found(cek)
<1> DEFINE km  == keyMgmts[alg]
           bad == symmetricKeyErr(g, SymmetricSize(alg, enc))
<1>1. km.kind \in MgmtKinds
  BY MgmtType
<1>2. g.pair = own.pair /\ g.type \in DecryptTypes(alg) /\ g.size = "right"
  BY DEF KeyTo
<1>3. CASE km.kind = "rsa"
  <2>1. ek = b64Key(wrapped(alg, [NoSecret EXCEPT !.from = "key", !.id = own.pair], "", cek))
    BY <1>3 DEF Wraps, WrapsRSA
  <2>2. ek.form = "b64" /\ ek.key.mode = alg /\ ek.key.kek.id = g.pair /\ ek.key.cek = cek
    BY <1>2, <2>1 DEF b64Key, wrapped, NoSecret
  <2>3. g.type = "*rsa.PrivateKey"
    BY <1>2, <1>3 DEF DecryptTypes
  <2>4. decryptKeyRSA(alg, enc, g, ek) = found(cek)
    BY <2>2, <2>3 DEF decryptKeyRSA
  <2> QED BY <1>3, <2>4 DEF decryptKey
<1>4. CASE km.kind = "ecdh"
  <2>1. g.type \in {"*ecdh.PrivateKey", "*ecdsa.PrivateKey"} /\ g.crv = own.crv
    BY <1>2, <1>4 DEF DecryptTypes, KeyTo
  <2>2. WrapsECDH(alg, enc, own, h, cek, ek)
    BY <1>4 DEF Wraps
  <2>3. decryptKeyECDH(alg, enc, g, h, ek) = found(cek)
    BY <1>2, <2>1, <2>2, ECDHRecovers
  <2> QED BY <1>4, <2>3 DEF decryptKey
<1>5. CASE km.kind = "pbes2"
  <2>1. g.type \in {"[]byte", "string"}
    BY <1>2, <1>5 DEF DecryptTypes
  <2>2. WrapsPBES2(alg, enc, own, h, cek, ek)
    BY <1>5 DEF Wraps
  <2>3. decryptKeyPBES2(alg, g, h, ek) = found(cek)
    BY <1>2, <2>1, <2>2, PBES2Recovers
  <2> QED BY <1>5, <2>3 DEF decryptKey
<1>6. ASSUME km.kind \in {"kw", "gcmkw", "dir"},
             symmetricKeyErr(own, SymmetricSize(alg, enc)) = nil
      PROVE  bad = nil /\ secretOf(g) = secretOf(own)
  <2>1. octets(own) # 0
    BY <1>6, SymmetricNotEmpty DEF symmetricKeyErr, nil
  <2>2. octets(g) = octets(own) /\ secretOf(g) = secretOf(own)
    BY <1>2, <2>1, SameOctets
  <2>3. g.type = "[]byte"
    BY <1>2, <1>6 DEF DecryptTypes
  <2> QED BY <1>6, <2>2, <2>3, SymmetricFits
<1>7. CASE km.kind = "dir"
  <2>1. symmetricKeyErr(own, SymmetricSize(alg, enc)) = nil /\ cek = secretOf(own) /\ ek = NoKey
    BY <1>7 DEF Wraps, WrapsDir
  <2>2. ek.form = ""
    BY <2>1 DEF NoKey
  <2>3. bad = nil /\ secretOf(g) = cek
    BY <1>6, <1>7, <2>1
  <2> QED BY <1>7, <2>2, <2>3 DEF decryptKey, SymmetricSize
<1>8. CASE km.kind = "kw"
  <2>1. /\ symmetricKeyErr(own, SymmetricSize(alg, enc)) = nil
        /\ ek = b64Key(wrapped("aeskw", secretOf(own), "", cek))
    BY <1>8 DEF Wraps, WrapsKW
  <2>2. bad = nil /\ secretOf(g) = secretOf(own)
    BY <1>6, <1>8, <2>1
  <2>3. decryptKey(alg, enc, g, h, ek) = AESKeyUnwrap(secretOf(g), ek)
    BY <1>8, <2>2 DEF decryptKey, SymmetricSize
  <2> QED BY <2>1, <2>2, <2>3, UnwrapsWrapped
<1>9. CASE km.kind = "gcmkw"
  <2> DEFINE iv  == headerBytes(h, "iv")
             tag == headerBytes(h, "tag")
  <2>1. /\ symmetricKeyErr(own, SymmetricSize(alg, enc)) = nil
        /\ iv.err = nil /\ tag.err = nil /\ tag.out = iv.out
        /\ ek = b64Key(wrapped("gcm", secretOf(own), iv.out, cek))
    BY <1>9 DEF Wraps, WrapsGCM
  <2>2. bad = nil /\ secretOf(g) = secretOf(own)
    BY <1>6, <1>9, <2>1
  <2>3. /\ ek.form = "b64" /\ ek.key.mode = "gcm" /\ ek.key.kek = secretOf(g)
        /\ ek.key.iv = iv.out /\ ek.key.cek = cek
    BY <2>1, <2>2 DEF b64Key, wrapped
  <2>4. decryptKeyGCM(g, h, ek) = found(cek)
    BY <2>1, <2>3 DEF decryptKeyGCM
  <2> QED BY <1>9, <2>2, <2>4 DEF decryptKey, SymmetricSize
<1> QED BY <1>1, <1>3, <1>4, <1>5, <1>7, <1>8, <1>9 DEF MgmtKinds

(***************************************************************************)
(* decryptKey, with any key that has the type, length and curve of the one *)
(* encryptKey was given, and any octets for an encrypted key, gives a CEK  *)
(* or the one error for cryptographic failures.                            *)
(***************************************************************************)
LEMMA DecryptKeyUniform ==
  ASSUME NEW alg \in DOMAIN keyMgmts, NEW enc \in DOMAIN contentEncs,
         NEW g \in GoKeys, NEW own \in GoKeys, NEW h, NEW cek, NEW made, NEW ek,
         Fits(g, own, alg), Wraps(alg, enc, own, h, cek, made),
         IF derivesCEK(alg) THEN ek.form = "" ELSE ek.form = "b64" /\ UnwrapLength(ek)
  PROVE  decryptKey(alg, enc, g, h, ek).err \in {nil, "ErrDecryptFailed"}
<1> DEFINE km  == keyMgmts[alg]
           bad == symmetricKeyErr(g, SymmetricSize(alg, enc))
           r   == decryptKey(alg, enc, g, h, ek)
<1>1. km.kind \in MgmtKinds
  BY MgmtType
<1>2. g.type \in DecryptTypes(alg)
  BY DEF Fits
<1>3. CASE km.kind = "rsa"
  <2>1. g.type = "*rsa.PrivateKey"
    BY <1>2, <1>3 DEF DecryptTypes
  <2>2. decryptKeyRSA(alg, enc, g, ek).err \in {nil, "ErrDecryptFailed"}
    BY <2>1 DEF decryptKeyRSA, found, noCEK
  <2> QED BY <1>3, <2>2 DEF decryptKey
<1>4. CASE km.kind = "ecdh"
  <2> DEFINE apu == headerBytesOptional(h, "apu")
             apv == headerBytesOptional(h, "apv")
             e   == h["epk"].items[2]
             z   == ecdhDerive(g.pair, e, alg, enc, apu.out, apv.out)
             x   == decryptKeyECDH(alg, enc, g, h, ek)
  <2>1. g.type \in {"*ecdh.PrivateKey", "*ecdsa.PrivateKey"} /\ g.crv = own.crv
    BY <1>2, <1>4 DEF DecryptTypes, Fits
  <2>2. /\ asECDHPublicErr(own) = nil /\ apu.err = nil /\ apv.err = nil
        /\ h["epk"] = epkMap("public", e, own.crv)
    BY <1>4 DEF Wraps, WrapsECDH
  <2> HIDE DEF e
  <2>3. epkErr(h) = nil /\ h["epk"].items[2] = e /\ h["epk"].items[3] = g.crv
    <3>1. HoldsEpk(h, e, own.crv)
      BY <2>2 DEF HoldsEpk
    <3> QED BY <2>1, <3>1, EpkReads
  <2>4. asECDHPrivateErr(g) = nil
    BY <2>1, <2>2, AgreementFits
  <2>5. x = IF ~derivesCEK(alg) THEN AESKeyUnwrap(z, ek)
            ELSE IF ek.form # "" THEN noCEK("ErrMalformed") ELSE found(z)
    BY <2>2, <2>3, <2>4 DEF decryptKeyECDH
  <2>6. r = x
    BY <1>4 DEF decryptKey
  <2> HIDE DEF apu, apv, z, x, r
  <2>7. x.err \in {nil, "ErrDecryptFailed"}
    <3>1. CASE derivesCEK(alg)
      BY <2>5, <3>1 DEF found
    <3>2. CASE ~derivesCEK(alg)
      BY <2>5, <3>2, UnwrapUniform
    <3> QED BY <3>1, <3>2
  <2> QED BY <2>6, <2>7 DEF r
<1>5. CASE km.kind = "pbes2"
  <2> DEFINE salt == headerBytes(h, "p2s")
             z    == PBKDF2(g.pair, alg, salt.out, headerInt(h["p2c"]).int)
  <2>1. Has(h, "p2c") /\ p2cErr(h["p2c"]) = nil /\ p2sErr(salt) = nil
    BY <1>5 DEF Wraps, WrapsPBES2
  <2>2. passwordErr(g) = nil
    BY <1>2, <1>5 DEF DecryptTypes, Fits, passwordErr
  <2>3. decryptKeyPBES2(alg, g, h, ek) = AESKeyUnwrap(z, ek)
    BY <2>1, <2>2 DEF decryptKeyPBES2
  <2>4. ~derivesCEK(alg)
    BY <1>5, MgmtType
  <2> HIDE DEF z
  <2>5. decryptKeyPBES2(alg, g, h, ek).err \in {nil, "ErrDecryptFailed"}
    BY <2>3, <2>4, UnwrapUniform
  <2> QED BY <1>5, <2>5 DEF decryptKey
<1>6. km.kind \in {"kw", "gcmkw", "dir"} => bad = nil
  <2> SUFFICES ASSUME km.kind \in {"kw", "gcmkw", "dir"} PROVE bad = nil
    OBVIOUS
  <2>1. symmetricKeyErr(own, SymmetricSize(alg, enc)) = nil
    BY DEF Wraps, WrapsKW, WrapsGCM, WrapsDir
  <2>2. g.type = "[]byte" /\ octets(g) = octets(own)
    BY <1>2 DEF DecryptTypes, Fits
  <2> QED BY <2>1, <2>2, SymmetricFits
<1>7. CASE km.kind = "dir"
  <2>1. ek.form = ""
    BY <1>7 DEF derivesCEK
  <2> QED BY <1>6, <1>7, <2>1 DEF decryptKey, SymmetricSize, found
<1>8. CASE km.kind = "kw"
  <2>1. r = AESKeyUnwrap(secretOf(g), ek)
    BY <1>6, <1>8 DEF decryptKey, SymmetricSize
  <2>2. ~derivesCEK(alg)
    BY <1>8, MgmtType
  <2> QED BY <2>1, <2>2, UnwrapUniform
<1>9. CASE km.kind = "gcmkw"
  <2>1. r = decryptKeyGCM(g, h, ek)
    BY <1>6, <1>9 DEF decryptKey, SymmetricSize
  <2>2. headerBytes(h, "iv").err = nil /\ headerBytes(h, "tag").err = nil
    BY <1>9 DEF Wraps, WrapsGCM
  <2>3. decryptKeyGCM(g, h, ek).err \in {nil, "ErrDecryptFailed"}
    BY <2>2 DEF decryptKeyGCM, found, noCEK
  <2> QED BY <2>1, <2>3
<1> QED BY <1>1, <1>3, <1>4, <1>5, <1>7, <1>8, <1>9 DEF MgmtKinds

\* The header parameters that key management reads.
KeyParams == {"epk", "apu", "apv", "iv", "tag", "p2s", "p2c"}

\* Header got has those of h, as they came through JSON, and the same of the
\* two that may be missing.
Carried(got, h) ==
    \A n \in KeyParams : Has(h, n) \/ n \in {"apu", "apv"} => got[n] = JSONValue(h[n])

\* A parameter with a value is present.
LEMMA ParamsPresent ==
  ASSUME NEW h, NEW n \in KeyParams, h[n].go # "absent" PROVE Has(h, n)
<1>1. h[n] # Absent
  BY DEF Absent
<1>2. n \in Name
  BY KeyMgmtAssumption DEF KeyParams
<1> QED BY <1>1, <1>2 DEF Has

\* So is one that octets are read from.
LEMMA BytesPresent ==
  ASSUME NEW h, NEW n \in KeyParams, headerBytes(h, n).err = nil PROVE Has(h, n)
<1>1. h[n].go = "string"
  BY DEF headerBytes, nil
<1> QED BY <1>1, ParamsPresent

\* What is read from a parameter is what it was before JSON.
LEMMA ParamsSurviveJSON ==
  ASSUME NEW h, NEW got, NEW n \in KeyParams, Carried(got, h),
         Has(h, n) \/ n \in {"apu", "apv"}
  PROVE  /\ headerBytes(got, n) = headerBytes(h, n)
         /\ headerBytesOptional(got, n) = headerBytesOptional(h, n)
         /\ p2cErr(h[n]) = nil => headerInt(got[n]) = headerInt(h[n])
         /\ Has(got, n) <=> Has(h, n)
         /\ h[n].go = "map" => got[n] = h[n]
<1> PICK v : v = h[n]
  OBVIOUS
<1> PICK w : w = got[n]
  OBVIOUS
<1>1. w = JSONValue(v)
  BY DEF Carried
<1>2. /\ w.go = "string" <=> v.go = "string"
      /\ v.go \in {"string", "map"} => w = v
  BY <1>1 DEF JSONValue, Anys
<1>3. p2cErr(v) = nil => headerInt(w) = headerInt(v)
  <2> SUFFICES ASSUME p2cErr(v) = nil PROVE headerInt(w) = headerInt(v)
    OBVIOUS
  <2>1. headerInt(v).err = nil /\ headerInt(v).int \in MinPBES2Count..MaxPBES2Count
    BY DEF p2cErr, nil
  <2>2. /\ v.go \in {"float64", "int", "int64", "json.Number"}
        /\ v.items[1] \in DOMAIN Number
        /\ headerInt(v) = [err |-> nil, int |-> Number[v.items[1]]]
    BY <2>1 DEF headerInt, nil
  <2>3. Number[v.items[1]] \in (-MaxInt32 - 1)..MaxInt32
    <3> DEFINE i == Number[v.items[1]]
    <3>1. i \in MinPBES2Count..MaxPBES2Count
      BY <2>1, <2>2
    <3>2. MaxInt32 \in Nat /\ MaxInt32 >= MaxPBES2Count
      BY KeyMgmtAssumption, SymbolsAssumption
    <3>3. MinPBES2Count \in Int /\ MaxPBES2Count \in Int
      BY SMT DEF MinPBES2Count, MaxPBES2Count
    <3> HIDE DEF i
    <3>4. i \in Int /\ i >= MinPBES2Count /\ i <= MaxPBES2Count
      BY <3>1, <3>3
    <3>5. i >= -MaxInt32 - 1 /\ i <= MaxInt32
      BY <3>2, <3>4, SMT DEF MinPBES2Count, MaxPBES2Count
    <3> QED BY <3>2, <3>4, <3>5 DEF i
  <2>4. w.go = "float64" /\ w.items = v.items
    BY <1>1, <2>2 DEF JSONValue
  <2> QED BY <2>2, <2>3, <2>4 DEF headerInt
<1>4. w = Absent <=> v = Absent
  BY <1>1 DEF JSONValue, Anys, Absent
<1>5. headerBytes(got, n) = headerBytes(h, n)
  BY <1>2 DEF headerBytes
<1>6. Has(got, n) <=> Has(h, n)
  BY <1>4 DEF Has
<1>7. headerBytesOptional(got, n) = headerBytesOptional(h, n)
  BY <1>5, <1>6 DEF headerBytesOptional
<1> QED BY <1>2, <1>3, <1>5, <1>6, <1>7

(***************************************************************************)
(* What was wrapped under the producer's header opens under the one the    *)
(* consumer reads.                                                         *)
(***************************************************************************)
LEMMA WrapsAfterJSON ==
  ASSUME NEW alg, NEW enc, NEW own, NEW h, NEW got, NEW cek, NEW ek,
         Wraps(alg, enc, own, h, cek, ek), Carried(got, h)
  PROVE  Wraps(alg, enc, own, got, cek, ek)
<1> DEFINE kind == keyMgmts[alg].kind
<1>1. kind = "ecdh" => WrapsECDH(alg, enc, own, got, cek, ek)
  <2> SUFFICES ASSUME WrapsECDH(alg, enc, own, h, cek, ek)
               PROVE  WrapsECDH(alg, enc, own, got, cek, ek)
    BY DEF Wraps
  <2>1. /\ headerBytesOptional(got, "apu") = headerBytesOptional(h, "apu")
        /\ headerBytesOptional(got, "apv") = headerBytesOptional(h, "apv")
    BY ParamsSurviveJSON DEF KeyParams
  <2>2. got["epk"] = h["epk"]
    <3>1. h["epk"] = epkMap("public", h["epk"].items[2], own.crv)
      BY DEF WrapsECDH
    <3>2. h["epk"].go = "map"
      BY <3>1 DEF epkMap
    <3>3. Has(h, "epk")
      BY <3>2, ParamsPresent DEF KeyParams
    <3> QED BY <3>2, <3>3, ParamsSurviveJSON DEF KeyParams
  <2> QED BY <2>1, <2>2 DEF WrapsECDH
<1>2. kind = "pbes2" => WrapsPBES2(alg, enc, own, got, cek, ek)
  <2> SUFFICES ASSUME WrapsPBES2(alg, enc, own, h, cek, ek)
               PROVE  WrapsPBES2(alg, enc, own, got, cek, ek)
    BY DEF Wraps
  <2>0. Has(h, "p2s") /\ Has(h, "p2c")
    <3>1. headerBytes(h, "p2s").err = nil
      BY DEF WrapsPBES2, p2sErr, nil
    <3> QED BY <3>1, BytesPresent DEF WrapsPBES2, KeyParams
  <2>1. /\ headerBytes(got, "p2s") = headerBytes(h, "p2s")
        /\ headerInt(got["p2c"]) = headerInt(h["p2c"])
        /\ Has(got, "p2c") <=> Has(h, "p2c")
    BY <2>0, ParamsSurviveJSON DEF KeyParams, WrapsPBES2
  <2>2. p2cErr(got["p2c"]) = p2cErr(h["p2c"])
    BY <2>1 DEF p2cErr
  <2> QED BY <2>1, <2>2 DEF WrapsPBES2
<1>3. kind = "gcmkw" => WrapsGCM(alg, enc, own, got, cek, ek)
  <2> SUFFICES ASSUME WrapsGCM(alg, enc, own, h, cek, ek)
               PROVE  WrapsGCM(alg, enc, own, got, cek, ek)
    BY DEF Wraps
  <2>0. Has(h, "iv") /\ Has(h, "tag")
    BY BytesPresent DEF WrapsGCM, KeyParams
  <2>1. /\ headerBytes(got, "iv") = headerBytes(h, "iv")
        /\ headerBytes(got, "tag") = headerBytes(h, "tag")
    BY <2>0, ParamsSurviveJSON DEF KeyParams
  <2> QED BY <2>1 DEF WrapsGCM
<1>4. /\ kind = "rsa" => WrapsRSA(alg, enc, own, got, cek, ek)
      /\ kind = "dir" => WrapsDir(alg, enc, own, got, cek, ek)
      /\ kind = "kw" => WrapsKW(alg, enc, own, got, cek, ek)
  BY DEF Wraps, WrapsRSA, WrapsDir, WrapsKW
<1> QED BY <1>1, <1>2, <1>3, <1>4 DEF Wraps

-----------------------------------------------------------------------------
(* What producers write.                                                   *)

\* The content of a document is what was encrypted under its protected header
\* and its "aad", compressed if the header says so.
WrittenContent(content, protected, aad, c) ==
    /\ content = encryptContent(chooseEnc(c.opts), content.cek, protected, aad, content.body)
    /\ content.cek.size = contentEncs[chooseEnc(c.opts)].keySize
    /\ ~Has(protected.hdr, "zip") => content.body = Body(c.plaintext)
    /\ protected.hdr["zip"] = Str("DEF") => content.body = deflate(c.plaintext)

\* seal writes it.
LEMMA SealWrites ==
  ASSUME NEW c \in Call, NEW protected \in Headers, NEW cek \in Secrets, NEW aad \in Octets,
         lookupEnc(chooseEnc(c.opts)) = nil,
         cek.size = contentEncs[chooseEnc(c.opts)].keySize,
         seal(c.plaintext, protected, chooseEnc(c.opts), cek, aad).err = nil
  PROVE  LET content == seal(c.plaintext, protected, chooseEnc(c.opts), cek, aad).content
         IN  /\ content \in Contents /\ content.cek = cek
             /\ content.protected = Seg("json", JSON(protected))
             /\ WrittenContent(content, content.protected, aad, c)
<1> DEFINE enc     == chooseEnc(c.opts)
           content == seal(c.plaintext, protected, enc, cek, aad).content
           seg     == Seg("json", JSON(protected))
<1>1. c.plaintext \in Text /\ enc \in Symbol
  BY LookupEnc, EncType DEF Call
<1>2. /\ content \in Contents /\ content.cek = cek /\ content.protected = seg
      /\ content = encryptContent(enc, cek, seg, aad, content.body)
      /\ ~Has(JSON(protected), "zip") => content.body = Body(c.plaintext)
      /\ JSON(protected)["zip"] = Str("DEF") => content.body = deflate(c.plaintext)
  BY <1>1, SealSucceeds
<1>3. seg.hdr = JSON(protected)
  BY DEF Seg
<1> HIDE DEF content, seg, enc
<1>4. WrittenContent(content, content.protected, aad, c)
  BY <1>2, <1>3 DEF WrittenContent, enc
<1> QED BY <1>2, <1>4 DEF content, seg, enc

\* The key of recipient k, as resolveKey finds it.
LEMMA OwnKeyType ==
  ASSUME NEW c \in Call, NEW k \in 1..Len(c.recipients)
  PROVE  OwnKey(c, k) \in GoKeys
<1>1. c.recipients[k].Key \in KeyArgs
  BY AddressedType DEF Recipient
<1> QED BY <1>1, ResolveType DEF OwnKey

\* An iteration of EncryptJSONMulti's loop wraps the CEK for the recipient's
\* key, and adds no "zip".
RecipientWraps(x, c, k) ==
    /\ \E alg \in DOMAIN keyMgmts :
          x.header["alg"] = Str(alg) /\ KeyWraps(x, alg, chooseEnc(c.opts), OwnKey(c, k))
    /\ x.header["zip"] = IF Len(c.recipients) = 1 THEN baseHeader(c.opts)["zip"] ELSE Absent

LEMMA FoldKeepsZip ==
  ASSUME NEW c \in Call, NEW r, ~Has(r.Header, "zip"), NEW alg, NEW own,
         Stamped(own, r.Header, alg),
         NEW folded,
         folded = IF Len(c.recipients) = 1 THEN fold(own, sharedHeader(c))
                  ELSE [err |-> nil, hdr |-> own],
         folded.err = nil
  PROVE  folded.hdr["zip"] = IF Len(c.recipients) = 1 THEN baseHeader(c.opts)["zip"]
                             ELSE Absent
<1> DEFINE P == sharedHeader(c)
           B == baseHeader(c.opts)
<1>1. "zip" \in Name /\ "zip" \notin {"alg", "kid"}
  BY KeyMgmtAssumption
<1>2. own["zip"] = Absent
  <2>1. r.Header["zip"] = Absent
    BY <1>1 DEF Has
  <2> QED BY <1>1, <2>1 DEF Stamped
<1>3. CASE Len(c.recipients) # 1
  <2>1. folded.hdr = own
    BY <1>3
  <2> QED BY <1>2, <1>3, <2>1
<1>4. CASE Len(c.recipients) = 1
  <2>1. fold(own, P).err = nil /\ folded = fold(own, P)
    BY <1>4
  <2>2. folded.hdr = copyHeader(P, own)
    BY <2>1 DEF fold, nil
  <2>3. P["zip"] = B["zip"]
    BY <1>1, SharedHeaderType
  <2> HIDE DEF P, B
  <2>4. folded.hdr["zip"] = P["zip"]
    BY <1>1, <1>2, <2>2 DEF copyHeader, Has
  <2> QED BY <1>4, <2>3, <2>4 DEF B
<1> QED BY <1>3, <1>4

LEMMA EncryptRecipientWraps ==
  ASSUME NEW c \in Call, NEW k \in 1..Len(c.recipients), NEW given \in Secrets, NEW draws,
         draws.cek \in Symbol, draws.own \in DOMAIN SegLen, multiErr(c) = nil,
         given # NoSecret => given.size = contentEncs[chooseEnc(c.opts)].keySize,
         NEW x, x = encryptRecipient(c.recipients[k], Len(c.recipients), chooseEnc(c.opts),
                                     sharedHeader(c), given, draws),
         x.err = nil
  PROVE  RecipientWraps(x, c, k)
<1> DEFINE r      == c.recipients[k]
           count  == Len(c.recipients)
           enc    == chooseEnc(c.opts)
           P      == sharedHeader(c)
           p      == prepare(r.Key, r.KeyID, r.Algorithm, enc)
           own    == recipientHeader(r, p.alg, P)
           folded == IF count = 1 THEN fold(own, P) ELSE [err |-> nil, hdr |-> own]
<1>1. EncryptsRecipientAs(x, r, count, enc, P, given, draws)
  BY EncryptRecipientParts
<1>2. /\ p.err = nil /\ folded.err = nil
      /\ x = encryptKey(p.alg, enc, p.key, folded.hdr, given, draws)
  BY <1>1 DEF EncryptsRecipientAs
<1>3. r \in Recipient /\ r.Key \in KeyArgs
  BY AddressedType DEF Recipient
<1>4. Prepared(p, r.Key, r.KeyID, enc)
  BY <1>2, <1>3, PrepareSucceeds
<1>5. enc \in DOMAIN contentEncs
  BY LookupEnc DEF multiErr, nil
<1>6. ~Has(r.Header, "zip")
  BY DEF multiErr, nil
<1> HIDE DEF p
<1>7. /\ p.alg \in DOMAIN keyMgmts /\ p.alg \in Symbol /\ p.key \in GoKeys
      /\ p.key = OwnKey(c, k)
  BY <1>4 DEF Prepared, OwnKey
<1> HIDE DEF r
<1>8. Stamped(own, r.Header, p.alg)
  BY <1>3, <1>7, RecipientHeaderType
<1>9. count = 1 => r = c.recipients[1]
  BY DEF r
<1> HIDE DEF own
<1>10. Readable(folded.hdr, c, r, p.alg)
  BY <1>2, <1>3, <1>7, <1>8, <1>9, FoldReadable
<1>11. folded.hdr["zip"] = IF count = 1 THEN baseHeader(c.opts)["zip"] ELSE Absent
  BY <1>2, <1>6, <1>8, FoldKeepsZip
<1> HIDE DEF folded
<1>12. folded.hdr \in Headers /\ folded.hdr["alg"] = Str(p.alg)
  BY <1>10 DEF Readable
<1>13. draws.own \in Symbol
  BY SegTexts
<1>14. KeyMade(x, p.key.pair, p.alg, enc, folded.hdr, given, draws)
  BY <1>2, <1>5, <1>7, <1>12, <1>13, EncryptKeyMade
<1>15. \A n \in Name \ KeyOutputs : x.header[n] = folded.hdr[n]
  BY <1>14 DEF KeyMade
<1>16. "alg" \in Name \ KeyOutputs /\ "zip" \in Name \ KeyOutputs
  BY NameAssumption, KeyMgmtAssumption DEF KeyOutputs
<1>17. KeyWraps(x, p.alg, enc, OwnKey(c, k))
  BY <1>2, <1>5, <1>7, <1>12, EncryptKeyWraps
<1> HIDE DEF enc, count
<1>18. RecipientWraps(x, c, k)
  BY <1>7, <1>11, <1>12, <1>15, <1>16, <1>17 DEF RecipientWraps, enc, count
<1> QED BY <1>18

\* m has the members of three headers that share none, as they came through
\* JSON.
MergesTo(m, P, U, H) ==
    /\ m \in Headers
    /\ \A n \in Name :
          /\ Has(P, n) => m[n] = JSONValue(P[n])
          /\ Has(U, n) => m[n] = JSONValue(U[n])
          /\ Has(H, n) => m[n] = JSONValue(H[n])
          /\ ~Has(P, n) /\ ~Has(U, n) /\ ~Has(H, n) => m[n] = Absent

\* That is what the consumer merges, and what MergedOf says.
LEMMA MergedReads ==
  ASSUME NEW P \in Headers, NEW U \in Headers, NEW H \in Headers,
         mergeThree(P, U, H).err = nil
  PROVE  /\ mergeThree(JSON(P), JSON(U), JSON(H)) =
              [err |-> nil, hdr |-> copyHeader(copyHeader(JSON(P), JSON(U)), JSON(H))]
         /\ MergesTo(copyHeader(copyHeader(JSON(P), JSON(U)), JSON(H)), P, U, H)
<1> DEFINE p == JSON(P)
           u == JSON(U)
           h == JSON(H)
           m == copyHeader(copyHeader(p, u), h)
<1>1. \A n \in Name : ~(Has(P, n) /\ Has(U, n)) /\ ~(Has(P, n) /\ Has(H, n))
                      /\ ~(Has(U, n) /\ Has(H, n))
  <2> DEFINE pu == mergeHeaders(P, U)
  <2>1. pu.err = nil /\ mergeHeaders(pu.hdr, H).err = nil
    BY DEF mergeThree
  <2>2. \A n \in Name : ~(Has(P, n) /\ Has(U, n))
    BY <2>1 DEF mergeHeaders, nil
  <2>3. pu.hdr = [n \in Name |-> IF Has(P, n) THEN P[n] ELSE U[n]]
    BY <2>2 DEF mergeHeaders
  <2> HIDE DEF pu
  <2>4. \A n \in Name : ~(Has(pu.hdr, n) /\ Has(H, n))
    BY <2>1 DEF mergeHeaders, nil
  <2>5. \A n \in Name : Has(P, n) \/ Has(U, n) => Has(pu.hdr, n)
    BY <2>3 DEF Has
  <2> QED BY <2>2, <2>4, <2>5
<1>2. \A n \in Name : /\ Has(p, n) <=> Has(P, n)
                      /\ Has(u, n) <=> Has(U, n)
                      /\ Has(h, n) <=> Has(H, n)
  BY JSONMember
<1>3. p \in Headers /\ u \in Headers /\ h \in Headers
  BY JSONType
<1>4. \A n \in Name : p[n] = JSONValue(P[n]) /\ u[n] = JSONValue(U[n]) /\ h[n] = JSONValue(H[n])
  BY DEF JSON
<1> HIDE DEF p, u, h
<1>5. m \in Headers
  BY <1>3, CopyType
<1>6. \A n \in Name : m[n] = IF Has(h, n) THEN h[n] ELSE IF Has(u, n) THEN u[n] ELSE p[n]
  BY DEF copyHeader
<1> HIDE DEF m
<1>7. ASSUME NEW n \in Name
      PROVE  /\ Has(P, n) => m[n] = JSONValue(P[n])
             /\ Has(U, n) => m[n] = JSONValue(U[n])
             /\ Has(H, n) => m[n] = JSONValue(H[n])
             /\ ~Has(P, n) /\ ~Has(U, n) /\ ~Has(H, n) => m[n] = Absent
  BY <1>1, <1>2, <1>4, <1>6 DEF Has
<1>8. mergeThree(p, u, h) = [err |-> nil, hdr |-> m]
  <2> DEFINE pu == [n \in Name |-> IF Has(p, n) THEN p[n] ELSE u[n]]
             all == [n \in Name |-> IF Has(pu, n) THEN pu[n] ELSE h[n]]
  <2>1. mergeHeaders(p, u) = [err |-> nil, hdr |-> pu]
    BY <1>1, <1>2 DEF mergeHeaders
  <2>2. \A n \in Name : Has(pu, n) <=> Has(p, n) \/ Has(u, n)
    BY DEF Has
  <2>3. mergeHeaders(pu, h) = [err |-> nil, hdr |-> all]
    BY <1>1, <1>2, <2>2 DEF mergeHeaders
  <2>4. all = m
    <3>1. \A n \in Name : all[n] = m[n]
      <4> SUFFICES ASSUME NEW n \in Name PROVE all[n] = m[n]
        OBVIOUS
      <4>1. ~(Has(p, n) /\ Has(u, n)) /\ ~(Has(p, n) /\ Has(h, n)) /\ ~(Has(u, n) /\ Has(h, n))
        BY <1>1, <1>2
      <4>2. Has(pu, n) <=> Has(p, n) \/ Has(u, n)
        BY <2>2
      <4> QED BY <1>6, <4>1, <4>2 DEF Has
    <3>2. m = [n \in Name |-> m[n]] /\ all = [n \in Name |-> all[n]]
      BY <1>5 DEF Headers
    <3> QED BY <3>1, <3>2
  <2> HIDE DEF pu, all
  <2>5. [err |-> nil, hdr |-> pu].err = nil /\ [err |-> nil, hdr |-> pu].hdr = pu
    OBVIOUS
  <2> QED BY <2>1, <2>3, <2>4, <2>5 DEF mergeThree
<1>9. MergesTo(m, P, U, H)
  BY <1>5, <1>7 DEF MergesTo
<1> QED BY <1>8, <1>9 DEF m, p, u, h

\* What call c wrote of recipient k, before encoding/json: into the protected
\* header, the shared and the recipient's own one,
WroteHeaders(doc, c, k, P, U, H) ==
    /\ P \in Headers /\ U \in Headers /\ H \in Headers
    /\ k \in 1..Len(doc.recipients)
    /\ doc.protected = Seg("json", JSON(P)) /\ doc.unprotected = JSON(U)
    /\ doc.recipients[k].header = JSON(H)
    /\ mergeThree(P, U, H).err = nil /\ checkCriticalProduced(P) = nil
    /\ P["zip"] = baseHeader(c.opts)["zip"] /\ ~Has(U, "zip") /\ ~Has(H, "zip")

\* where x is the one of them that the key management alg went by.
WroteKey(doc, c, k, P, U, H, x, alg) ==
    LET enc == chooseEnc(c.opts)
    IN  /\ alg \in DOMAIN keyMgmts /\ enc \in DOMAIN contentEncs
        /\ x \in {P, H} /\ x["alg"] = Str(alg) /\ P["enc"] = Str(enc)
        /\ ~StrayPartyInfo(c) => \A n \in {"apu", "apv"} :
              Has(P, n) \/ Has(U, n) \/ Has(H, n) => Has(x, n)
        /\ Wraps(alg, enc, OwnKey(c, k), x, doc.content.cek, doc.recipients[k].encrypted_key)

Wrote(doc, c, k) ==
    /\ \E P, U, H, x, alg : /\ WroteHeaders(doc, c, k, P, U, H)
                            /\ WroteKey(doc, c, k, P, U, H, x, alg)
    /\ WrittenContent(doc.content, doc.protected, doc.aad, c)
    /\ doc.form \in {"compact", "general"} /\ doc.parts = AsMade
    /\ DecodeSegment(doc.aad).err = nil

\* What recipient k is told, in header m: how its key was wrapped.
Told(m, doc, c, k, alg) ==
    LET enc == chooseEnc(c.opts)
    IN  /\ m = MergedOf(doc, k) /\ m \in Headers
        /\ alg \in DOMAIN keyMgmts /\ enc \in DOMAIN contentEncs
        /\ m["alg"] = Str(alg) /\ m["enc"] = Str(enc)
        /\ ~StrayPartyInfo(c) =>
              Wraps(alg, enc, OwnKey(c, k), m, doc.content.cek, doc.recipients[k].encrypted_key)
        /\ m["zip"] = doc.protected.hdr["zip"]
        /\ ~IdleZip(c) => m["zip"] \in {Absent, Str("DEF")}

\* JSON keeps what is not a list or a number.
LEMMA KeepsZip ==
  ASSUME NEW h \in Headers, NEW n \in Name, h[n] \in {Absent, Str("DEF")}
  PROVE  JSON(h)[n] = h[n]
<1>1. JSON(h)[n] = JSONValue(h[n])
  BY DEF JSON
<1> QED BY <1>1 DEF JSONValue, Absent, Str

\* The consumer reads in the merged header what key management wrote.
LEMMA CarriedToAll ==
  ASSUME NEW doc, NEW c, NEW k, NEW P, NEW U, NEW H, NEW x, NEW alg, NEW m,
         WroteKey(doc, c, k, P, U, H, x, alg), MergesTo(m, P, U, H), ~StrayPartyInfo(c)
  PROVE  Carried(m, x)
<1> SUFFICES ASSUME NEW n \in KeyParams, Has(x, n) \/ n \in {"apu", "apv"}
             PROVE  m[n] = JSONValue(x[n])
  BY DEF Carried
<1>1. n \in Name
  BY KeyMgmtAssumption DEF KeyParams
<1>2. x \in {P, H}
  BY DEF WroteKey
<1>3. CASE Has(x, n)
  BY <1>1, <1>2, <1>3 DEF MergesTo
<1>4. CASE ~Has(x, n)
  <2>1. ~Has(P, n) /\ ~Has(U, n) /\ ~Has(H, n)
    BY <1>4 DEF WroteKey
  <2>2. m[n] = Absent
    BY <1>1, <2>1 DEF MergesTo
  <2>3. x[n] = Absent
    BY <1>1, <1>4 DEF Has
  <2> QED BY <2>2, <2>3 DEF JSONValue, Absent
<1> QED BY <1>3, <1>4

LEMMA RecipientTold ==
  ASSUME NEW doc, NEW c \in Call, NEW k, NEW P, NEW U, NEW H, NEW x, NEW alg,
         WroteHeaders(doc, c, k, P, U, H), WroteKey(doc, c, k, P, U, H, x, alg)
  PROVE  Told(MergedOf(doc, k), doc, c, k, alg)
<1> DEFINE m   == MergedOf(doc, k)
           enc == chooseEnc(c.opts)
           own == OwnKey(c, k)
           cek == doc.content.cek
           ek  == doc.recipients[k].encrypted_key
           B   == baseHeader(c.opts)
<1>1. /\ P \in Headers /\ U \in Headers /\ H \in Headers
      /\ k \in 1..Len(doc.recipients)
      /\ doc.protected = Seg("json", JSON(P)) /\ doc.unprotected = JSON(U)
      /\ doc.recipients[k].header = JSON(H)
      /\ mergeThree(P, U, H).err = nil
      /\ P["zip"] = B["zip"] /\ ~Has(U, "zip") /\ ~Has(H, "zip")
  BY DEF WroteHeaders
<1>2. /\ alg \in DOMAIN keyMgmts /\ enc \in DOMAIN contentEncs
      /\ x \in {P, H} /\ x["alg"] = Str(alg) /\ P["enc"] = Str(enc)
      /\ Wraps(alg, enc, own, x, cek, ek)
  BY DEF WroteKey
<1>3. m = copyHeader(copyHeader(JSON(P), JSON(U)), JSON(H))
  BY <1>1, MergedOfMade
<1> HIDE DEF m, enc, own, cek, ek, B
<1>4. MergesTo(m, P, U, H)
  BY <1>1, <1>3, MergedReads
<1>5. "alg" \in Name /\ "enc" \in Name /\ "zip" \in Name
  BY NameAssumption, KeyMgmtAssumption
<1>6. m["alg"] = Str(alg) /\ m["enc"] = Str(enc)
  <2>1. P["alg"] = Str(alg) \/ H["alg"] = Str(alg)
    BY <1>2
  <2> QED BY <1>1, <1>2, <1>3, <1>5, <2>1, MergedMember
<1>7. ~StrayPartyInfo(c) => Wraps(alg, enc, own, m, cek, ek)
  BY <1>2, <1>4, CarriedToAll, WrapsAfterJSON
<1>8. m["zip"] = JSON(P)["zip"]
  <2>1. JSON(P)["zip"] = JSONValue(P["zip"])
    BY <1>5 DEF JSON
  <2>2. CASE Has(P, "zip")
    BY <1>4, <1>5, <2>1, <2>2 DEF MergesTo
  <2>3. CASE ~Has(P, "zip")
    <3>1. m["zip"] = Absent /\ P["zip"] = Absent
      BY <1>1, <1>4, <1>5, <2>3 DEF MergesTo, Has
    <3> QED BY <2>1, <3>1 DEF JSONValue, Absent
  <2> QED BY <2>2, <2>3
<1>9. ~IdleZip(c) => m["zip"] \in {Absent, Str("DEF")}
  <2>1. ~IdleZip(c) => B["zip"] \in {Absent, Str("DEF")}
    BY <1>5 DEF IdleZip, Has, B
  <2> QED BY <1>1, <1>5, <1>8, <2>1, KeepsZip
<1>10. doc.protected.hdr = JSON(P)
  BY <1>1 DEF Seg
<1>11. m \in Headers
  BY <1>4 DEF MergesTo
<1>12. Told(m, doc, c, k, alg)
  BY <1>2, <1>6, <1>7, <1>8, <1>9, <1>10, <1>11 DEF Told, m, enc, own, cek, ek
<1> QED BY <1>12 DEF m

\* How many octets a consumer with these options allows a plaintext to inflate to.
LimitOf(opts) == IF opts.MaxDecompressed <= 0 THEN MaxDecompressedSize
                 ELSE opts.MaxDecompressed

LEMMA LimitType == ASSUME NEW opts \in DecryptOptions PROVE LimitOf(opts) \in Int
<1>1. opts.MaxDecompressed \in Int
  BY DEF DecryptOptions
<1>2. MaxDecompressedSize \in Int
  BY SMT DEF MaxDecompressedSize
<1> QED BY <1>1, <1>2 DEF LimitOf

\* A body no larger than that is inflated.
LEMMA InflatesWithin ==
  ASSUME NEW m, NEW b, NEW opts \in DecryptOptions, NEW t \in Text,
         m["zip"] \in {Absent, Str("DEF")},
         m["zip"] = Str("DEF") => b = deflate(t),
         Has(m, "zip") => TextSize[t] <= LimitOf(opts)
  PROVE  maybeInflate(m, b, opts).err = nil
<1> DEFINE limit == LimitOf(opts)
<1>1. maybeInflate(m, b, opts) =
        IF ~Has(m, "zip") THEN [err |-> nil, body |-> b]
        ELSE IF m["zip"] # Str("DEF") THEN [err |-> "ErrInvalidHeader", body |-> Body("")]
        ELSE inflate(b, limit)
  BY DEF maybeInflate, LimitOf
<1>2. CASE ~Has(m, "zip")
  BY <1>1, <1>2
<1>3. CASE Has(m, "zip")
  <2>1. m["zip"] = Str("DEF") /\ b = deflate(t)
    BY <1>3 DEF Has
  <2>2. TextSize[t] \in Int /\ limit \in Int
    <3>1. limit \in Int
      BY LimitType
    <3>2. TextSize \in [Text -> Nat]
      BY ContentAssumption
    <3> HIDE DEF limit
    <3> QED BY <3>1, <3>2
  <2>3. ~(TextSize[t] > limit)
    BY <1>3, <2>2
  <2> HIDE DEF limit
  <2>4. inflate(b, limit).err = nil
    BY <2>1, <2>3 DEF inflate, deflate
  <2> QED BY <1>1, <1>3, <2>1, <2>4
<1> QED BY <1>2, <1>3

\* What decryptOne makes of a document whose parts it can read.
LEMMA DecryptOneIs ==
  ASSUME NEW h, NEW ek, NEW doc, NEW key, NEW opts,
         PermitOf(h, key, opts) = nil, ResolvedOf(h, key).err = nil,
         CEKOf(h, ek, key).err = nil,
         CEKOf(h, ek, key).cek.size = contentEncs[EncOf(h)].keySize
  PROVE  decryptOne(h, ek, doc, key, opts) =
           orFailed(OpenOf(h, ek, doc, key),
             orFailed(ReadOf(h, doc, opts).err,
                [err |-> nil, plaintext |-> ReadOf(h, doc, opts).body, header |-> h]))
<1> DEFINE last == orFailed(OpenOf(h, ek, doc, key),
                     orFailed(ReadOf(h, doc, opts).err,
                       [err |-> nil, plaintext |-> ReadOf(h, doc, opts).body, header |-> h]))
           cek  == CEKOf(h, ek, key)
           r2   == IF cek.err # nil THEN failed(cek.err)
                   ELSE IF cek.cek.size # contentEncs[EncOf(h)].keySize
                   THEN failed("ErrDecryptFailed") ELSE last
<1>1. decryptOne(h, ek, doc, key, opts) =
        orFailed(PermitOf(h, key, opts), orFailed(ResolvedOf(h, key).err, r2))
  BY DecryptOneParts
<1> HIDE DEF last, cek
<1>2. r2 = last
  BY DEF cek
<1> HIDE DEF r2
<1>3. orFailed(ResolvedOf(h, key).err, r2) = r2
  BY DEF orFailed
<1>4. orFailed(PermitOf(h, key, opts), r2) = r2
  BY DEF orFailed
<1> QED BY <1>1, <1>2, <1>3, <1>4 DEF last

(***************************************************************************)
(* Who resolves and may use the decryption key of a recipient reads what   *)
(* the call wrote for that recipient.                                      *)
(***************************************************************************)
ReadsPlaintext(r, c) == r.err = nil /\ r.plaintext = Body(c.plaintext)

LEMMA DecryptOneReads ==
  ASSUME NEW doc, NEW c \in Call, NEW k \in 1..Len(c.recipients), NEW m, NEW alg,
         Told(m, doc, c, k, alg), ~StrayPartyInfo(c), ~IdleZip(c),
         WrittenContent(doc.content, doc.protected, doc.aad, c), doc.parts = AsMade,
         NEW key \in KeyArgs, NEW opts \in DecryptOptions,
         PermitOf(m, key, opts) = nil, ResolvedOf(m, key).err = nil,
         KeyTo(ResolvedOf(m, key).key, OwnKey(c, k), alg),
         Has(m, "zip") => TextSize[c.plaintext] <= LimitOf(opts)
  PROVE  ReadsPlaintext(decryptOne(m, doc.recipients[k].encrypted_key, doc, key, opts), c)
<1> DEFINE enc  == chooseEnc(c.opts)
           own  == OwnKey(c, k)
           ek   == doc.recipients[k].encrypted_key
           cek  == doc.content.cek
           g    == ResolvedOf(m, key).key
           body == doc.content.body
           read == ReadOf(m, doc, opts)
<1>1. /\ alg \in DOMAIN keyMgmts /\ enc \in DOMAIN contentEncs
      /\ m["alg"] = Str(alg) /\ m["enc"] = Str(enc)
      /\ Wraps(alg, enc, own, m, cek, ek)
      /\ m["zip"] = doc.protected.hdr["zip"] /\ m["zip"] \in {Absent, Str("DEF")}
  BY DEF Told
<1>2. /\ doc.content = encryptContent(enc, cek, doc.protected, doc.aad, body)
      /\ cek.size = contentEncs[enc].keySize
      /\ ~Has(doc.protected.hdr, "zip") => body = Body(c.plaintext)
      /\ doc.protected.hdr["zip"] = Str("DEF") => body = deflate(c.plaintext)
  BY DEF WrittenContent
<1>3. AlgOf(m) = alg /\ EncOf(m) = enc
  BY <1>1 DEF AlgOf, EncOf, Algorithm, HeaderString, Str
<1>4. own \in GoKeys /\ g \in GoKeys
  BY OwnKeyType, ResolveType DEF ResolvedOf
<1> HIDE DEF enc, own, ek, cek, g, body
<1>5. decryptKey(alg, enc, g, m, ek) = found(cek)
  BY <1>1, <1>2, <1>4, DecryptKeyRecovers DEF g, own
<1>6. CEKOf(m, ek, key) = found(cek)
  BY <1>3, <1>5 DEF CEKOf, g
<1>7. CEKOf(m, ek, key).err = nil /\ CEKOf(m, ek, key).cek = cek
  BY <1>6 DEF found
<1>8. OpenOf(m, ek, doc, key) = nil
  <2>1. Unchanged(doc.parts, doc.content)
    BY DEF Unchanged, AsMade
  <2>2. decryptContent(enc, cek, doc.content, doc.parts, doc.protected, doc.aad) = nil
    BY <1>2, <2>1 DEF decryptContent, body
  <2> QED BY <1>3, <1>7, <2>2 DEF OpenOf
<1>9. c.plaintext \in Text
  BY DEF Call
<1>10. read.err = nil
  <2>1. maybeInflate(m, body, opts).err = nil
    BY <1>1, <1>2, <1>9, InflatesWithin
  <2> QED BY <2>1 DEF ReadOf, body
<1>11. read.body = Body(c.plaintext)
  <2>1. Has(m, "zip") <=> Has(doc.protected.hdr, "zip")
    BY <1>1 DEF Has
  <2>2. maybeInflate(m, body, opts).err = nil
    BY <1>10 DEF ReadOf, body
  <2>3. maybeInflate(m, body, opts).body = Body(c.plaintext)
    BY <1>1, <1>2, <2>1, <2>2, MaybeInflateSucceeds
  <2> QED BY <2>3 DEF ReadOf, body
<1> DEFINE last == [err |-> nil, plaintext |-> read.body, header |-> m]
           r    == decryptOne(m, ek, doc, key, opts)
<1>12. r = orFailed(OpenOf(m, ek, doc, key), orFailed(read.err, last))
  BY <1>2, <1>3, <1>7, DecryptOneIs
<1>13. last.err = nil /\ last.plaintext = Body(c.plaintext)
  BY <1>11
<1> HIDE DEF last, read, r
<1>14. r = last
  BY <1>8, <1>10, <1>12 DEF orFailed
<1> QED BY <1>13, <1>14 DEF r, ek, ReadsPlaintext

\* The key argument holds the decryption key to own, and is permitted to use it
\* on what has header m.
Holds(key, m, own, alg) ==
    LET at == selectJWK(key, KeyID(m))
    IN  \/ key.kind = "go" /\ KeyTo(key.raw, own, alg)
        \/ at # 0 /\ key.keys[at].valid /\ KeyTo(key.keys[at].material, own, alg)
           /\ Permits(key.keys[at], DecryptOps, AlgsOf(m))

LEMMA HeldKeyResolves ==
  ASSUME NEW key, NEW m, NEW own, NEW alg, Holds(key, m, own, alg)
  PROVE  /\ ResolvedOf(m, key).err = nil
         /\ checkJWKUsage(key, KeyID(m), "enc", AlgsOf(m), DecryptOps) = nil
         /\ KeyTo(ResolvedOf(m, key).key, own, alg)
<1> PICK kid : kid = KeyID(m)
  OBVIOUS
<1> PICK at : at = selectJWK(key, kid)
  OBVIOUS
<1>1. CASE key.kind = "go" /\ KeyTo(key.raw, own, alg)
  <2>1. selectJWK(key, kid) = 0
    BY <1>1 DEF selectJWK
  <2>2. resolveKey(key, kid) = [err |-> nil, key |-> key.raw]
    BY <1>1 DEF resolveKey
  <2> QED BY <1>1, <2>1, <2>2 DEF ResolvedOf, checkJWKUsage
<1>2. CASE at # 0 /\ key.keys[at].valid /\ KeyTo(key.keys[at].material, own, alg)
           /\ Permits(key.keys[at], DecryptOps, AlgsOf(m))
  <2>1. PICK j : j = key.keys[at]
    OBVIOUS
  <2>2. key.kind = "*JWK" \/ key.kind = "*JWKSet"
    BY <1>2 DEF selectJWK
  <2>3. resolveKey(key, kid) = Key(j)
    <3>1. CASE key.kind = "*JWK"
      <4>1. at = 1
        BY <3>1 DEF selectJWK
      <4> QED BY <2>1, <3>1, <4>1 DEF resolveKey
    <3>2. CASE key.kind = "*JWKSet" /\ kid = "" /\ Len(key.keys) = 1
      <4>1. at = 1
        BY <3>2 DEF selectJWK
      <4> QED BY <2>1, <3>2, <4>1 DEF resolveKey
    <3>3. CASE key.kind = "*JWKSet" /\ ~(kid = "" /\ Len(key.keys) = 1)
      <4>1. at = LookupKeyID(key.keys, kid)
        BY <3>3 DEF selectJWK
      <4> QED BY <1>2, <2>1, <3>3, <4>1 DEF resolveKey
    <3> QED BY <2>2, <3>1, <3>2, <3>3
  <2>4. Key(j).err = nil /\ Key(j).key = j.material
    BY <1>2, <2>1 DEF Key
  <2>5. /\ ~(j.use # "" /\ j.use # "enc") /\ ~(j.alg # "" /\ j.alg \notin AlgsOf(m))
        /\ ~(j.key_ops # {} /\ j.key_ops \cap DecryptOps = {})
    BY <1>2, <2>1 DEF Permits
  <2>6. checkJWKUsage(key, kid, "enc", AlgsOf(m), DecryptOps) = nil
    BY <1>2, <2>1, <2>5 DEF checkJWKUsage
  <2> QED BY <1>2, <2>1, <2>3, <2>4, <2>6 DEF ResolvedOf
<1> QED BY <1>1, <1>2 DEF Holds

\* The consumer's lists of algorithms and encryptions do not leave out those
\* of m.
Allows(opts, m) ==
    /\ opts.Algorithms = <<>> \/ containsString(opts.Algorithms, Algorithm(m))
    /\ opts.Encryptions = <<>> \/ containsString(opts.Encryptions, HeaderString(m, "enc"))

LEMMA AllowedIsPermitted ==
  ASSUME NEW m, NEW doc, NEW c, NEW k, NEW alg, Told(m, doc, c, k, alg), NEW key, NEW opts,
         Allows(opts, m),
         checkJWKUsage(key, KeyID(m), "enc", AlgsOf(m), DecryptOps) = nil
  PROVE  PermitOf(m, key, opts) = nil
<1> PICK enc : enc = EncOf(m)
  OBVIOUS
<1>1. AlgOf(m) = alg /\ Algorithm(m) = alg /\ HeaderString(m, "enc") = enc
  BY DEF Told, AlgOf, EncOf, Algorithm, HeaderString, Str
<1>2. alg \in DOMAIN keyMgmts /\ enc \in DOMAIN contentEncs
  BY DEF Told, EncOf, HeaderString, Str
<1>3. alg # ""
  BY <1>2 DEF keyMgmts
<1>4. enc # ""
  BY <1>2 DEF contentEncs
<1>5. lookupKeyMgmt(alg) = nil /\ lookupEnc(enc) = nil
  BY <1>2 DEF lookupKeyMgmt, lookupEnc
<1>6. checkJWKUsage(key, KeyID(m), "enc", {alg, enc},
                    {"decrypt", "unwrapKey", "deriveKey"}) = nil
  BY <1>1 DEF AlgsOf, DecryptOps
<1>7. /\ opts.Algorithms = <<>> \/ containsString(opts.Algorithms, alg)
      /\ opts.Encryptions = <<>> \/ containsString(opts.Encryptions, enc)
  BY <1>1 DEF Allows
<1> QED BY <1>1, <1>3, <1>4, <1>5, <1>6, <1>7 DEF PermitOf, permitErr, firstErr

\* A list of critical parameters that all are known.
KnowsAll(opts, P) ==
    \A i \in 1..Len(Critical(P)) : containsString(opts.KnownCritical, Critical(P)[i])

(***************************************************************************)
(* DecryptJSONWithOptions' loop tries recipient k with the headers that    *)
(* were written for it.                                                    *)
(***************************************************************************)
LEMMA RecipientReaches ==
  ASSUME NEW doc, NEW c, NEW k, NEW P, NEW U, NEW H, WroteHeaders(doc, c, k, P, U, H),
         NEW key, NEW opts, KnowsAll(opts, doc.protected.hdr),
         doc.recipients[k].encrypted_key.form # "notb64"
  PROVE  decryptRecipient(doc, doc.recipients[k], key, opts) =
           decryptOne(MergedOf(doc, k), doc.recipients[k].encrypted_key, doc, key, opts)
<1> DEFINE p == JSON(P)
           r == doc.recipients[k]
           m == MergedOf(doc, k)
           one == decryptOne(m, r.encrypted_key, doc, key, opts)
<1>1. /\ P \in Headers /\ U \in Headers /\ H \in Headers
      /\ k \in 1..Len(doc.recipients)
      /\ doc.protected = Seg("json", p) /\ doc.unprotected = JSON(U)
      /\ r.header = JSON(H)
      /\ mergeThree(P, U, H).err = nil /\ checkCriticalProduced(P) = nil
      /\ ~Has(U, "zip") /\ ~Has(H, "zip")
  BY DEF WroteHeaders
<1>2. protectedOf(doc).hdr = p /\ doc.protected.hdr = p
  BY <1>1 DEF protectedOf, decodeHeader, Seg
<1>3. m = copyHeader(copyHeader(p, JSON(U)), JSON(H))
  BY <1>1, MergedOfMade
<1>4. mergeThree(p, JSON(U), JSON(H)) = [err |-> nil, hdr |-> m]
  BY <1>1, <1>3, MergedReads
<1>5. checkCritical(p, opts.KnownCritical) = nil
  BY <1>1, <1>2, CriticalSurvivesJSON DEF KnowsAll
<1>6. ~unprotectedZip(doc, r)
  <2>1. "zip" \in Name
    BY KeyMgmtAssumption
  <2> QED BY <1>1, <2>1, JSONMember DEF unprotectedZip
<1> DEFINE merged == mergeThree(p, doc.unprotected, r.header)
<1>7. merged.err = nil /\ merged.hdr = m
  BY <1>1, <1>4
<1> HIDE DEF m, p, merged
<1>8. decryptRecipient(doc, r, key, opts) =
        orFailed(firstErr(merged.err, checkCritical(p, opts.KnownCritical)),
                 decryptOne(merged.hdr, r.encrypted_key, doc, key, opts))
  BY <1>2, <1>6 DEF decryptRecipient, merged
<1>9. firstErr(merged.err, checkCritical(p, opts.KnownCritical)) = nil
  BY <1>5, <1>7 DEF firstErr
<1>10. decryptOne(merged.hdr, r.encrypted_key, doc, key, opts) = one
  BY <1>7
<1> HIDE DEF one
<1> QED BY <1>8, <1>9, <1>10 DEF orFailed, one, m

\* So does DecryptWithOptions.
LEMMA CompactReaches ==
  ASSUME NEW doc, NEW c, NEW P, NEW U, NEW H, WroteHeaders(doc, c, 1, P, U, H),
         doc.form = "compact", WellFormed(doc), partsErr(doc) = nil,
         NEW key, NEW opts, KnowsAll(opts, doc.protected.hdr),
         doc.recipients[1].encrypted_key.form # "notb64"
  PROVE  DecryptWithOptions(doc, key, opts) =
           decryptOne(MergedOf(doc, 1), doc.recipients[1].encrypted_key, doc, key, opts)
<1> DEFINE p == JSON(P)
           r == doc.recipients[1]
           m == MergedOf(doc, 1)
           one == decryptOne(m, r.encrypted_key, doc, key, opts)
<1>1. /\ P \in Headers /\ U \in Headers /\ H \in Headers
      /\ 1 \in 1..Len(doc.recipients)
      /\ doc.protected = Seg("json", p) /\ doc.unprotected = JSON(U)
      /\ r.header = JSON(H)
      /\ mergeThree(P, U, H).err = nil /\ checkCriticalProduced(P) = nil
  BY DEF WroteHeaders
<1>2. decodeHeader(doc.protected) = [err |-> nil, hdr |-> p] /\ doc.protected.hdr = p
  BY <1>1 DEF decodeHeader, Seg
<1>3. JSON(U) = NoHeader /\ JSON(H) = NoHeader
  BY <1>1 DEF WellFormed
<1>4. m = copyHeader(copyHeader(p, JSON(U)), JSON(H))
  BY <1>1, MergedOfMade
<1>5. mergeThree(p, JSON(U), JSON(H)) = [err |-> nil, hdr |-> m]
  BY <1>1, <1>4, MergedReads
<1>6. p \in Headers
  BY <1>1, JSONType
<1>7. mergeThree(p, JSON(U), JSON(H)) = [err |-> nil, hdr |-> p]
  BY <1>3, <1>6, MergeNothing
<1> HIDE DEF m
<1>8. m = p
  BY <1>5, <1>7
<1>9. checkCritical(p, opts.KnownCritical) = nil
  BY <1>1, <1>2, CriticalSurvivesJSON DEF KnowsAll
<1> HIDE DEF p, one
<1>10. DecryptWithOptions(doc, key, opts) =
         orFailed(firstErr(checkCritical(p, opts.KnownCritical), nil),
                  decryptOne(p, r.encrypted_key, doc, key, opts))
  BY <1>2 DEF DecryptWithOptions
<1>11. firstErr(checkCritical(p, opts.KnownCritical), nil) = nil
  BY <1>9 DEF firstErr
<1> QED BY <1>8, <1>10, <1>11 DEF orFailed, m

\* The content was compressed, from no more than the consumer allows, where its
\* protected header says so.
ContentFits(content, opts) ==
    \E t \in Text : /\ content.protected.hdr["zip"] = Str("DEF") => content.body = deflate(t)
                    /\ TextSize[t] <= LimitOf(opts)

\* A failure that tells nobody which step failed.
Uniform(r) == r.err \in {nil, "ErrDecryptFailed"}

\* An encrypted key of the form and the length that alg takes.
HasKeyForm(ek, alg) ==
    IF derivesCEK(alg) THEN ek.form = "" ELSE ek.form = "b64" /\ UnwrapLength(ek)

IsGoKey(key) == key.kind = "go"

(***************************************************************************)
(* A key that fits, on octets that were changed, fails the one way.        *)
(***************************************************************************)
LEMMA DecryptOneUniform ==
  ASSUME NEW made, NEW c \in Call, NEW k \in 1..Len(c.recipients), NEW m, NEW alg,
         Told(m, made, c, k, alg), ~StrayPartyInfo(c), ~IdleZip(c),
         NEW doc, doc.protected = made.protected,
         NEW opts \in DecryptOptions, Allows(opts, m), ContentFits(doc.content, opts),
         NEW ek, HasKeyForm(ek, alg),
         NEW key \in KeyArgs, IsGoKey(key), Fits(key.raw, OwnKey(c, k), alg)
  PROVE  Uniform(decryptOne(m, ek, doc, key, opts))
<1> DEFINE enc  == chooseEnc(c.opts)
           own  == OwnKey(c, k)
           cek  == made.content.cek
           mek  == made.recipients[k].encrypted_key
           g    == key.raw
           got  == CEKOf(m, ek, key)
           open == OpenOf(m, ek, doc, key)
           read == ReadOf(m, doc, opts)
           last == [err |-> nil, plaintext |-> read.body, header |-> m]
<1>1. /\ alg \in DOMAIN keyMgmts /\ enc \in DOMAIN contentEncs
      /\ m["alg"] = Str(alg) /\ m["enc"] = Str(enc)
      /\ Wraps(alg, enc, own, m, cek, mek)
      /\ m["zip"] = doc.protected.hdr["zip"] /\ m["zip"] \in {Absent, Str("DEF")}
  BY DEF Told
<1>2. AlgOf(m) = alg /\ EncOf(m) = enc
  BY <1>1 DEF AlgOf, EncOf, Algorithm, HeaderString, Str
<1>3. own \in GoKeys /\ g \in GoKeys
  BY OwnKeyType DEF KeyArgs
<1>4. ResolvedOf(m, key).err = nil /\ ResolvedOf(m, key).key = g
  BY DEF ResolvedOf, resolveKey, IsGoKey
<1>5. PermitOf(m, key, opts) = nil
  <2>1. checkJWKUsage(key, KeyID(m), "enc", AlgsOf(m), DecryptOps) = nil
    BY DEF checkJWKUsage, selectJWK, IsGoKey
  <2> QED BY <2>1, AllowedIsPermitted
<1> HIDE DEF enc, own, cek, mek, g
<1>6. Uniform(got)
  <2>1. decryptKey(alg, enc, g, m, ek).err \in {nil, "ErrDecryptFailed"}
    BY <1>1, <1>3, DecryptKeyUniform DEF own, g, HasKeyForm
  <2> QED BY <1>2, <1>4, <2>1 DEF CEKOf, Uniform
<1>7. \A e : failed(e).err = e
  BY DEF failed
<1>8. ASSUME NEW e, NEW r, e \in {nil, "ErrDecryptFailed"}, e = nil => Uniform(r)
      PROVE  Uniform(orFailed(e, r))
  <2>1. CASE e = nil
    BY <1>8, <2>1 DEF orFailed
  <2>2. CASE e # nil
    BY <1>7, <1>8, <2>2 DEF orFailed, Uniform
  <2> QED BY <2>1, <2>2
<1>9. ASSUME got.cek.size = contentEncs[EncOf(m)].keySize
      PROVE  open \in {nil, "ErrDecryptFailed"}
             /\ (open = nil => doc.content.protected = doc.protected)
  <2> DEFINE content == doc.content
             made2   == encryptContent(enc, got.cek, doc.protected, doc.aad, content.body)
  <2>1. open = IF content = made2 /\ Unchanged(doc.parts, content) THEN nil
               ELSE "ErrDecryptFailed"
    BY <1>2, <1>9 DEF OpenOf, decryptContent
  <2>2. made2.protected = doc.protected
    BY DEF encryptContent
  <2> HIDE DEF made2, open
  <2> QED BY <2>1, <2>2 DEF nil
<1>10. doc.content.protected = doc.protected => read.err = nil
  <2> SUFFICES ASSUME doc.content.protected = doc.protected PROVE read.err = nil
    OBVIOUS
  <2> PICK body : body = doc.content.body
    OBVIOUS
  <2>1. PICK t \in Text : /\ doc.protected.hdr["zip"] = Str("DEF") => body = deflate(t)
                          /\ TextSize[t] <= LimitOf(opts)
    BY DEF ContentFits
  <2>2. maybeInflate(m, body, opts).err = nil
    BY <1>1, <2>1, InflatesWithin
  <2> QED BY <2>2 DEF ReadOf
<1>11. last.err = nil
  OBVIOUS
<1>12. CASE got.err # nil
  <2> DEFINE r2 == failed(got.err)
             r1 == orFailed(ResolvedOf(m, key).err, r2)
  <2>1. decryptOne(m, ek, doc, key, opts) = orFailed(PermitOf(m, key, opts), r1)
    BY <1>12, DecryptOneParts
  <2>2. Uniform(r2)
    BY <1>6, <1>7 DEF Uniform
  <2> HIDE DEF r2
  <2>3. Uniform(r1)
    BY <1>4, <1>8, <2>2
  <2> HIDE DEF r1
  <2>4. Uniform(decryptOne(m, ek, doc, key, opts))
    BY <1>5, <1>8, <2>1, <2>3
  <2> QED BY <2>4
<1>13. CASE got.err = nil /\ got.cek.size # contentEncs[EncOf(m)].keySize
  <2> DEFINE r2 == failed("ErrDecryptFailed")
             r1 == orFailed(ResolvedOf(m, key).err, r2)
  <2>1. decryptOne(m, ek, doc, key, opts) = orFailed(PermitOf(m, key, opts), r1)
    BY <1>13, DecryptOneParts
  <2>2. Uniform(r2)
    BY <1>7 DEF Uniform
  <2> HIDE DEF r2
  <2>3. Uniform(r1)
    BY <1>4, <1>8, <2>2
  <2> HIDE DEF r1
  <2>4. Uniform(decryptOne(m, ek, doc, key, opts))
    BY <1>5, <1>8, <2>1, <2>3
  <2> QED BY <2>4
<1>14. CASE got.err = nil /\ got.cek.size = contentEncs[EncOf(m)].keySize
  <2>1. decryptOne(m, ek, doc, key, opts) = orFailed(open, orFailed(read.err, last))
    BY <1>4, <1>5, <1>14, DecryptOneIs
  <2>2. /\ open \in {nil, "ErrDecryptFailed"}
        /\ open = nil => read.err = nil
    BY <1>9, <1>10, <1>14
  <2> HIDE DEF open, read, last
  <2>3. Uniform(last)
    BY <1>11 DEF Uniform
  <2>4. open = nil => Uniform(orFailed(read.err, last))
    BY <1>8, <2>2, <2>3
  <2>5. Uniform(decryptOne(m, ek, doc, key, opts))
    BY <1>8, <2>1, <2>2, <2>4
  <2> QED BY <2>5
<1> QED BY <1>12, <1>13, <1>14

LEMMA EmptyDecodes == DecodeSegment(Empty).err = nil
<1>1. EncodeSegment(Empty) = Empty
  BY DEF EncodeSegment
<1> QED BY <1>1, EmptyType, LayerRoundTrip

LEMMA JSONOfNoHeader == JSON(NoHeader) = NoHeader
  BY DEF JSON, NoHeader, JSONValue, Absent

\* Encrypt writes for its one recipient, into the protected header.
LEMMA EncryptWrites ==
  ASSUME NEW c \in Call, SingleCall(c), NEW draws, draws.cek \in Symbol,
         draws.own \in DOMAIN SegLen,
         Encrypt(c.plaintext, c.recipients[1].Key, c.opts, draws).err = nil
  PROVE  Wrote(Encrypt(c.plaintext, c.recipients[1].Key, c.opts, draws).doc, c, 1)
<1> DEFINE key    == c.recipients[1].Key
           opts   == c.opts
           enc    == chooseEnc(opts)
           p      == prepare(key, opts.KeyID, opts.Algorithm, enc)
           header == compactHeader(key, opts, p.alg)
           made   == encryptKey(p.alg, enc, p.key, header, NoSecret, draws)
           s      == seal(c.plaintext, made.header, enc, made.cek, Empty)
           e      == entry(NoHeader, made.key)
           doc    == Encrypt(c.plaintext, key, opts, draws).doc
<1>1. /\ lookupEnc(enc) = nil /\ p.err = nil /\ made.err = nil /\ s.err = nil
      /\ checkCriticalProduced(header) = nil
      /\ doc = [NoDoc EXCEPT !.form = "compact", !.protected = s.content.protected,
                             !.recipients = <<e>>, !.content = s.content]
  <2>1. EncryptsAs(doc, c.plaintext, key, opts, draws)
    BY EncryptParts
  <2> QED BY <2>1 DEF EncryptsAs
<1>2. /\ 1 \in 1..Len(c.recipients) /\ opts.KeyID = c.recipients[1].KeyID
      /\ opts \in EncryptOptions /\ c.plaintext \in Text
  BY DEF SingleCall, Call
<1>3. key \in KeyArgs
  BY <1>2, AddressedType DEF Recipient
<1>4. enc \in DOMAIN contentEncs /\ enc \in Symbol
  BY <1>1, LookupEnc, EncType
<1>5. p.alg \in DOMAIN keyMgmts /\ p.alg \in Symbol /\ p.key \in GoKeys
      /\ p.key = OwnKey(c, 1)
  <2>1. Prepared(p, key, opts.KeyID, enc)
    BY <1>1, <1>3, PrepareSucceeds
  <2> HIDE DEF p
  <2> QED BY <1>2, <2>1 DEF Prepared, OwnKey
<1> HIDE DEF p
<1>6. Stamped(header, baseHeader(opts), p.alg)
  BY <1>2, <1>3, <1>5, CompactHeaderType
<1>7. header \in Headers /\ header["alg"] = Str(p.alg) /\ header["enc"] = Str(enc)
      /\ header["zip"] = baseHeader(opts)["zip"]
  <2>1. "enc" \in Name \ {"alg", "kid"} /\ "zip" \in Name \ {"alg", "kid"}
    BY KeyMgmtAssumption
  <2>2. baseHeader(opts)["enc"] = Str(enc)
    BY <1>2, BaseHeaderType
  <2> HIDE DEF header, enc
  <2> QED BY <1>6, <2>1, <2>2 DEF Stamped
<1> HIDE DEF header, enc
<1>8. draws.own \in Symbol
  BY SegTexts
<1>9. KeyMade(made, p.key.pair, p.alg, enc, header, NoSecret, draws)
  BY <1>1, <1>4, <1>5, <1>7, <1>8, NoSecretType, EncryptKeyMade
<1>10. KeyWraps(made, p.alg, enc, p.key)
  BY <1>1, <1>4, <1>5, <1>7, EncryptKeyWraps
<1> HIDE DEF made
<1> DEFINE P == made.header
<1>11. made.cek \in Secrets /\ P \in Headers
       /\ \A n \in Name \ KeyOutputs : P[n] = header[n]
  BY <1>9 DEF KeyMade
<1>12. made.cek.size = contentEncs[enc].keySize
       /\ Wraps(p.alg, enc, OwnKey(c, 1), P, made.cek, made.key)
  BY <1>5, <1>10 DEF KeyWraps
<1>13. "alg" \in Name \ KeyOutputs /\ "enc" \in Name \ KeyOutputs /\ "zip" \in Name \ KeyOutputs
  BY NameAssumption, KeyMgmtAssumption DEF KeyOutputs
<1>14. P["alg"] = Str(p.alg) /\ P["enc"] = Str(enc) /\ P["zip"] = baseHeader(opts)["zip"]
  BY <1>7, <1>11, <1>13
<1>15. checkCriticalProduced(P) = nil
  BY <1>1, <1>7, <1>11, CriticalUnchanged
<1> DEFINE content == s.content
<1>16. /\ content \in Contents /\ content.cek = made.cek
       /\ content.protected = Seg("json", JSON(P))
       /\ WrittenContent(content, content.protected, Empty, c)
  BY <1>1, <1>11, <1>12, EmptyType, SealWrites DEF enc
<1>17. doc = [NoDoc EXCEPT !.form = "compact", !.protected = content.protected,
                           !.recipients = <<e>>, !.content = content]
  BY <1>1
<1> HIDE DEF content, P, doc, e
<1>18. /\ doc.form = "compact" /\ doc.protected = content.protected
       /\ doc.unprotected = NoHeader /\ doc.recipients = <<e>> /\ doc.aad = Empty
       /\ doc.content = content /\ doc.parts = NoDoc.parts
  <2> HIDE DEF NoDoc
  <2> QED BY <1>17, NoDocType DEF Docs
<1>19. e.header = NoHeader /\ e.encrypted_key = made.key
  BY DEF e, entry
<1>20. 1 \in 1..Len(doc.recipients) /\ doc.recipients[1] = e
  BY <1>18
<1>21. \A n : ~Has(NoHeader, n)
  BY DEF Has, NoHeader
<1>22. mergeThree(P, NoHeader, NoHeader).err = nil
  BY <1>11, MergeNothing
<1>23. WroteHeaders(doc, c, 1, P, NoHeader, NoHeader)
  BY <1>11, <1>14, <1>15, <1>16, <1>18, <1>19, <1>20, <1>21, <1>22, NoHeaderType,
     JSONOfNoHeader DEF WroteHeaders
<1>24. WroteKey(doc, c, 1, P, NoHeader, NoHeader, P, p.alg)
  BY <1>4, <1>5, <1>12, <1>14, <1>16, <1>18, <1>19, <1>20, <1>21 DEF WroteKey, enc
<1>25. doc.parts = AsMade
  BY <1>18 DEF NoDoc
<1>26. Wrote(doc, c, 1)
  BY <1>16, <1>18, <1>23, <1>24, <1>25, EmptyDecodes DEF Wrote
<1> QED BY <1>26 DEF doc

\* A document whose content call c wrote, as it leaves the producer.
WroteContent(doc, cek, c) ==
    /\ WrittenContent(doc.content, doc.protected, doc.aad, c) /\ doc.content.cek = cek
    /\ doc.form \in {"compact", "general"} /\ doc.parts = AsMade
    /\ DecodeSegment(doc.aad).err = nil

\* finish writes the headers it was given.
LEMMA FinishWrites ==
  ASSUME NEW c \in Call, NEW protected \in Headers, NEW cek \in Secrets,
         NEW entries \in Seq(Entries), finish(c, protected, cek, entries).err = nil,
         lookupEnc(chooseEnc(c.opts)) = nil,
         cek.size = contentEncs[chooseEnc(c.opts)].keySize,
         NEW k \in 1..Len(entries),
         protected["zip"] = baseHeader(c.opts)["zip"],
         ~Has(c.opts.Unprotected, "zip"), ~Has(entries[k].header, "zip"),
         NEW doc, doc = finish(c, protected, cek, entries).doc
  PROVE  /\ WroteHeaders(doc, c, k, protected, c.opts.Unprotected, entries[k].header)
         /\ WroteContent(doc, cek, c)
         /\ doc.recipients[k].encrypted_key = entries[k].encrypted_key
<1> DEFINE aad     == EncodeSegment(c.opts.AAD)
           enc     == chooseEnc(c.opts)
           s       == seal(c.plaintext, protected, enc, cek, aad)
           content == s.content
           d       == Sealed(c, content, entries)
           U       == c.opts.Unprotected
           H       == entries[k].header
<1>1. FinishesAs(doc, c, protected, cek, entries)
  BY FinishParts
<1>2. finishErr(protected, U, entries) = nil /\ s.err = nil /\ doc = toJSON(d)
  BY <1>1 DEF FinishesAs
<1>3. c.opts \in EncryptOptions /\ c.plaintext \in Text
  BY DEF Call
<1>4. aad \in Octets /\ enc \in Symbol /\ U \in Headers /\ DecodeSegment(aad).err = nil
  BY <1>3, EncodeType, ChooseEncType, LayerRoundTrip DEF EncryptOptions
<1>5. H \in Headers
  <2>1. entries[k] \in Entries
    OBVIOUS
  <2> QED BY <2>1 DEF Entries
<1>6. mergeThree(protected, U, H).err = nil /\ checkCriticalProduced(protected) = nil
  <2> DEFINE bad == {i \in 1..Len(entries) :
                       mergeThree(protected, U, entries[i].header).err # nil}
  <2>1. bad = {} /\ checkCriticalProduced(protected) = nil
    BY <1>2 DEF finishErr, firstErr, nil
  <2> QED BY <2>1
<1> HIDE DEF aad
<1>7. /\ content \in Contents /\ content.cek = cek
      /\ content.protected = Seg("json", JSON(protected))
      /\ WrittenContent(content, content.protected, aad, c)
  BY <1>2, <1>4, SealWrites
<1> HIDE DEF content, U, enc
<1>8. d = [NoDoc EXCEPT !.form = "general", !.protected = content.protected,
                        !.unprotected = U, !.recipients = entries,
                        !.aad = aad, !.content = content]
  BY DEF Sealed, aad, U
<1>9. content.protected \in ProtectedSegs /\ "general" \in DocForm
  BY <1>7 DEF Contents, DocForm
<1> HIDE DEF d
<1>10. /\ d \in Docs /\ d.form = "general" /\ d.protected = content.protected
       /\ d.unprotected = U /\ d.recipients = entries /\ d.aad = aad
       /\ d.content = content /\ d.parts = NoDoc.parts
  <2> HIDE DEF NoDoc
  <2> QED BY <1>4, <1>7, <1>8, <1>9, NoDocType DEF Docs
<1>11. /\ doc \in Docs /\ doc.form = "general" /\ doc.content = content /\ doc.aad = aad
       /\ doc.protected = content.protected /\ doc.unprotected = JSON(U)
       /\ Len(doc.recipients) = Len(entries) /\ doc.recipients[k].header = JSON(H)
       /\ doc.recipients[k].encrypted_key = entries[k].encrypted_key
  BY <1>2, <1>10, ToJSONType
<1>12. doc.parts = AsMade
  <2>1. doc.parts = d.parts
    BY <1>2, <1>10 DEF toJSON, Docs
  <2> QED BY <1>10, <2>1 DEF NoDoc
<1>13. k \in 1..Len(doc.recipients)
  BY <1>11
<1> HIDE DEF H
<1>14. WroteHeaders(doc, c, k, protected, U, H)
  BY <1>4, <1>5, <1>6, <1>7, <1>11, <1>13 DEF WroteHeaders, U, H
<1>15. WroteContent(doc, cek, c)
  BY <1>4, <1>7, <1>11, <1>12 DEF WroteContent
<1> QED BY <1>11, <1>14, <1>15 DEF U, H
=============================================================================

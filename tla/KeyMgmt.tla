------------------------------ MODULE KeyMgmt ------------------------------
(***************************************************************************)
(* JWE key management (jwa_keymgmt.go, ecdh.go, the bounds of pbkdf2.go):  *)
(* how a content encryption key (CEK) reaches one recipient, which header  *)
(* parameters that reads and writes, and how the recipient recovers it.    *)
(*                                                                         *)
(* An encrypted key is a term, like a signature in SigAlg: which secret    *)
(* wraps which CEK in which mode.  AES key wrapping itself is modelled in  *)
(* KeyWrap, the key derivation loops in KDF.                               *)
(***************************************************************************)
EXTENDS ContentEnc

CONSTANTS
    KeyLen,   \* how many octets the secret of each identity has
    Number,   \* the integers that numerals among Symbol stand for
    MaxInt32, \* math.MaxInt32
    SegLen    \* the base64url texts among Symbol, and how many octets each spells

ASSUME KeyMgmtAssumption ==
    /\ {"epk", "apu", "apv", "iv", "tag", "p2s", "p2c", "enc", "zip"} \subseteq Name
    /\ KeyLen \in [Pair -> Nat]
    /\ DOMAIN Number \subseteq Symbol /\ \A s \in DOMAIN Number : Number[s] \in Int
    /\ MaxInt32 \in Nat
    /\ DOMAIN SegLen \subseteq Symbol /\ \A s \in DOMAIN SegLen : SegLen[s] \in Nat
    /\ "" \in DOMAIN SegLen /\ SegLen[""] = 0

keyMgmt(kind, wrapBits) == [kind |-> kind, wrapBits |-> wrapBits]

keyMgmts == [alg \in {"RSA1_5", "RSA-OAEP", "RSA-OAEP-256", "A128KW", "A192KW", "A256KW",
                      "dir", "ECDH-ES", "ECDH-ES+A128KW", "ECDH-ES+A192KW",
                      "ECDH-ES+A256KW", "A128GCMKW", "A192GCMKW", "A256GCMKW",
                      "PBES2-HS256+A128KW", "PBES2-HS384+A192KW", "PBES2-HS512+A256KW"} |->
    CASE alg \in {"RSA1_5", "RSA-OAEP", "RSA-OAEP-256"} -> keyMgmt("rsa", 0)
      [] alg = "A128KW" -> keyMgmt("kw", 128)
      [] alg = "A192KW" -> keyMgmt("kw", 192)
      [] alg = "A256KW" -> keyMgmt("kw", 256)
      [] alg = "dir" -> keyMgmt("dir", 0)
      [] alg = "ECDH-ES" -> keyMgmt("ecdh", 0)
      [] alg = "ECDH-ES+A128KW" -> keyMgmt("ecdh", 128)
      [] alg = "ECDH-ES+A192KW" -> keyMgmt("ecdh", 192)
      [] alg = "ECDH-ES+A256KW" -> keyMgmt("ecdh", 256)
      [] alg = "A128GCMKW" -> keyMgmt("gcmkw", 128)
      [] alg = "A192GCMKW" -> keyMgmt("gcmkw", 192)
      [] alg = "A256GCMKW" -> keyMgmt("gcmkw", 256)
      [] alg = "PBES2-HS256+A128KW" -> keyMgmt("pbes2", 128)
      [] alg = "PBES2-HS384+A192KW" -> keyMgmt("pbes2", 192)
      [] OTHER -> keyMgmt("pbes2", 256)]   \* PBES2-HS512+A256KW

lookupKeyMgmt(alg) == IF alg \in DOMAIN keyMgmts THEN nil ELSE "ErrUnsupportedAlgorithm"

wrapKeySize(alg) == keyMgmts[alg].wrapBits \div 8

derivesCEK(alg) ==
    keyMgmts[alg].kind = "dir" \/ keyMgmts[alg] = keyMgmt("ecdh", 0)

-----------------------------------------------------------------------------
(* Encrypted keys.                                                         *)

\* mode says how kek protects cek: AES key wrap, AES-GCM with iv and tag, or
\* an RSA encryption under "alg"; "junk" is octets nothing made.
KeyModes == {"junk", "aeskw", "gcm", "RSA1_5", "RSA-OAEP", "RSA-OAEP-256"}
Wrapped  == [mode : KeyModes, kek : Secrets, iv : Symbol, cek : Secrets]
wrapped(mode, kek, iv, cek) == [mode |-> mode, kek |-> kek, iv |-> iv, cek |-> cek]
Junk == wrapped("junk", NoSecret, "", NoSecret)

\* How "encrypted_key" is spelled.
EncryptedKeys == [form : {"", "b64", "notb64"}, key : Wrapped]
NoKey == [form |-> "", key |-> Junk]
b64Key(w) == [form |-> "b64", key |-> w]

\* The octets AES key wrap output must number: at least 24, a multiple of 8.
\* Junk has a length it accepts, as do RSA ciphertexts.
UnwrapLength(ek) ==
    /\ ek.form # ""
    /\ ek.key.mode = "gcm" => ek.key.cek.size >= 24

\* The mutant does not compare the integrity check value.
MutAESKeyUnwrap(kek, ek) ==
    IF ~UnwrapLength(ek) THEN [err |-> "ErrMalformed", cek |-> NoSecret]
    ELSE [err |-> nil, cek |-> ek.key.cek]

AESKeyUnwrap(kek, ek) ==
    IF ~UnwrapLength(ek) THEN [err |-> "ErrMalformed", cek |-> NoSecret]
    ELSE IF ek.key.mode = "aeskw" /\ ek.key.kek = kek
         THEN [err |-> nil, cek |-> ek.key.cek]
    ELSE [err |-> "ErrDecryptFailed", cek |-> NoSecret]

-----------------------------------------------------------------------------
(* Keys as key management takes them.                                      *)

octets(key) == IF key.size = "wrong" THEN 0 ELSE KeyLen[key.pair]

secretOf(key) == [NoSecret EXCEPT !.from = "key", !.id = key.pair, !.size = octets(key)]

symmetricKeyErr(key, size) ==
    IF key.type # "[]byte" THEN "ErrInvalidKeyType"
    ELSE IF octets(key) # size THEN "ErrInvalidKey" ELSE nil

passwordErr(key) ==
    IF key.type \notin {"[]byte", "string"} THEN "ErrInvalidKeyType"
    ELSE IF octets(key) = 0 THEN "ErrInvalidKey" ELSE nil

ecdhCurveErr(key) ==
    IF key.type \in {"*ecdsa.PublicKey", "*ecdsa.PrivateKey"}
       /\ key.crv \notin {"P-256", "P-384", "P-521"} THEN "ErrInvalidKey" ELSE nil

asECDHPublicErr(key) ==
    IF key.type \notin {"*ecdh.PublicKey", "*ecdh.PrivateKey",
                        "*ecdsa.PublicKey", "*ecdsa.PrivateKey"}
    THEN "ErrInvalidKeyType" ELSE ecdhCurveErr(key)

asECDHPrivateErr(key) ==
    IF key.type \notin {"*ecdh.PrivateKey", "*ecdsa.PrivateKey"}
    THEN "ErrInvalidKeyType" ELSE ecdhCurveErr(key)

\* defaultKeyMgmtAlg: "" where an error is returned.
defaultKeyMgmtAlg(key) ==
    CASE key.type \in {"*rsa.PublicKey", "*rsa.PrivateKey"} ->
           [err |-> nil, alg |-> "RSA-OAEP-256"]
      [] key.type \in {"*ecdsa.PublicKey", "*ecdsa.PrivateKey",
                       "*ecdh.PublicKey", "*ecdh.PrivateKey"} ->
           [err |-> nil, alg |-> "ECDH-ES"]
      [] key.type = "[]byte" ->
           CASE octets(key) = 16 -> [err |-> nil, alg |-> "A128KW"]
             [] octets(key) = 24 -> [err |-> nil, alg |-> "A192KW"]
             [] octets(key) = 32 -> [err |-> nil, alg |-> "A256KW"]
             [] OTHER -> [err |-> "ErrInvalidKey", alg |-> ""]
      [] OTHER -> [err |-> "ErrInvalidKeyType", alg |-> ""]

-----------------------------------------------------------------------------
(* Header parameters.                                                      *)

headerBytes(h, n) ==
    IF h[n].go = "string" /\ h[n].items[1] \in DOMAIN SegLen
    THEN [err |-> nil, out |-> h[n].items[1]]
    ELSE [err |-> "ErrInvalidHeader", out |-> ""]

headerBytesOptional(h, n) ==
    IF ~Has(h, n) THEN [err |-> nil, out |-> ""] ELSE headerBytes(h, n)

\* A float64 that is not a 32-bit integer is refused; any other integer is taken.
headerInt(v) ==
    IF /\ v.go \in {"float64", "int", "int64", "json.Number"} /\ v.items[1] \in DOMAIN Number
       /\ v.go = "float64" => Number[v.items[1]] \in (-MaxInt32 - 1)..MaxInt32
    THEN [err |-> nil, int |-> Number[v.items[1]]]
    ELSE [err |-> "ErrInvalidHeader", int |-> 0]

Int32(n) == [go |-> "int", items |-> <<CHOOSE s \in DOMAIN Number : Number[s] = n>>]

\* "epk": a JWK with the public half of an ephemeral key; also what may stand
\* in its place: a private key, an "oct" key, a public key of another kind,
\* or an object that is no key.
epkMap(form, id, crv) == [go |-> "map", items |-> <<form, id, crv>>]
epkErr(h) ==
    IF ~Has(h, "epk") THEN "ErrInvalidHeader"
    ELSE IF h["epk"].go # "map" THEN "ErrInvalidKey"
    ELSE CASE h["epk"].items[1] = "public"  -> nil
           [] h["epk"].items[1] = "invalid" -> "ErrInvalidKey"
           [] OTHER -> "ErrInvalidHeader"

MinPBES2Count == 1000
MaxPBES2Count == 1000000
DefaultPBES2Count == 100000
MaxPBES2SaltInput == 1024

\* What the code itself writes into headers can be written there, and every
\* iteration count it accepts is a 32-bit integer.
ASSUME SymbolsAssumption ==
    /\ MaxInt32 >= MaxPBES2Count
    /\ DOMAIN keyMgmts \subseteq Symbol /\ DOMAIN contentEncs \subseteq Symbol
    /\ {"DEF", "public"} \subseteq Symbol
    /\ \E s \in DOMAIN Number : Number[s] = DefaultPBES2Count

\* encryptKeyPBES2 and decryptKeyPBES2 each check the iteration count for
\* themselves.  The mutant of the producer admits one iteration too many.
MutP2cProducedErr(v) ==
    IF headerInt(v).err # nil THEN headerInt(v).err
    ELSE IF headerInt(v).int < MinPBES2Count \/ headerInt(v).int > MaxPBES2Count + 1
         THEN "ErrIterationCount" ELSE nil

p2cProducedErr(v) ==
    IF headerInt(v).err # nil THEN headerInt(v).err
    ELSE IF headerInt(v).int < MinPBES2Count \/ headerInt(v).int > MaxPBES2Count
         THEN "ErrIterationCount" ELSE nil

p2cErr(v) ==
    IF headerInt(v).err # nil THEN headerInt(v).err
    ELSE IF headerInt(v).int \notin MinPBES2Count..MaxPBES2Count
         THEN "ErrIterationCount" ELSE nil

p2sErr(salt) ==
    IF salt.err # nil THEN salt.err
    ELSE IF SegLen[salt.out] < 8 \/ SegLen[salt.out] > MaxPBES2SaltInput
         THEN "ErrInvalidHeader" ELSE nil

-----------------------------------------------------------------------------
(* Derived secrets.                                                        *)

\* ecdhDerive: agreed between the key pairs `pair` and `epk`, the same from
\* either side.  AlgorithmID and length are ecdhAlgID's.
ecdhDerive(pair, epk, alg, enc, apu, apv) ==
    [from |-> "ecdh", id |-> pair, with |-> epk, apu |-> apu, apv |-> apv, count |-> 0,
     alg  |-> IF keyMgmts[alg].wrapBits = 0 THEN enc ELSE alg,
     size |-> IF keyMgmts[alg].wrapBits = 0 THEN contentEncs[enc].keySize
              ELSE wrapKeySize(alg)]

\* PBKDF2 over pbes2SaltInput, which is injective: no alg contains a 0 octet.
PBKDF2(pair, alg, salt, count) ==
    [NoSecret EXCEPT !.from = "pbes2", !.id = pair, !.alg = alg, !.with = salt,
                     !.count = count, !.size = wrapKeySize(alg)]

-----------------------------------------------------------------------------
(* encryptKey: cek is NoSecret for nil; fresh is what the call draws from  *)
(* the random source: [cek, own], the latter for an ephemeral key, a salt  *)
(* or an IV.                                                               *)

noKey(e) == [err |-> e, cek |-> NoSecret, key |-> NoKey, header |-> NoHeader]

encryptKeyECDH(alg, enc, key, header, cek, own) ==
    LET epk  == epkMap("public", own, key.crv)
        hdr  == With(header, "epk", epk)
        apu  == headerBytesOptional(hdr, "apu")
        apv  == headerBytesOptional(hdr, "apv")
        z    == ecdhDerive(key.pair, own, alg, enc, apu.out, apv.out)
    IN  IF asECDHPublicErr(key) # nil THEN noKey(asECDHPublicErr(key))
        ELSE IF apu.err # nil THEN noKey(apu.err)
        ELSE IF apv.err # nil THEN noKey(apv.err)
        ELSE IF derivesCEK(alg) THEN [err |-> nil, cek |-> z, key |-> NoKey, header |-> hdr]
        ELSE [err |-> nil, cek |-> cek, header |-> hdr,
              key |-> b64Key(wrapped("aeskw", z, "", cek))]

encryptKeyPBES2(alg, key, header, cek, own) ==
    LET p2c  == IF Has(header, "p2c") THEN header["p2c"] ELSE Int32(DefaultPBES2Count)
        salt == IF Has(header, "p2s") THEN headerBytes(header, "p2s")
                ELSE [err |-> nil, out |-> own]
        n    == headerInt(p2c).int
        hdr  == With(With(header, "p2s", Str(salt.out)), "p2c", Int32(n))
    IN  IF passwordErr(key) # nil THEN noKey(passwordErr(key))
        ELSE IF p2cProducedErr(p2c) # nil THEN noKey(p2cProducedErr(p2c))
        ELSE IF p2sErr(salt) # nil THEN noKey(p2sErr(salt))
        ELSE [err |-> nil, cek |-> cek, header |-> hdr,
              key |-> b64Key(wrapped("aeskw", PBKDF2(key.pair, alg, salt.out, n), "", cek))]

encryptKey(alg, enc, key, header, given, fresh) ==
    LET km      == keyMgmts[alg]
        cek     == IF given = NoSecret /\ ~derivesCEK(alg)
                   THEN newCEK(fresh.cek, contentEncs[enc].keySize) ELSE given
        done(w) == [err |-> nil, cek |-> cek, key |-> b64Key(w), header |-> header]
        size    == IF km.kind = "dir" THEN contentEncs[enc].keySize ELSE wrapKeySize(alg)
        bad     == symmetricKeyErr(key, size)
    IN  IF given # NoSecret /\ derivesCEK(alg) THEN noKey("ErrUnsupportedAlgorithm")
        ELSE CASE km.kind = "ecdh"  -> encryptKeyECDH(alg, enc, key, header, cek, fresh.own)
               [] km.kind = "pbes2" -> encryptKeyPBES2(alg, key, header, cek, fresh.own)
               [] km.kind = "rsa" ->
                    IF key.type \notin {"*rsa.PublicKey", "*rsa.PrivateKey"}
                    THEN noKey("ErrInvalidKeyType")
                    ELSE IF key.size = "wrong" THEN noKey("crypto")
                    ELSE done(wrapped(alg, [NoSecret EXCEPT !.from = "key",
                                                            !.id = key.pair], "", cek))
               [] OTHER ->
                    IF bad # nil THEN noKey(bad)
                    ELSE CASE km.kind = "dir" ->
                                [err |-> nil, cek |-> secretOf(key), key |-> NoKey,
                                 header |-> header]
                           [] km.kind = "kw" -> done(wrapped("aeskw", secretOf(key), "", cek))
                           [] OTHER ->   \* gcmkw
                                [done(wrapped("gcm", secretOf(key), fresh.own, cek)) EXCEPT
                                   !.header = With(With(header, "iv", Str(fresh.own)),
                                                   "tag", Str(fresh.own))]

-----------------------------------------------------------------------------
(* decryptKey.                                                             *)

found(cek)  == [err |-> nil, cek |-> cek]
noCEK(e)    == [err |-> e, cek |-> NoSecret]

\* The mutant tells bad PKCS #1 v1.5 padding from other failures.
MutDecryptKeyRSA(alg, enc, key, ek) ==
    LET opens == /\ ek.form = "b64" /\ ek.key.mode = alg /\ ek.key.kek.id = key.pair
    IN  IF key.type # "*rsa.PrivateKey" THEN noCEK("ErrInvalidKeyType")
        ELSE IF opens THEN found(ek.key.cek)
        ELSE IF alg = "RSA1_5" THEN noCEK("crypto")
        ELSE noCEK("ErrDecryptFailed")

\* Bad PKCS #1 v1.5 padding yields random octets of the right length, which
\* no content was encrypted with, and no error.
decryptKeyRSA(alg, enc, key, ek) ==
    LET opens == /\ ek.form = "b64" /\ ek.key.mode = alg /\ ek.key.kek.id = key.pair
                 /\ alg = "RSA1_5" => ek.key.cek.size = contentEncs[enc].keySize
    IN  IF key.type # "*rsa.PrivateKey" THEN noCEK("ErrInvalidKeyType")
        ELSE IF opens THEN found(ek.key.cek)
        ELSE IF alg = "RSA1_5" THEN found(newCEK("", contentEncs[enc].keySize))
        ELSE noCEK("ErrDecryptFailed")

\* The mutant leaves apu and apv out of the derivation.
MutDecryptKeyECDH(alg, enc, key, header, ek) ==
    LET z == ecdhDerive(key.pair, header["epk"].items[2], alg, enc, "", "")
    IN  IF asECDHPrivateErr(key) # nil THEN noCEK(asECDHPrivateErr(key))
        ELSE IF epkErr(header) # nil THEN noCEK(epkErr(header))
        ELSE IF header["epk"].items[3] # key.crv THEN noCEK("ErrInvalidKey")
        ELSE IF ~derivesCEK(alg) THEN AESKeyUnwrap(z, ek)
        ELSE IF ek.form # "" THEN noCEK("ErrMalformed")
        ELSE found(z)

decryptKeyECDH(alg, enc, key, header, ek) ==
    LET apu == headerBytesOptional(header, "apu")
        apv == headerBytesOptional(header, "apv")
        z   == ecdhDerive(key.pair, header["epk"].items[2], alg, enc, apu.out, apv.out)
    IN  IF asECDHPrivateErr(key) # nil THEN noCEK(asECDHPrivateErr(key))
        ELSE IF epkErr(header) # nil THEN noCEK(epkErr(header))
        ELSE IF apu.err # nil THEN noCEK(apu.err)
        ELSE IF apv.err # nil THEN noCEK(apv.err)
        ELSE IF header["epk"].items[3] # key.crv THEN noCEK("ErrInvalidKey")
        ELSE IF ~derivesCEK(alg) THEN AESKeyUnwrap(z, ek)
        ELSE IF ek.form # "" THEN noCEK("ErrMalformed")
        ELSE found(z)

decryptKeyPBES2(alg, key, header, ek) ==
    LET salt == headerBytes(header, "p2s")
    IN  IF passwordErr(key) # nil THEN noCEK(passwordErr(key))
        ELSE IF ~Has(header, "p2c") THEN noCEK("ErrInvalidHeader")
        ELSE IF p2cErr(header["p2c"]) # nil THEN noCEK(p2cErr(header["p2c"]))
        ELSE IF p2sErr(salt) # nil THEN noCEK(p2sErr(salt))
        ELSE AESKeyUnwrap(PBKDF2(key.pair, alg, salt.out, headerInt(header["p2c"]).int), ek)

decryptKeyGCM(key, header, ek) ==
    LET iv  == headerBytes(header, "iv")
        tag == headerBytes(header, "tag")
    IN  IF iv.err # nil THEN noCEK(iv.err)
        ELSE IF tag.err # nil THEN noCEK(tag.err)
        ELSE IF /\ ek.form = "b64" /\ ek.key.mode = "gcm" /\ ek.key.kek = secretOf(key)
                /\ iv.out = ek.key.iv /\ tag.out = ek.key.iv
             THEN found(ek.key.cek)
        ELSE noCEK("ErrDecryptFailed")

decryptKey(alg, enc, key, header, ek) ==
    LET km   == keyMgmts[alg]
        size == IF km.kind = "dir" THEN contentEncs[enc].keySize ELSE wrapKeySize(alg)
        bad  == symmetricKeyErr(key, size)
    IN  CASE km.kind = "rsa"   -> decryptKeyRSA(alg, enc, key, ek)
          [] km.kind = "ecdh"  -> decryptKeyECDH(alg, enc, key, header, ek)
          [] km.kind = "pbes2" -> decryptKeyPBES2(alg, key, header, ek)
          [] km.kind = "dir" /\ ek.form # "" -> noCEK("ErrMalformed")
          [] OTHER ->
               IF bad # nil THEN noCEK(bad)
               ELSE CASE km.kind = "dir"   -> found(secretOf(key))
                      [] km.kind = "kw"    -> AESKeyUnwrap(secretOf(key), ek)
                      [] OTHER -> decryptKeyGCM(key, header, ek)   \* gcmkw
=============================================================================

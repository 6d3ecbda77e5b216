-------------------------------- MODULE MCJWE --------------------------------
(***************************************************************************)
(* Values of JWE's constants for model checking: keys, calls, readers.     *)
(***************************************************************************)
EXTENDS JWEProperties

\* "stream" is a text that happens to be a DEFLATE stream.
MCText     == {"", Replaced, "msg", "stream", "bomb"}
MCTextSize == [t \in MCText |-> CASE t = "" -> 0 [] t = "bomb" -> 9 [] OTHER -> 5]
MCInflated == [t \in {"stream"} |-> "bomb"]

MCName == {"alg", "kid", "crit", "b64", "exp", "enc", "zip", "epk", "apu", "apv",
           "iv", "tag", "p2s", "p2c"}
MCNumber == [s \in {"999", "1000", "100000", "1000000", "1000001", "3000000"} |->
                CASE s = "999" -> 999 [] s = "1000" -> 1000 [] s = "100000" -> 100000
                  [] s = "1000000" -> 1000000 [] s = "1000001" -> 1000001
                  [] s = "3000000" -> 3000000]
Drawn    == <<"r1", "r2", "r3", "r4", "r5", "r6">>
MCSegLen == [s \in {"", "s7", "s8", "s1024", "s1025", "alice", "bob"}
                   \cup {Drawn[i] : i \in 1..Len(Drawn)} |->
                CASE s = "" -> 0 [] s = "s7" -> 7 [] s = "s8" -> 8
                  [] s = "s1024" -> 1024 [] s = "s1025" -> 1025
                  [] s \in {"alice", "bob"} -> 5 [] OTHER -> 16]
MCSymbol == {"", NotAString, "soon", "never", "exp", "DEF", "GZ", "1.5", "not base64url",
             "sig", "enc", "decrypt", "encrypt", "wrapKey", "k1", "k2", "k3", "HS256",
             "public", "private", "oct", "invalid", "true", "P-224", "P-256", "X25519", "alg"}
            \cup DOMAIN MCNumber \cup DOMAIN MCSegLen
            \cup DOMAIN keyMgmts \cup DOMAIN contentEncs

MCPair   == {"o16", "p16", "o24", "o32", "o48", "o64", "password", "rsa", "ec", "ed", "none"}
MCKeyLen == [p \in MCPair |->
                CASE p \in {"o16", "p16"} -> 16 [] p = "o24" -> 24 [] p = "o32" -> 32
                  [] p = "o48" -> 48 [] p = "o64" -> 64 [] p = "none" -> 0 [] OTHER -> 7]

Hdr(S) == [n \in Name |-> IF \E p \in S : p[1] = n
                          THEN (CHOOSE p \in S : p[1] = n)[2] ELSE Absent]

-----------------------------------------------------------------------------
(* Keys.                                                                   *)

gokey(type, pair, crv) == [type |-> type, pair |-> pair, crv |-> crv, size |-> "right"]
secret(pair) == gokey("[]byte", pair, "")

Password == gokey("string", "password", "")
RSAPub   == gokey("*rsa.PublicKey", "rsa", "")
RSAPriv  == gokey("*rsa.PrivateKey", "rsa", "")
ECPub    == gokey("*ecdsa.PublicKey", "ec", "P-256")
ECPriv   == gokey("*ecdsa.PrivateKey", "ec", "P-256")
EC224    == gokey("*ecdsa.PublicKey", "ec", "P-224")
XPub     == gokey("*ecdh.PublicKey", "ed", "X25519")
XPriv    == gokey("*ecdh.PrivateKey", "ed", "X25519")
EdPub    == gokey("ed25519.PublicKey", "ed", "")

arg(kind, key, keys) == [kind |-> kind, raw |-> key, keys |-> keys]
Go(key)   == arg("go", key, <<>>)
OneJWK(j) == arg("*JWK", Password, <<j>>)
Set(keys) == arg("*JWKSet", Password, keys)
jwk(key, kid, alg) == [valid |-> TRUE, material |-> key, use |-> "", alg |-> alg,
                       kid |-> kid, key_ops |-> {}]

RSAJWK    == jwk(RSAPub, "k1", "RSA-OAEP")
RSAPrivJWK == jwk(RSAPriv, "k1", "RSA-OAEP")
WrapJWK   == [jwk(secret("o16"), "k2", "A128KW") EXCEPT !.key_ops = {"wrapKey"}]
UnwrapJWK == [WrapJWK EXCEPT !.key_ops = {"decrypt"}]
EncJWK    == jwk(secret("o32"), "k2", "A256GCM")
SigJWK    == [jwk(secret("o16"), "k2", "") EXCEPT !.use = "sig"]
BadJWK    == [RSAJWK EXCEPT !.valid = FALSE]
HSJWK     == jwk(secret("o16"), "k2", "HS256")

SecretArgs == {Go(secret(p)) : p \in {"o16", "o24", "o32", "o48", "o64", "none"}}
JWKArgs ==
    {OneJWK(j) : j \in {RSAJWK, WrapJWK, EncJWK, SigJWK, BadJWK, HSJWK}}
    \cup {Set(<<SigJWK, RSAJWK>>), Set(<<WrapJWK>>), Set(<<SigJWK>>), Set(<<>>)}
    \cup {arg("nil", Password, <<>>), arg("nil *JWK", Password, <<>>)}

PublicKeyFor(alg, enc) ==
    CASE keyMgmts[alg].kind = "rsa"   -> {Go(RSAPub), Go(RSAPriv)}
      [] keyMgmts[alg].kind = "ecdh"  -> {Go(ECPub), Go(XPub), Go(EC224)}
      [] keyMgmts[alg].kind = "pbes2" -> {Go(Password), Go(secret("password"))}
      [] OTHER                        -> SecretArgs

-----------------------------------------------------------------------------
(* Calls.                                                                  *)

eopts(alg, enc, kid) ==
    [Algorithm |-> alg, Encryption |-> enc, KeyID |-> kid, Header |-> NoHeader,
     AdditionalHeaders |-> NoHeader, Unprotected |-> NoHeader, AAD |-> Empty,
     Compress |-> FALSE]
recipient(key, alg, kid) ==
    [Key |-> key, Algorithm |-> alg, KeyID |-> kid, Header |-> NoHeader]
call(text, opts, recipients) ==
    [plaintext |-> text, opts |-> opts, recipients |-> recipients]

\* What Encrypt and EncryptJSON are called with.
single(text, opts, key) ==
    call(text, opts, <<recipient(key, opts.Algorithm, opts.KeyID)>>)

\* Every algorithm with every content encryption, and keys that do and do not
\* fit...
AlgorithmCalls ==
    UNION {{single("msg", eopts(alg, enc, ""), k) :
              k \in PublicKeyFor(alg, enc)} :
           alg \in DOMAIN keyMgmts, enc \in {"", "A128GCM", "A192CBC-HS384", "A256CBC-HS512"}}

\* ... every kind of key with inferred algorithms...
KeyCalls ==
    {single("msg", eopts(alg, "", kid), k) :
        k \in JWKArgs \cup {Go(EdPub), Go(ECPub), Go(RSAPub), Go(Password)} \cup SecretArgs,
        alg \in {"", "RSA-OAEP", "dir", "HS256"}, kid \in {"", "k1", "k2"}}

\* ... the inputs of PBES2, at both ends of their bounds and beyond...
P2c == {Absent} \cup {[go |-> t, items |-> <<s>>] :
            t \in {"int", "float64", "string"},
            s \in {"999", "1000", "1000000", "1000001", "3000000", "1.5"}}
P2s == {Absent} \cup {Str(s) : s \in {"s7", "s8", "s1024", "s1025", "not base64url"}}
PBES2Calls ==
    {single("msg", [eopts("PBES2-HS256+A128KW", "A128GCM", "") EXCEPT
                        !.Header = Hdr({<<"p2c", c>>, <<"p2s", s>>})], Go(Password)) :
        c \in P2c, s \in P2s}

\* ... and a few algorithms with every combination of header options.
ExtraHeaders ==
    {NoHeader, Hdr({<<"exp", Str("soon")>>, <<"crit", Anys(<<"exp">>)>>}),
     Hdr({<<"crit", Strings(<<"exp">>)>>}), Hdr({<<"crit", Str("exp")>>}),
     Hdr({<<"crit", Strings(<<"alg">>)>>}),
     Hdr({<<"apu", Str("alice")>>, <<"apv", Str("bob")>>}),
     Hdr({<<"apu", Str("not base64url")>>}),
     Hdr({<<"iv", Str("s8")>>, <<"epk", Str("s8")>>, <<"p2c", Str("s8")>>}),
     Hdr({<<"zip", Str("GZ")>>}), Hdr({<<"zip", Str("DEF")>>}),
     Hdr({<<"exp", [go |-> "chan", items |-> <<>>]>>}),
     Hdr({<<"kid", Str("k3")>>}), Hdr({<<"alg", Str("dir")>>})}
OptionCalls ==
    {single(t, [eopts(alg, "", kid) EXCEPT !.Header = h, !.Unprotected = u, !.AAD = a,
                                           !.Compress = z], k) :
        alg \in {"ECDH-ES", "A256GCMKW"}, kid \in {"", "k1"},
        t \in {"", "stream"}, h \in ExtraHeaders,
        u \in {NoHeader, Hdr({<<"kid", Str("k2")>>}), Hdr({<<"exp", Str("never")>>}),
               Hdr({<<"zip", Str("DEF")>>})},
        a \in {Empty, Plain("msg")}, z \in BOOLEAN, k \in {Go(ECPub), OneJWK(EncJWK)}}

ProduceCalls == AlgorithmCalls \cup KeyCalls \cup PBES2Calls \cup OptionCalls

-----------------------------------------------------------------------------
(* Readers.                                                                *)

dopts(algs, encs, known, max) ==
    [Algorithms |-> algs, Encryptions |-> encs, KnownCritical |-> known,
     MaxDecompressed |-> max]
Any == dopts(<<>>, <<>>, <<"exp">>, 0)
reader(key, opts) == [key |-> key, opts |-> opts]

PrivateKeys == {Go(k) : k \in {RSAPriv, ECPriv, XPriv, Password}}
               \cup {Go(secret(p)) : p \in {"o16", "o24", "o32", "o48", "o64"}}

ProduceReaders ==
    {reader(k, Any) : k \in PrivateKeys}
    \cup {reader(k, Any) : k \in {OneJWK(RSAPrivJWK), OneJWK(UnwrapJWK), OneJWK(WrapJWK),
                                  Set(<<SigJWK, RSAPrivJWK>>), Set(<<SigJWK>>)}}
    \cup {reader(Go(secret("o32")), dopts(<<"A256GCMKW">>, <<"A256GCM">>, <<>>, n)) :
             n \in {4, 5}}
    \cup {reader(Go(RSAPub), Any), reader(arg("nil", Password, <<>>), Any)}

-----------------------------------------------------------------------------
(* Documents that travel.                                                  *)

Exp      == Str("soon")
ExpCrit  == Hdr({<<"exp", Exp>>, <<"crit", Strings(<<"exp">>)>>})
edit(n, v) == [name |-> n, value |-> v]

\* A critical extension for the holder of an agreement key, a DEFLATE stream
\* for the holder of a secret, and an "aad" under RSA1_5 for a recipient whose
\* own header marks the extension critical.
Agreed  == single("msg", [eopts("ECDH-ES+A128KW", "A128GCM", "") EXCEPT !.Header = ExpCrit],
                  Go(ECPub))
Stream  == single("stream", eopts("A128KW", "A128GCM", "k2"), Go(secret("o16")))
WithAAD == call("", [eopts("RSA1_5", "A128GCM", "") EXCEPT !.AAD = Plain("msg")],
                <<[recipient(OneJWK([RSAJWK EXCEPT !.alg = ""]), "RSA1_5", "") EXCEPT
                       !.Header = ExpCrit]>>)

RelayCalls   == {Agreed, Stream, WithAAD}
RelayReaders == {reader(Go(ECPriv), Any), reader(Go(ECPriv), dopts(<<>>, <<>>, <<>>, 0)),
                 reader(Set(<<[UnwrapJWK EXCEPT !.alg = ""], RSAPrivJWK>>), Any),
                 reader(Go(RSAPriv), dopts(<<"RSA1_5">>, <<>>, <<"exp">>, 0)),
                 reader(Go(secret("p16")), Any)}
RelayHeaderEdits == {edit("zip", Str("DEF")), edit("exp", Str("never")), edit("alg", Absent)}
RelayProtectedEdits ==
    {NoSeg} \cup {Seg("json", Hdr({<<"alg", Str(alg)>>, <<"enc", Str("A128GCM")>>})) :
                      alg \in {"A128KW", "RSA1_5"}}
RelayAADEdits == {Empty, Plain("msg"), [text |-> "bomb", layers |-> 1]}

-----------------------------------------------------------------------------
(* Several recipients.                                                     *)

plain == eopts("", "A128CBC-HS256", "")
with(r, hdr) == [r EXCEPT !.Header = hdr]
for(key) == recipient(Go(key), "", "")

TwoJWKs == call("msg", plain, <<recipient(OneJWK(RSAJWK), "", ""),
                                recipient(OneJWK(WrapJWK), "", "")>>)

\* Three kinds of key management, each with its inputs and outputs in the
\* recipient's own header, beside a critical extension and an "aad".
ThreeKinds ==
    call("stream", [plain EXCEPT !.Header = ExpCrit, !.AAD = Plain("msg"),
                                 !.Compress = TRUE, !.KeyID = "k1"],
         <<with(recipient(Go(ECPub), "ECDH-ES+A256KW", ""),
                Hdr({<<"apu", Str("alice")>>})),
           recipient(Go(secret("o32")), "A256GCMKW", "k3"),
           with(recipient(Go(Password), "PBES2-HS256+A128KW", ""),
                Hdr({<<"p2c", [go |-> "int", items |-> <<"1000">>]>>}))>>)

\* One secret twice, and a "kid" that two recipients share.
SameKey == call("msg", [plain EXCEPT !.Unprotected = Hdr({<<"exp", Exp>>})],
                <<for(secret("o16")), recipient(OneJWK(WrapJWK), "", ""),
                  recipient(Go(secret("o24")), "", "k2")>>)

\* A "kid" of the whole document, and of a recipient where it must not be.
SharedKid == call("msg", [plain EXCEPT !.Unprotected = Hdr({<<"kid", Str("k2")>>})],
                  <<for(secret("o16")), for(RSAPub)>>)
TwoKids   == call("msg", [plain EXCEPT !.Header = Hdr({<<"kid", Str("k1")>>})],
                  <<recipient(OneJWK(RSAJWK), "", ""), recipient(Go(secret("o16")), "", "k2")>>)

\* Calls that fail in the loop, or after it.
SecondDerives == call("msg", plain, <<for(RSAPub), for(ECPub)>>)
Unmatched     == call("msg", plain, <<for(RSAPub), for(secret("o48"))>>)
RepeatedParam == call("msg", [plain EXCEPT !.Header = Hdr({<<"p2c", Str("1000")>>})],
                      <<for(RSAPub), recipient(Go(Password), "PBES2-HS256+A128KW", "")>>)
RecipientZip  == call("msg", plain, <<for(RSAPub), with(for(RSAPub), Hdr({<<"zip", Str("DEF")>>}))>>)

MissingExt    == call("msg", [plain EXCEPT !.Header = Hdr({<<"crit", Strings(<<"exp">>)>>})],
                      <<for(RSAPub), for(secret("o16"))>>)

MultiCalls == {TwoJWKs, ThreeKinds, SameKey, SharedKid, TwoKids, SecondDerives, Unmatched,
               RepeatedParam, RecipientZip, MissingExt}
MultiReaders ==
    {reader(k, Any) : k \in {Go(secret("o16")), Go(secret("o32")), Go(ECPriv), Go(Password),
                             OneJWK(RSAPrivJWK), OneJWK(UnwrapJWK), OneJWK(SigJWK),
                             OneJWK([UnwrapJWK EXCEPT !.kid = "k1"]),
                             Set(<<RSAPrivJWK, UnwrapJWK>>)}}
MultiHeaderEdits == {edit("kid", Str("k2")), edit("zip", Str("DEF"))}

-----------------------------------------------------------------------------
(* The cases the findings are about, next to some that are not.            *)

AllReaders == {reader(k, Any) : k \in PrivateKeys}
Agreeing(alg, hdr, unprot) ==
    single("msg", [eopts(alg, "A128GCM", "") EXCEPT !.Header = hdr, !.Unprotected = unprot],
           Go(ECPub))
Apu == Hdr({<<"apu", Str("alice")>>})
PartyInfoCalls ==
    {Agreeing("ECDH-ES", Apu, NoHeader), Agreeing("ECDH-ES+A128KW", NoHeader, Apu),
     call("msg", [plain EXCEPT !.Header = Apu],
          <<recipient(Go(ECPub), "ECDH-ES+A128KW", ""), for(RSAPub)>>)}
ZipCalls ==
    {single("msg", [eopts("A128KW", "A128GCM", "") EXCEPT !.Header = Hdr({<<"zip", z>>})],
            Go(secret("o16"))) :
        z \in {Absent, Str("DEF"), Str("GZ"), Str(""), Bool("true")}}
KeyIDCalls == {ThreeKinds, Stream}
=============================================================================

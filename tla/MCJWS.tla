-------------------------------- MODULE MCJWS --------------------------------
(***************************************************************************)
(* Values of JWS's constants for model checking: keys, signers, verifiers. *)
(***************************************************************************)
EXTENDS JWSProperties

MCText     == {"", Replaced, "msg", "a.b", "raw"}
MCDotted   == {"a.b"}
MCNotUTF8  == {"raw"}
MCName     == {"alg", "kid", "crit", "b64", "exp"}
MCSymbol   == {"", None, NotAString, "true", "false", "soon", "never", "alg", "exp",
               "b64", "sig", "enc", "sign", "verify", "k1", "k2", "k3", "XS1",
               "P-224", "P-256", "X25519"} \cup DOMAIN sigAlgs
MCPair     == {"secret", "ec", "rsa", "ed", "none"}

msg    == Plain("msg")
spelt  == [text |-> "msg", layers |-> 1]     \* octets that spell base64url
dotted == Plain("a.b")
raw    == Plain("raw")
MCPayloads == {msg, spelt, dotted, raw, Empty}
RelayPayloads == {msg, spelt, Empty}
MultiPayloads == {msg, spelt}

-----------------------------------------------------------------------------
(* base64url, whose layers octets count: what JOSELemmas proves, over a few *)
(* octets and characters, and the example of RFC 4648.                     *)

B64 == INSTANCE Base64

FewOctets(n) == UNION {[1..k -> {0, 3, 64, 251, 255}] : k \in 0..n}
FewChars(n)  == UNION {[1..k -> {0, 3, 4, 16, 63, 64, 65, 67}] : k \in 0..n}

ASSUME SegmentsRoundTrip ==
    \A b \in FewOctets(5) : B64!DecodeSegment(B64!EncodeSegment(b)) = [err |-> nil, out |-> b]

ASSUME SegmentsHaveOneSpelling ==
    \A s \in FewChars(5) : LET d == B64!DecodeSegment(s)
                           IN  d.err = nil => B64!EncodeSegment(d.out) = s

ASSUME SegmentExample ==
    B64!EncodeSegment(<<102, 111, 111, 98, 97, 114>>) = <<25, 38, 61, 47, 24, 38, 5, 50>>

-----------------------------------------------------------------------------
(* Keys.                                                                   *)

gokey(type, pair, crv) == [type |-> type, pair |-> pair, crv |-> crv, size |-> "right"]

Secret  == gokey("[]byte", "secret", "")
NoBytes == [Secret EXCEPT !.size = "wrong", !.pair = "none"]
ECPriv  == gokey("*ecdsa.PrivateKey", "ec", "P-256")
ECPub   == gokey("*ecdsa.PublicKey", "ec", "P-256")
NoCurve == gokey("*ecdsa.PrivateKey", "ec", "")
EC224   == gokey("*ecdsa.PrivateKey", "ec", "P-224")
RSAPriv == gokey("*rsa.PrivateKey", "rsa", "")
RSAPub  == gokey("*rsa.PublicKey", "rsa", "")
EdPriv  == gokey("ed25519.PrivateKey", "ed", "")
EdCut   == [EdPriv EXCEPT !.size = "wrong"]
EdPub   == gokey("ed25519.PublicKey", "ed", "")
XPriv   == gokey("*ecdh.PrivateKey", "ed", "X25519")

arg(kind, key, keys) == [kind |-> kind, raw |-> key, keys |-> keys]
Go(key)    == arg("go", key, <<>>)
OneJWK(j)  == arg("*JWK", Secret, <<j>>)
Set(keys)  == arg("*JWKSet", Secret, keys)

jwk(key, kid, alg) == [valid |-> TRUE, material |-> key, use |-> "", alg |-> alg,
                       kid |-> kid, key_ops |-> {}]

ECJWK      == jwk(ECPriv, "k1", "ES256")
ECPubJWK   == jwk(ECPub, "k1", "ES256")
EncJWK     == [jwk(Secret, "k2", "") EXCEPT !.use = "enc"]
SigJWK     == [jwk(Secret, "k2", "") EXCEPT !.use = "sig", !.key_ops = {"sign"}]
CheckJWK   == [jwk(Secret, "k2", "HS256") EXCEPT !.key_ops = {"verify"}]
NamelessEC == [ECPubJWK EXCEPT !.kid = "", !.use = "enc"]
BadJWK     == [ECJWK EXCEPT !.valid = FALSE]

AllKeys ==
    {Go(k) : k \in {Secret, NoBytes, ECPriv, EC224, NoCurve, RSAPriv, RSAPub,
                   EdPriv, EdCut, XPriv}}
    \cup {OneJWK(j) : j \in {ECJWK, EncJWK, SigJWK, CheckJWK, BadJWK}}
    \cup {Set(<<SigJWK, ECJWK>>), Set(<<ECJWK>>), Set(<<EncJWK>>), Set(<<>>)}
    \cup {arg("nil", Secret, <<>>), arg("nil *JWK", Secret, <<>>),
          arg("nil *JWKSet", Secret, <<>>)}

-----------------------------------------------------------------------------
(* Signers.                                                                *)

Exp    == Str("soon")
Hdr(S) == [n \in Name |-> IF \E p \in S : p[1] = n
                          THEN (CHOOSE p \in S : p[1] = n)[2] ELSE Absent]

sopts(alg, kid, hdr, unprot, crit, detach) ==
    [Algorithm |-> alg, KeyID |-> kid, Header |-> hdr, Unprotected |-> unprot,
     Critical |-> crit, DetachPayload |-> detach]
Plainly == sopts("", "", NoHeader, NoHeader, <<>>, FALSE)
signer(key, opts) == [key |-> key, opts |-> opts]

\* Every key with every algorithm choice...
KeySigners ==
    {signer(k, [Plainly EXCEPT !.Algorithm = a, !.KeyID = id]) :
        k \in AllKeys, id \in {"", "k1", "k2"},
        a \in {"", "HS256", "ES256", "RS256", "PS256", "EdDSA", "none", "XS1"}}

\* ... and a few keys with every combination of header options.
OptionSigners ==
    {signer(k, sopts("", "", h, u, c, d)) :
        k \in {Go(Secret), OneJWK(ECJWK)},
        h \in {NoHeader, Hdr({<<"exp", Exp>>}), Hdr({<<"b64", Bool("false")>>}),
               Hdr({<<"b64", Bool("true")>>, <<"exp", [Exp EXCEPT !.go = "int"]>>}),
               Hdr({<<"b64", Str("false")>>}),
               Hdr({<<"b64", Bool("false")>>, <<"exp", Exp>>}),
               Hdr({<<"kid", Str("k2")>>, <<"exp", [Exp EXCEPT !.go = "chan"]>>}),
               Hdr({<<"crit", Anys(<<"exp">>)>>, <<"exp", Exp>>}),
               Hdr({<<"crit", Anys(<<NotAString>>)>>}),
               Hdr({<<"crit", Str("exp")>>, <<"exp", Exp>>})},
        u \in {NoHeader, Hdr({<<"kid", Str("k2")>>}), Hdr({<<"b64", Bool("false")>>}),
               Hdr({<<"exp", Exp>>}), Hdr({<<"exp", [Exp EXCEPT !.go = "chan"]>>})},
        c \in {<<>>, <<"exp">>, <<"b64">>, <<"exp", "b64">>, <<"alg">>, <<"">>},
        d \in BOOLEAN}

ProducerSigners == KeySigners \cup OptionSigners

\* A few signers for documents that travel: a JWK that demands "exp", a secret
\* with an unencoded payload, and a secret whose payload is detached.
ECCrit   == signer(OneJWK(ECJWK),
                   [Plainly EXCEPT !.Header = Hdr({<<"exp", Exp>>}), !.Critical = <<"exp">>])
Unenc    == signer(Go(Secret),
                   [Plainly EXCEPT !.Header = Hdr({<<"b64", Bool("false")>>}),
                                   !.Critical = <<"b64">>])
Detached == signer(Go(Secret), [Plainly EXCEPT !.DetachPayload = TRUE])
Labelled == signer(Go(EdPriv), [Plainly EXCEPT !.Unprotected = Hdr({<<"kid", Str("k3")>>})])
WithSet  == signer(Set(<<SigJWK, ECJWK>>), [Plainly EXCEPT !.KeyID = "k2"])

RelaySigners == {ECCrit, Unenc, Labelled}
MultiSigners == {ECCrit, Unenc, Detached, Labelled, WithSet,
                 signer(Go(RSAPub), Plainly)}

-----------------------------------------------------------------------------
(* Verifiers.                                                              *)

vopts(algs, known, detached) ==
    [Algorithms |-> algs, KnownCritical |-> known, DetachedPayload |-> detached]
Any == vopts(<<>>, <<"exp">>, Empty)
verifier(key, opts) == [key |-> key, opts |-> opts]

PubSet == Set(<<CheckJWK, ECPubJWK>>)

ProducerVerifiers ==
    {verifier(k, o) : k \in {Go(Secret), Go(ECPub), PubSet},
                      o \in {Any, vopts(<<"HS256", "ES256">>, <<"exp">>, msg)}}
    \cup {verifier(Go(k), Any) : k \in {NoBytes, RSAPub, EdPriv}}
    \cup {verifier(k, Any) : k \in {OneJWK(ECPubJWK), OneJWK(EncJWK), Set(<<NamelessEC>>)}}
    \cup {verifier(Go(Secret), vopts(<<>>, <<>>, msg)),
          verifier(arg("nil", Secret, <<>>), Any)}

RelayVerifiers ==
    {verifier(k, Any) : k \in {Go(Secret), PubSet, Set(<<NamelessEC>>)}}
    \cup {verifier(OneJWK(ECPubJWK), vopts(<<>>, <<>>, Empty)),
          verifier(Go(EdPub), vopts(<<"EdDSA">>, <<>>, spelt))}

MultiVerifiers ==
    {verifier(k, vopts(<<>>, <<"exp">>, msg)) :
        k \in {Go(Secret), Go(ECPub), Go(EdPub), PubSet, OneJWK(EncJWK), OneJWK(CheckJWK)}}

-----------------------------------------------------------------------------
(* Changes on the way.                                                     *)

edit(n, v) == [name |-> n, value |-> v]
RelayHeaderEdits ==
    {edit("b64", Bool("false")), edit("exp", Str("never")), edit("alg", Str("HS256")),
     edit("crit", Anys(<<"exp">>)), edit("kid", Absent)}

RelayProtectedEdits ==
    {NoSeg,
     Seg("json", Hdr({<<"alg", Str("none")>>})),
     Seg("json", Hdr({<<"alg", Str("HS256")>>})),
     Seg("json", Hdr({<<"alg", Str("ES256")>>, <<"kid", Str("k1")>>, <<"exp", Exp>>}))}
RelayPayloadEdits == {Empty, msg, spelt, dotted}
MultiHeaderEdits == {edit("b64", Bool("false")), edit("kid", Absent)}
MultiProtectedEdits == {Seg("notb64", NoHeader), Seg("null", NoHeader)}
DetachPayloads == {msg}

\* The cases the findings are about.
EmptyPayload   == {Empty}
RawPayload     == {raw}
PlainSigner    == {signer(Go(Secret), Plainly)}
UnencSigner    == {Unenc}
DetachSigners  == {signer(Go(Secret), Plainly), Detached}
=============================================================================

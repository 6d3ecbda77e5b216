---------------------------- MODULE JWSProperties ----------------------------
(***************************************************************************)
(* What makes the JWS implementation correct.                              *)
(***************************************************************************)
EXTENDS JWS

Accepted == verifying.phase = "done" /\ verifying.result.err = nil

\* The key pair a signature accepted with result r was checked with.
PairOf(key, r) == resolveKey(key, KeyID(r.header)).key.pair

UsedPair == PairOf(verifying.key, verifying.result)

\* t was made by that pair over the payload returned, and every parameter it
\* protects stands unchanged in the header returned.
CoversResult(t, key, r) ==
    /\ t.sig.pair = PairOf(key, r)
    /\ t.payload = r.payload
    /\ \A n \in Name : Has(t.sig.protected.hdr, n) => r.header[n] = t.sig.protected.hdr[n]

Covers(t) == CoversResult(t, verifying.key, verifying.result)

(***************************************************************************)
(* Whatever happens to a document on its way, a verification call that     *)
(* succeeds returns a payload that the holder of the verification key      *)
(* signed, in the form it was signed in (RFC 7797: never the base64url     *)
(* text in place of the octets, nor the reverse), with every protected     *)
(* parameter as it was signed (verifySignature, VerifyJSONWithOptions).    *)
(***************************************************************************)
Authentic == Accepted => \E t \in issued : Covers(t)

(***************************************************************************)
(* A parameter that a signer listed in SignOptions.Critical is never       *)
(* accepted by a consumer that did not declare it understood ("b64" always *)
(* is), and reaches that consumer with the value the signer gave it, even  *)
(* where entries are spliced or headers rewritten on the way               *)
(* (checkCritical at both ends).                                           *)
(***************************************************************************)
CriticalHonoured ==
    Accepted => \E t \in issued :
        /\ Covers(t)
        /\ \A k \in 1..Len(t.signer.opts.Critical) :
              LET n == t.signer.opts.Critical[k]
              IN  /\ containsString(<<"b64">> \o verifying.opts.KnownCritical, n)
                  /\ verifying.result.header[n] = JSONValue(t.signer.opts.Header[n])

Permits(j, op, alg) ==
    /\ j.use \in {"", "sig"}
    /\ j.alg \in {"", alg}
    /\ j.key_ops = {} \/ op \in j.key_ops

\* Where key is a JWK or a set, the member with this key pair permits op.
PermittedBy(key, pair, op, alg) ==
    key.kind \in {"*JWK", "*JWKSet"} =>
        \E k \in 1..Len(key.keys) :
            /\ key.keys[k].valid
            /\ key.keys[k].material.pair = pair
            /\ Permits(key.keys[k], op, alg)

(***************************************************************************)
(* The JWK whose "use", "alg" and "key_ops" are checked is the JWK that    *)
(* signs or verifies: no signature is ever issued, and none accepted, with *)
(* a JWK that does not permit it (checkJWKUsage and selectJWK against      *)
(* resolveKey, which select independently).                                *)
(***************************************************************************)
KeyRestrictionsHonoured ==
    /\ \A t \in issued : PermittedBy(t.signer.key, t.sig.pair, "sign", t.sig.alg)
    /\ Accepted => PermittedBy(verifying.key, UsedPair, "verify",
                               Algorithm(verifying.result.header))

-----------------------------------------------------------------------------
(* Producer and consumer agree.                                            *)

Embedded == wire.doc.payload # Empty

\* Go key g is the key pair of signature sig, usable under its alg.
KeyOf(g, sig) ==
    LET a == sigAlgs[sig.alg]
    IN  /\ g.pair = sig.pair
        /\ g.type \in VerifyingTypes(a.kind)
        /\ a.kind = "ecdsa" => g.crv = a.crv
        /\ g.size = "right"

\* JWK j holds that key and permits verification with it.
JWKOf(j, sig) ==
    /\ j.valid
    /\ KeyOf(j.material, sig)
    /\ Permits(j, "verify", sig.alg)

\* A consumer's key holds the key of signer s: as a Go key, as a JWK, or, when
\* signOne gave the document a kid, as the key of that kid in a set.
HoldsKeyOf(key, s, sig) ==
    LET kid == kidFor(s.key, s.opts)
        at  == LookupKeyID(key.keys, kid)
    IN  \/ key.kind = "go" /\ KeyOf(key.raw, sig)
        \/ key.kind = "*JWK" /\ JWKOf(key.keys[1], sig)
        \/ key.kind = "*JWKSet" /\ kid # "" /\ at # 0 /\ JWKOf(key.keys[at], sig)

\* A consumer's options do not refuse what signOne returned as r.
Tolerates(opts, r) ==
    LET crit == Critical(r.protected.hdr)
    IN  /\ opts.Algorithms = <<>> \/ containsString(opts.Algorithms, r.signature.sig.alg)
        /\ \A k \in 1..Len(crit) : containsString(<<"b64">> \o opts.KnownCritical, crit[k])

\* The payload is in the document, or in the consumer's hands.
PayloadKnown == Embedded \/ verifying.opts.DetachedPayload = wire.payload

(***************************************************************************)
(* "This package must never emit a document it would itself refuse to      *)
(* read": a document that arrives unchanged is accepted, with the payload  *)
(* that was signed, by every consumer that holds the key of one of its     *)
(* signers, understands its critical parameters and has the payload if it  *)
(* is detached.  In this generality the code does not keep it.             *)
(***************************************************************************)
EveryDocumentIsReadable ==
    (verifying.phase = "done" /\ wire.edits = 0) =>
        \A k \in 1..Len(wire.signers) :
            LET s == wire.signers[k]
                r == signOne(wire.payload, s.key, s.opts)
            IN  (/\ HoldsKeyOf(verifying.key, s, r.signature.sig)
                 /\ Tolerates(verifying.opts, r)
                 /\ PayloadKnown) =>
                    verifying.result.err = nil /\ verifying.result.payload = wire.payload

\* An empty payload cannot be told from a detached one; an unencoded payload
\* that is not valid UTF-8 does not survive JSON.
Unreadable ==
    \/ wire.payload = Empty
    \/ wire.doc.form # "compact" /\ Embedded /\ wire.doc.payload = Plain(Replaced)

(***************************************************************************)
(* The same promise where it holds: for every payload that is not empty    *)
(* and that the serialization can carry (Sign and SignJSONMulti against    *)
(* VerifyWithOptions and VerifyJSONWithOptions, every option combination). *)
(***************************************************************************)
EmittedIsReadable == Unreadable \/ EveryDocumentIsReadable

(***************************************************************************)
(* A signer that sets DetachPayload gets a document without the payload.   *)
(* SignJSONMulti does not keep this when another signer does not set it.   *)
(***************************************************************************)
DetachedIsOmitted ==
    (wire.edits = 0 /\ \E k \in 1..Len(wire.signers) : wire.signers[k].opts.DetachPayload)
        => ~Embedded

-----------------------------------------------------------------------------
(* The loop over the signatures of a JSON document.                        *)

EntryResult(i) ==
    verifyJSONEntry(wire.doc.signatures[i], wire.doc.payload, verifying.key, verifying.opts)

SomeEntryVerifies ==
    \E i \in 1..Len(wire.doc.signatures) : EntryResult(i).err = nil

\* The loop over the entries of a document in one of the JSON forms is over.
JSONLoopDone ==
    /\ verifying.phase = "done"
    /\ wire.doc.form \in {"general", "flattened"}
    /\ jsonFormErr(wire.doc) = nil

(***************************************************************************)
(* VerifyJSONWithOptions accepts a well-formed document exactly if one of  *)
(* its entries verifies on its own, wherever it stands and whatever is     *)
(* wrong with the others, and otherwise reports the last entry's error.    *)
(***************************************************************************)
OneGoodEntrySuffices ==
    JSONLoopDone =>
        /\ (verifying.result.err = nil) <=> SomeEntryVerifies
        /\ ~SomeEntryVerifies =>
               verifying.result.err = EntryResult(Len(wire.doc.signatures)).err

(***************************************************************************)
(* A verification call on a document with a good entry ends by accepting   *)
(* it: no bad entry before it stops the loop.                              *)
(***************************************************************************)
GoodEntryIsFound ==
    (verifying.phase = "running" /\ SomeEntryVerifies) ~> Accepted

(***************************************************************************)
(* Every call returns: SignJSONMulti after at most one pass over its       *)
(* signers, VerifyJSONWithOptions after one pass over the signatures.      *)
(***************************************************************************)
CallsReturn ==
    /\ (signing.signers # <<>>) ~> (signing.signers = <<>>)
    /\ (verifying.phase = "running") ~> (verifying.phase = "done")

-----------------------------------------------------------------------------
(* Refinement: the whole exchange is a delivery of signed facts.           *)

Members(h) == {<<n, h[n]>> : n \in {m \in Name : Has(h, m)}}

SignedFact(t) == [pair |-> t.sig.pair, payload |-> t.payload,
                  members |-> Members(t.sig.protected.hdr)]

Delivered == IF Accepted
             THEN {[pair |-> UsedPair, payload |-> verifying.result.payload,
                    members |-> Members(verifying.result.header)]}
             ELSE {}

Abstract == INSTANCE SignedDelivery WITH
                signed <- {SignedFact(t) : t \in issued}, delivered <- Delivered

(***************************************************************************)
(* jws.go implements the abstract signed channel: what it delivers is only *)
(* ever something signed before, with the protected parameters intact.     *)
(***************************************************************************)
ImplementsSignedDelivery == Abstract!Spec

-----------------------------------------------------------------------------
(* The inductive invariant behind Authentic.                               *)

\* What a signature made over payload is, whoever made it.
MadeFrom(sig, payload) ==
    /\ sig \in Signatures
    /\ sig.pair # NoPair
    /\ sig.protected.form = "json"
    /\ sig.payload = payloadSegment(sig.protected.hdr, payload)

\* A signature spelled in a document was issued, unless no key made it.
Genuine(seg) == seg.sig.pair # NoPair => \E t \in issued : t.sig = seg.sig

WireGenuine ==
    \A i \in 1..Len(wire.doc.signatures) : Genuine(wire.doc.signatures[i].signature)

IssuedMade == \A t \in issued : MadeFrom(t.sig, t.payload)

SigningMade ==
    \A k \in 1..Len(signing.out) : MadeFrom(signing.out[k].signature.sig, signing.payload)

\* The serializations with a single signature have one.
WellFormed(doc) == doc.form \in {"compact", "flattened"} => Len(doc.signatures) = 1

LoopInRange ==
    verifying.phase = "running" => verifying.i \in 1..Len(wire.doc.signatures)

(***************************************************************************)
(* No call and no change on the way brings a signature into a document     *)
(* that was not issued, and each issued signature fixes the payload and    *)
(* the form ("b64") it is to be read in.                                   *)
(***************************************************************************)
IInv == /\ TypeOK
        /\ WireGenuine
        /\ IssuedMade
        /\ SigningMade
        /\ WellFormed(wire.doc)
        /\ LoopInRange
        /\ Authentic

-----------------------------------------------------------------------------
(* The invariant behind CriticalHonoured and KeyRestrictionsHonoured.      *)

\* Signer s was permitted to make sig, and sig covers the parameters s asked
\* for and lists those it named critical.
MadeBy(sig, s) ==
    LET h == sig.protected.hdr
    IN  /\ PermittedBy(s.key, sig.pair, "sign", sig.alg)
        /\ s.opts.Critical # <<>> =>
              Has(h, "crit") /\ h["crit"].items = s.opts.Critical
        /\ \A n \in Name \ {"alg", "kid", "crit"} : h[n] = JSONValue(s.opts.Header[n])

\* What a consumer with this key and these options checked before it accepted
\* t with result r.
CheckedResult(t, key, opts, r) ==
    /\ CoversResult(t, key, r)
    /\ checkCritical(t.sig.protected.hdr, <<"b64">> \o opts.KnownCritical) = nil
    /\ PermittedBy(key, PairOf(key, r), "verify", Algorithm(r.header))

IssuedMadeBy == \A t \in issued : MadeBy(t.sig, t.signer)

SigningMadeBy ==
    \A k \in 1..Len(signing.out) :
        MadeBy(signing.out[k].signature.sig, signing.signers[k])

ResultChecked ==
    Accepted => \E t \in issued :
        CheckedResult(t, verifying.key, verifying.opts, verifying.result)

(***************************************************************************)
(* Every signature in the caller's or the library's hands was made by the  *)
(* signer it is attributed to (signOne), and what is accepted has passed   *)
(* the consumer's checks under the header the signature covers             *)
(* (verifySignature).                                                      *)
(***************************************************************************)
CheckInv == IssuedMadeBy /\ SigningMadeBy /\ ResultChecked

-----------------------------------------------------------------------------
(* The invariant behind OneGoodEntrySuffices.                              *)

\* The loop over the entries has tried those before entry p.
Tried(p) ==
    /\ p \in 1..Len(wire.doc.signatures)
    /\ \A q \in 1..(p - 1) : EntryResult(q).err # nil

(***************************************************************************)
(* VerifyJSONWithOptions goes on to the next entry only after one failed,  *)
(* and what it returns is the first success or the last failure.           *)
(***************************************************************************)
LoopInv ==
    /\ verifying.phase = "running" => Tried(verifying.i)
    /\ JSONLoopDone =>
          \E p \in 1..Len(wire.doc.signatures) :
             /\ Tried(p)
             /\ verifying.result = EntryResult(p)
             /\ verifying.result.err = nil \/ p = Len(wire.doc.signatures)

-----------------------------------------------------------------------------
(* The invariant behind EmittedIsReadable.                                 *)

\* e is what signOne makes of payload for s, beside the unprotected header h.
SignedBy(e, s, payload, h) ==
    LET r == signOne(payload, s.key, s.opts)
    IN  r.err = nil /\ e = [protected |-> r.protected, header |-> h, signature |-> r.signature]

\* The payload segment s signs.
SegmentOf(s, payload) == signOne(payload, s.key, s.opts).encodedPayload

\* SignJSONMulti so far: every signer signs the one segment that the document
\* will hold, unless all of them detach it.
SigningSigned ==
    /\ Len(signing.out) <= Len(signing.signers)
    /\ \A k \in 1..Len(signing.out) :
          LET s == signing.signers[k]
          IN  /\ SignedBy(signing.out[k], s, signing.payload, s.opts.Unprotected)
              /\ SegmentOf(s, signing.payload) = signing.encodedPayload
    /\ signing.docPayload \in {Empty} \cup
          {signing.encodedPayload : k \in 1..Len(signing.out)}

\* A segment as the document's serialization carries it.
Carried(o) == IF wire.doc.form = "compact" THEN o ELSE JSONString(o)

\* An unchanged document holds its signers' signatures and their segment.
AsSigned ==
    wire.edits = 0 =>
        /\ wire.doc.form \in {"none", "compact", "general"}
        /\ Len(wire.doc.signatures) = Len(wire.signers)
        /\ \A k \in 1..Len(wire.signers) :
              LET s == wire.signers[k]
              IN  /\ wire.doc.form # "none"
                  /\ SignedBy(wire.doc.signatures[k], s, wire.payload, JSON(s.opts.Unprotected))
                  /\ wire.doc.payload \in {Empty, Carried(SegmentOf(s, wire.payload))}

CompactReturned ==
    wire.doc.form = "compact" =>
        /\ verifying.phase # "running"
        /\ verifying.phase = "done" =>
              verifying.result = VerifyWithOptions(wire.doc, verifying.key, verifying.opts)

(***************************************************************************)
(* What leaves Sign and SignJSONMulti is what signOne returned for each of *)
(* the signers, over one payload segment; VerifyWithOptions returns what   *)
(* its one signature gives.                                                *)
(***************************************************************************)
ReadInv == SigningSigned /\ AsSigned /\ CompactReturned
=============================================================================

--------------------------------- MODULE JWS ---------------------------------
(***************************************************************************)
(* JSON Web Signature, RFC 7515 and RFC 7797, as jws.go implements it.     *)
(*                                                                         *)
(* A producer calls Sign or SignJSONMulti; the document travels and may be *)
(* changed on the way; a consumer calls VerifyWithOptions or               *)
(* VerifyJSONWithOptions on what arrives.  The calls share no state, so    *)
(* taking them one at a time loses no behaviour; the loops over signers    *)
(* and over signatures take one step per iteration.                        *)
(***************************************************************************)
EXTENDS SigAlg, FiniteSets

CONSTANTS
    Payloads,        \* payloads callers sign
    Signers,         \* the [key, opts] pairs callers sign with
    Verifiers,       \* the [key, opts] pairs callers verify with
    HeaderEdits,     \* [name, value]: changes to an unprotected header on the way
    ProtectedEdits,  \* protected segments put in place of another
    PayloadEdits,    \* payload segments put in place of another
    MaxSigners,      \* bound: signers of one SignJSONMulti call
    MaxEntries,      \* bound: entries of a rearranged document
    MaxIssued,       \* bound: signatures issued in a behaviour
    MaxEdits         \* bound: changes to one document on the way

SignOptions == [Algorithm : Symbol, KeyID : Symbol, Header : Headers,
                Unprotected : Headers, Critical : Seq(Symbol), DetachPayload : BOOLEAN]
VerifyOptions == [Algorithms : Seq(Symbol), KnownCritical : Seq(Symbol),
                  DetachedPayload : Octets]
Signer   == [key : KeyArgs, opts : SignOptions]
Verifier == [key : KeyArgs, opts : VerifyOptions]

ASSUME JWSAssumption ==
    /\ Payloads \subseteq Octets
    /\ PayloadEdits \subseteq Octets
    /\ \A s \in Signers : s \in Signer
    /\ Verifiers # {} /\ \A v \in Verifiers : v \in Verifier
    /\ \A e \in HeaderEdits : e \in [name : Name, value : Value]
    /\ \A p \in ProtectedEdits : p \in ProtectedSegs
    /\ MaxSigners \in Nat /\ MaxEntries \in Nat /\ MaxIssued \in Nat /\ MaxEdits \in Nat

-----------------------------------------------------------------------------
(* Documents.                                                              *)

NoSeg == Seg("", NoHeader)
Junk  == signatureOf("", NoPair, NoSeg, Empty)

\* A signature as spelled: absent, base64url of a signature, or neither.
SigSegs == [form : {"", "b64", "notb64"}, sig : Signatures]
SigSeg(form, sig) == [form |-> form, sig |-> sig]

Entries == [protected : ProtectedSegs, header : Headers, signature : SigSegs]

\* compact: protected.payload.signature; general: "signatures"; flattened:
\* the single entry's members at the top level; mixed: both of these;
\* broken: neither three segments nor a JSON object; none: no document yet.
DocForm == {"none", "compact", "general", "flattened", "mixed", "broken"}
Docs == [form : DocForm, payload : Octets, signatures : Seq(Entries)]
NoDoc == [form |-> "none", payload |-> Empty, signatures |-> <<>>]

-----------------------------------------------------------------------------
(* RFC 7797: whether the payload is base64url-encoded.                     *)

isUnencoded(protected) == protected["b64"] = Bool("false")

\* The "b64" checks signOne and verifySignature share.
b64Err(protected, unprotected, crit) ==
    IF Has(unprotected, "b64") THEN "ErrUnprotectedB64"
    ELSE IF ~Has(protected, "b64") THEN nil
    ELSE IF protected["b64"].go # "bool" THEN "ErrInvalidHeader"
    ELSE IF isUnencoded(protected) /\ ~containsString(crit, "b64") THEN "ErrInvalidCrit"
    ELSE nil

payloadSegment(protected, payload) ==
    IF isUnencoded(protected) THEN payload ELSE EncodeSegment(payload)

-----------------------------------------------------------------------------
(* signOne.                                                                *)

chooseAlg(key, resolved, opts) ==
    IF opts.Algorithm # "" THEN [err |-> nil, alg |-> opts.Algorithm]
    ELSE IF key.kind = "*JWK" /\ key.keys[1].alg # ""
         THEN [err |-> nil, alg |-> key.keys[1].alg]
    ELSE defaultSigAlg(resolved)

\* The kid signOne adds to the caller's header; "" for none.
kidFor(key, opts) ==
    IF opts.KeyID # "" THEN opts.KeyID
    ELSE IF key.kind = "*JWK" /\ ~Has(opts.Header, "kid") /\ ~Has(opts.Unprotected, "kid")
         THEN key.keys[1].kid
    ELSE ""

protectedHeader(key, opts, alg) ==
    LET withAlg == With(opts.Header, "alg", Str(alg))
        kid     == kidFor(key, opts)
        withKid == IF kid # "" THEN With(withAlg, "kid", Str(kid)) ELSE withAlg
    IN  IF opts.Critical # <<>> THEN With(withKid, "crit", Strings(opts.Critical))
        ELSE withKid

signOne(payload, key, opts) ==
    LET fail(e)   == [err |-> e, protected |-> NoSeg, signature |-> SigSeg("", Junk),
                      encodedPayload |-> Empty]
        resolved  == resolveKey(key, opts.KeyID)
        chosen    == chooseAlg(key, resolved.key, opts)
        alg       == chosen.alg
        usage     == checkJWKUsage(key, opts.KeyID, "sig", {alg}, {"sign"})
        protected == protectedHeader(key, opts, alg)
        b64       == b64Err(protected, opts.Unprotected, opts.Critical)
        merged    == mergeHeaders(protected, opts.Unprotected)
        encoded   == encodeHeader(protected)
        segment   == payloadSegment(protected, payload)
    IN  IF resolved.err # nil THEN fail(resolved.err)
        ELSE IF chosen.err # nil THEN fail(chosen.err)
        ELSE IF lookupSigAlg(alg) # nil THEN fail(lookupSigAlg(alg))
        ELSE IF usage # nil THEN fail(usage)
        ELSE IF b64 # nil THEN fail(b64)
        ELSE IF merged.err # nil THEN fail(merged.err)
        ELSE IF checkCriticalProduced(protected) # nil
             THEN fail(checkCriticalProduced(protected))
        ELSE IF encoded.err # nil THEN fail(encoded.err)
        ELSE IF isUnencoded(protected) /\ HasDot(payload) THEN fail("ErrInvalidToken")
        ELSE IF signErr(alg, resolved.key) # nil THEN fail(signErr(alg, resolved.key))
        ELSE [err |-> nil,
              protected |-> encoded.seg,
              signature |-> SigSeg("b64",
                              signatureOf(alg, resolved.key.pair, encoded.seg, segment)),
              encodedPayload |-> segment]

-----------------------------------------------------------------------------
(* verifySignature and the verification calls.                             *)

Results == [err : Errors, payload : Octets, header : Headers]
failed(e) == [err |-> e, payload |-> Empty, header |-> NoHeader]

verifySignature(protectedSeg, protected, unprotected, payloadSeg, sigSeg, key, opts) ==
    LET merged   == mergeHeaders(protected, unprotected)
        alg      == Algorithm(merged.hdr)
        kid      == KeyID(merged.hdr)
        crit     == checkCritical(protected, <<"b64">> \o opts.KnownCritical)
        b64      == b64Err(protected, unprotected, Critical(protected))
        segment  == IF payloadSeg # Empty THEN payloadSeg
                    ELSE payloadSegment(protected, opts.DetachedPayload)
        usage    == checkJWKUsage(key, kid, "sig", {alg}, {"verify"})
        resolved == resolveKey(key, kid)
        checked  == verify(alg, protectedSeg, segment, sigSeg.sig, resolved.key)
        decoded  == DecodeSegment(segment)
    IN  IF merged.err # nil THEN failed(merged.err)
        ELSE IF alg = "" THEN failed("ErrInvalidHeader")
        ELSE IF alg = None THEN failed("ErrNoneAlgDisallowed")
        ELSE IF opts.Algorithms # <<>> /\ ~containsString(opts.Algorithms, alg)
             THEN failed("ErrSignatureInvalid")
        ELSE IF crit # nil THEN failed(crit)
        ELSE IF b64 # nil THEN failed(b64)
        ELSE IF payloadSeg = Empty /\ opts.DetachedPayload = Empty
             THEN failed("ErrDetachedPayload")
        ELSE IF lookupSigAlg(alg) # nil THEN failed(lookupSigAlg(alg))
        ELSE IF usage # nil THEN failed(usage)
        ELSE IF resolved.err # nil THEN failed(resolved.err)
        ELSE IF sigSeg.form = "" THEN failed("ErrSignatureInvalid")
        ELSE IF sigSeg.form = "notb64" THEN failed("ErrMalformed")
        ELSE IF checked # nil THEN failed(checked)
        ELSE IF isUnencoded(protected)
             THEN [err |-> nil, payload |-> segment, header |-> merged.hdr]
        ELSE IF decoded.err # nil THEN failed("ErrMalformed")
        ELSE [err |-> nil, payload |-> decoded.out, header |-> merged.hdr]

\* One iteration of VerifyJSONWithOptions' loop, which also is what
\* VerifyWithOptions does with its single signature: a compact JWS has no
\* unprotected header, so its merged header is the protected one.
verifyEntry(e, payloadSeg, key, opts) ==
    LET decoded == decodeHeader(e.protected)
    IN  IF decoded.err # nil THEN failed(decoded.err)
        ELSE verifySignature(e.protected, decoded.hdr, e.header, payloadSeg,
                             e.signature, key, opts)

verifyJSONEntry(e, payloadSeg, key, opts) ==
    IF e.protected.form = ""
    THEN verifySignature(e.protected, NoHeader, e.header, payloadSeg, e.signature, key, opts)
    ELSE verifyEntry(e, payloadSeg, key, opts)

VerifyWithOptions(doc, key, opts) ==
    IF doc.form # "compact" \/ HasDot(doc.payload) THEN failed("ErrMalformed")
    ELSE verifyEntry(doc.signatures[1], doc.payload, key, opts)

\* The checks VerifyJSONWithOptions makes before its loop.
jsonFormErr(doc) ==
    IF doc.form = "broken" THEN "ErrMalformed"
    ELSE IF doc.form = "mixed" THEN "ErrMalformed"
    ELSE IF doc.form = "flattened" /\ doc.signatures[1].signature.form = ""
         THEN "ErrMalformed"
    ELSE IF doc.signatures = <<>> THEN "ErrMalformed"
    ELSE nil

-----------------------------------------------------------------------------
(* State.                                                                  *)

VARIABLES
    signing,    \* the locals of a SignJSONMulti call; no signers: no call
    wire,       \* the document, what it was made from, and how often it changed
    verifying,  \* the locals and the result of a verification call
    issued      \* every signature handed to a caller, and what it was made from

vars == <<signing, wire, verifying, issued>>

NoSigning == [payload |-> Empty, signers |-> <<>>, out |-> <<>>,
              encodedPayload |-> Empty, docPayload |-> Empty]
NoWire    == [doc |-> NoDoc, payload |-> Empty, signers |-> <<>>, edits |-> 0]

\* phase: idle, running (in VerifyJSONWithOptions' loop, at entry i, with
\* result.err as lastErr) or done (result is what the call returned).
Verifying(v) == [phase |-> "idle", key |-> v.key, opts |-> v.opts, i |-> 0,
                 result |-> failed(nil)]
NoVerifying  == Verifying(CHOOSE v \in Verifiers : TRUE)

Issues == [sig : Signatures, payload : Octets, signer : Signer]

TypeOK ==
    /\ signing \in [payload : Octets, signers : Seq(Signers), out : Seq(Entries),
                    encodedPayload : Octets, docPayload : Octets]
    /\ wire \in [doc : Docs, payload : Octets, signers : Seq(Signers), edits : Nat]
    /\ verifying \in [phase : {"idle", "running", "done"}, key : KeyArgs,
                      opts : VerifyOptions, i : Nat, result : Results]
    /\ issued \subseteq Issues

Init ==
    /\ signing = NoSigning
    /\ wire = NoWire
    /\ verifying = NoVerifying
    /\ issued = {}

Idle == signing.signers = <<>> /\ verifying.phase # "running"

\* A call returns the document doc, made by signers from payload.
Emit(doc, payload, signers) ==
    /\ wire' = [doc |-> doc, payload |-> payload, signers |-> signers, edits |-> 0]
    /\ issued' = issued \cup
         {[sig |-> doc.signatures[k].signature.sig, payload |-> payload,
           signer |-> signers[k]] : k \in 1..Len(signers)}
    /\ verifying' = NoVerifying

-----------------------------------------------------------------------------
(* The producer.  A call that fails returns an error and nothing else.     *)

Sign ==
    /\ Idle
    /\ Cardinality(issued) < MaxIssued
    /\ \E payload \in Payloads, s \in Signers :
         LET r == signOne(payload, s.key, s.opts)
         IN  /\ s.opts.Unprotected = NoHeader
             /\ r.err = nil
             /\ Emit([form |-> "compact",
                      payload |-> IF s.opts.DetachPayload THEN Empty ELSE r.encodedPayload,
                      signatures |-> <<[protected |-> r.protected, header |-> NoHeader,
                                        signature |-> r.signature]>>],
                     payload, <<s>>)
    /\ UNCHANGED signing

\* SignJSON is the call with one signer.
StartSignJSONMulti ==
    /\ Idle
    /\ \E n \in 1..MaxSigners :
         /\ Cardinality(issued) + n <= MaxIssued
         /\ \E payload \in Payloads, signers \in [1..n -> Signers] :
              signing' = [NoSigning EXCEPT !.payload = payload, !.signers = signers]
    /\ UNCHANGED <<wire, verifying, issued>>

\* The mutant lets every signer choose its own "b64".
MutEncodingsDisagree(k, encoded, first) == FALSE

\* The payload is serialized only once.
encodingsDisagree(k, encoded, first) == k > 1 /\ encoded # first

\* The loop of SignJSONMulti for the signer that comes next.
SignNext ==
    LET k        == Len(signing.out) + 1
        s        == signing.signers[k]
        r        == signOne(signing.payload, s.key, s.opts)
        disagree == encodingsDisagree(k, r.encodedPayload, signing.encodedPayload)
    IN  /\ Len(signing.out) < Len(signing.signers)
        /\ signing' =
             IF r.err # nil \/ disagree THEN NoSigning
             ELSE [signing EXCEPT
                     !.out = Append(@, [protected |-> r.protected,
                                        header |-> s.opts.Unprotected,
                                        signature |-> r.signature]),
                     !.encodedPayload = r.encodedPayload,
                     !.docPayload = IF s.opts.DetachPayload THEN @ ELSE r.encodedPayload]
        /\ UNCHANGED <<wire, verifying, issued>>

\* json.Marshal and the return of SignJSONMulti.
SignReturn ==
    /\ signing.signers # <<>>
    /\ Len(signing.out) = Len(signing.signers)
    /\ IF \A k \in 1..Len(signing.out) : Marshals(signing.out[k].header)
       THEN Emit([form |-> "general",
                  payload |-> JSONString(signing.docPayload),
                  signatures |-> [k \in 1..Len(signing.out) |->
                     [signing.out[k] EXCEPT !.header = JSON(@)]]],
                 signing.payload, signing.signers)
       ELSE UNCHANGED <<wire, verifying, issued>>
    /\ signing' = NoSigning

-----------------------------------------------------------------------------
(* The way from producer to consumer, which the library does not control:  *)
(* anything may change except that no one makes a signature without its    *)
(* key.                                                                    *)

Edit(doc) ==
    /\ Idle
    /\ wire.doc.form \notin {"none", "broken"}
    /\ wire.edits < MaxEdits
    /\ wire' = [wire EXCEPT !.doc = doc, !.edits = @ + 1]
    /\ verifying' = NoVerifying
    /\ UNCHANGED <<signing, issued>>

EditEntry(i, e) == Edit([wire.doc EXCEPT !.signatures[i] = e])

EditHeader ==
    \E i \in 1..Len(wire.doc.signatures), c \in HeaderEdits :
        /\ wire.doc.form # "compact"
        /\ EditEntry(i, [wire.doc.signatures[i] EXCEPT !.header = With(@, c.name, c.value)])

EditProtected ==
    \E i \in 1..Len(wire.doc.signatures) :
        LET e == wire.doc.signatures[i]
        IN  \E p \in ProtectedEdits \cup {Seg("respelled", e.protected.hdr)} :
                EditEntry(i, [e EXCEPT !.protected = p])

EditSignature ==
    \E i \in 1..Len(wire.doc.signatures), form \in {"", "b64", "notb64"} :
        EditEntry(i, [wire.doc.signatures[i] EXCEPT !.signature = SigSeg(form, Junk)])

\* An entry, or only the signature of one, taken from another document.
Splice ==
    \E i \in 1..Len(wire.doc.signatures), t \in issued, whole \in BOOLEAN :
        LET e == wire.doc.signatures[i]
        IN  EditEntry(i, [protected |-> IF whole THEN t.sig.protected ELSE e.protected,
                          header |-> e.header, signature |-> SigSeg("b64", t.sig)])

EditPayload ==
    \E o \in PayloadEdits : Edit([wire.doc EXCEPT !.payload = o])

\* Entries dropped, repeated or put in another order.
Rearrange ==
    /\ wire.doc.form = "general"
    /\ \E n \in 0..MaxEntries : \E f \in [1..n -> 1..Len(wire.doc.signatures)] :
         Edit([wire.doc EXCEPT !.signatures = [k \in 1..n |-> wire.doc.signatures[f[k]]]])

\* A single signature moves freely between the three serializations.
Reserialize ==
    /\ Len(wire.doc.signatures) = 1
    /\ \E form \in {"compact", "general", "flattened"} \ {wire.doc.form} :
         /\ form = "compact" => wire.doc.signatures[1].header = NoHeader
         /\ Edit([form |-> form, signatures |-> wire.doc.signatures,
                  payload |-> IF form = "compact" THEN wire.doc.payload
                              ELSE JSONString(wire.doc.payload)])

\* Top-level flattened members added to "signatures"; octets lost.
Mangle ==
    \/ wire.doc.form = "general" /\ wire.doc.signatures # <<>>
       /\ Edit([wire.doc EXCEPT !.form = "mixed"])
    \/ Edit([wire.doc EXCEPT !.form = "broken"])

Transit == \/ EditHeader \/ EditProtected \/ EditSignature \/ Splice \/ EditPayload
           \/ Rearrange \/ Reserialize \/ Mangle

-----------------------------------------------------------------------------
(* The consumer calls the function for the serialization it holds: given   *)
(* the other one, each only fails to parse it.                             *)

Verify ==
    /\ Idle
    /\ wire.doc.form \in {"compact", "broken"}
    /\ \E v \in Verifiers :
         verifying' = [Verifying(v) EXCEPT !.phase = "done",
                          !.result = VerifyWithOptions(wire.doc, v.key, v.opts)]
    /\ UNCHANGED <<signing, wire, issued>>

StartVerifyJSON ==
    /\ Idle
    /\ wire.doc.form \notin {"none", "compact"}
    /\ \E v \in Verifiers :
         verifying' =
            IF jsonFormErr(wire.doc) # nil
            THEN [Verifying(v) EXCEPT !.phase = "done",
                                        !.result = failed(jsonFormErr(wire.doc))]
            ELSE [Verifying(v) EXCEPT !.phase = "running", !.i = 1,
                                        !.result = failed("ErrSignatureInvalid")]
    /\ UNCHANGED <<signing, wire, issued>>

\* The mutant returns the first error instead of going on.
MutNextVerifying(vf, r, last) == [vf EXCEPT !.phase = "done", !.result = r]

\* The mutant tries again from the start when no entry verified.
MutEndlessVerifying(vf, r, last) ==
    IF r.err = nil THEN [vf EXCEPT !.phase = "done", !.result = r]
    ELSE [vf EXCEPT !.i = IF last THEN 1 ELSE @ + 1, !.result = r]

\* The loop's locals after entry vf.i gave r: return, return lastErr, go on.
nextVerifying(vf, r, last) ==
    IF r.err = nil \/ last THEN [vf EXCEPT !.phase = "done", !.result = r]
    ELSE [vf EXCEPT !.i = @ + 1, !.result = r]

VerifyNext ==
    /\ verifying.phase = "running"
    /\ verifying' = nextVerifying(verifying,
                        verifyJSONEntry(wire.doc.signatures[verifying.i], wire.doc.payload,
                                        verifying.key, verifying.opts),
                        verifying.i = Len(wire.doc.signatures))
    /\ UNCHANGED <<signing, wire, issued>>

-----------------------------------------------------------------------------

Next == \/ Sign \/ StartSignJSONMulti \/ SignNext \/ SignReturn
        \/ Transit
        \/ Verify \/ StartVerifyJSON \/ VerifyNext

\* The loops run to their end once a call is made; no caller must call.  These
\* are WF_vars(SignNext \/ SignReturn) and WF_vars(VerifyNext) with ENABLED
\* written out, which TLC would evaluate by signing and verifying several times.
Fairness ==
    /\ []<>(signing.signers = <<>>) \/ []<><<SignNext \/ SignReturn>>_vars
    /\ []<>(verifying.phase # "running") \/ []<><<VerifyNext>>_vars

Spec == Init /\ [][Next]_vars /\ Fairness
=============================================================================

------------------------------ MODULE JWSProofs ------------------------------
(***************************************************************************)
(* Proofs, for every value of the constants, that the JWS specification    *)
(* keeps its types, that what verifies is authentic, and that it           *)
(* implements SignedDelivery.                                              *)
(***************************************************************************)
EXTENDS JWSProperties, JOSELemmas

-----------------------------------------------------------------------------
(* Operators of JWS.                                                       *)

\* What "b64" says survives encodeHeader and decodeHeader.
LEMMA UnencodedSurvivesJSON ==
  ASSUME NEW h \in Headers
  PROVE  isUnencoded(JSON(h)) <=> isUnencoded(h)
<1>1. "b64" \in Name /\ h["b64"] \in Value
  BY NameAssumption DEF Headers
<1>2. JSON(h)["b64"] = JSONValue(h["b64"])
  BY <1>1 DEF JSON
<1> QED BY <1>1, <1>2, JSONValueType DEF isUnencoded

\* A missing protected segment is one.
LEMMA NoSegType == NoSeg \in ProtectedSegs
  BY NoHeaderType, SegType DEF NoSeg, SegForm

\* A key pair is never NoPair: no key makes, or verifies, octets that no key
\* made.
LEMMA ResolvedPair ==
  ASSUME NEW key \in KeyArgs, NEW kid
  PROVE  /\ resolveKey(key, kid).key.pair \in Pair
         /\ resolveKey(key, kid).key.pair # NoPair
BY ResolveType, PairAssumption DEF GoKeys, NoPair

-----------------------------------------------------------------------------
(* signOne.                                                                *)

\* The kid a signer writes is a symbol.
LEMMA KidType ==
  ASSUME NEW key \in KeyArgs, NEW opts \in SignOptions
  PROVE  kidFor(key, opts) \in Symbol
<1>1. CASE key.kind = "*JWK"
  <2>1. Len(key.keys) = 1 /\ key.keys \in Seq(JWKs)
    BY <1>1 DEF KeyArgs
  <2>2. key.keys[1] \in JWKs
    BY <2>1
  <2>3. key.keys[1].kid \in Symbol
    BY <2>2 DEF JWKs
  <2>4. opts.KeyID \in Symbol
    BY DEF SignOptions
  <2> QED BY <2>3, <2>4, SymbolAssumption DEF kidFor
<1>2. CASE key.kind # "*JWK"
  BY <1>2, SymbolAssumption DEF kidFor, SignOptions
<1> QED BY <1>1, <1>2

\* A signer's protected header is a header.
LEMMA ProtectedHeaderType ==
  ASSUME NEW key \in KeyArgs, NEW opts \in SignOptions, NEW alg \in Symbol
  PROVE  protectedHeader(key, opts, alg) \in Headers
<1>1. opts.Header \in Headers /\ opts.Critical \in Seq(Symbol)
  BY DEF SignOptions
<1> DEFINE withAlg == With(opts.Header, "alg", Str(alg))
           kid     == kidFor(key, opts)
           withKid == IF kid # "" THEN With(withAlg, "kid", Str(kid)) ELSE withAlg
<1>2. withAlg \in Headers
  BY <1>1, StrType, WithType
<1>3. With(withAlg, "kid", Str(kid)) \in Headers
  BY <1>2, KidType, StrType, WithType
<1>4. withKid \in Headers
  BY <1>2, <1>3
<1>5. With(withKid, "crit", Strings(opts.Critical)) \in Headers
  <2> HIDE DEF withKid
  <2> QED BY <1>1, <1>4, StringsType, WithType
<1>6. protectedHeader(key, opts, alg) \in
        {withKid, With(withKid, "crit", Strings(opts.Critical))}
  BY DEF protectedHeader
<1> QED BY <1>4, <1>5, <1>6

\* The payload segment a signature covers is an octet string.
LEMMA SegmentType ==
  ASSUME NEW h, NEW o \in Octets PROVE payloadSegment(h, o) \in Octets
  BY EncodeType DEF payloadSegment

\* What signOne returns with its signature, from payload.
Produced(r, payload) ==
    /\ r.protected \in ProtectedSegs /\ r.signature \in SigSegs
    /\ r.encodedPayload \in Octets
    /\ MadeFrom(r.signature.sig, payload)

(***************************************************************************)
(* A signature that signOne returns covers the payload in the form that    *)
(* the protected header it covers declares, and is no one else's.          *)
(***************************************************************************)
LEMMA SignOneSucceeds ==
  ASSUME NEW payload \in Octets, NEW key \in KeyArgs, NEW opts \in SignOptions,
         signOne(payload, key, opts).err = nil
  PROVE  Produced(signOne(payload, key, opts), payload)
<1> DEFINE r         == signOne(payload, key, opts)
           resolved  == resolveKey(key, opts.KeyID)
           alg       == chooseAlg(key, resolved.key, opts).alg
           protected == protectedHeader(key, opts, alg)
           seg       == Seg("json", JSON(protected))
           sig       == signatureOf(alg, resolved.key.pair, seg,
                                    payloadSegment(protected, payload))
<1>1. /\ lookupSigAlg(alg) = nil
      /\ encodeHeader(protected).err = nil
      /\ r = [err |-> nil, protected |-> encodeHeader(protected).seg,
              signature |-> SigSeg("b64",
                  signatureOf(alg, resolved.key.pair, encodeHeader(protected).seg,
                              payloadSegment(protected, payload))),
              encodedPayload |-> payloadSegment(protected, payload)]
  BY DEF signOne, nil
<1>2. encodeHeader(protected).seg = seg
  BY <1>1 DEF encodeHeader, nil
<1>3. alg \in Symbol
  BY <1>1, AlgAssumption DEF lookupSigAlg, nil
<1>4. protected \in Headers
  <2> HIDE DEF alg
  <2> QED BY <1>3, ProtectedHeaderType
<1>5. resolved.key.pair \in Pair /\ resolved.key.pair # NoPair
  BY ResolvedPair
<1> HIDE DEF alg, protected, resolved
<1>6. seg \in ProtectedSegs /\ seg.form = "json" /\ seg.hdr = JSON(protected)
  BY <1>4, JSONType, SegType DEF SegForm, Seg
<1>7. payloadSegment(protected, payload) = payloadSegment(JSON(protected), payload)
  BY <1>4, UnencodedSurvivesJSON DEF payloadSegment
<1>8. payloadSegment(protected, payload) \in Octets
  BY SegmentType
<1>9. sig \in Signatures /\ MadeFrom(sig, payload)
  BY <1>3, <1>5, <1>6, <1>7, <1>8 DEF signatureOf, Signatures, MadeFrom
<1>10. SigSeg("b64", sig) \in SigSegs
  BY <1>9 DEF SigSeg, SigSegs
<1>11. r.protected = seg /\ r.signature = SigSeg("b64", sig)
       /\ r.encodedPayload = payloadSegment(protected, payload)
  BY <1>1, <1>2
<1> HIDE DEF r, seg, sig
<1>12. Produced(r, payload)
  BY <1>6, <1>8, <1>9, <1>10, <1>11 DEF SigSeg, Produced
<1> QED BY <1>12 DEF r

-----------------------------------------------------------------------------
(* verifySignature and verifyEntry.                                        *)

\* A failed verification is a result.
LEMMA FailedType ==
  ASSUME NEW e \in Errors PROVE failed(e) \in Results
  BY EmptyType, NoHeaderType DEF failed, Results

\* The checks of verifySignature that are its own report nil or a sentinel error.
LEMMA SigErrorTypes ==
  /\ \A h1, h2, crit : b64Err(h1, h2, crit) \in Errors
  /\ \A alg : lookupSigAlg(alg) \in Errors
  BY DEF b64Err, lookupSigAlg, Errors, nil

\* verify fails with an error of the package.
LEMMA VerifyErrorType ==
  ASSUME NEW alg, NEW p, NEW o, NEW sig, NEW key
  PROVE  verify(alg, p, o, sig, key) \in Errors
  BY DEF verify, Errors, nil

\* The segment verifySignature checks the signature against.
CheckedSegment(protected, payloadSeg, opts) ==
    IF payloadSeg # Empty THEN payloadSeg
    ELSE payloadSegment(protected, opts.DetachedPayload)

\* verifySignature gives a result, whatever it is passed.
LEMMA VerifySignatureType ==
  ASSUME NEW pseg \in ProtectedSegs, NEW protected \in Headers, NEW unprotected \in Headers,
         NEW payloadSeg \in Octets, NEW sigSeg \in SigSegs,
         NEW key \in KeyArgs, NEW opts \in VerifyOptions
  PROVE  verifySignature(pseg, protected, unprotected, payloadSeg, sigSeg, key, opts)
            \in Results
<1> DEFINE r       == verifySignature(pseg, protected, unprotected, payloadSeg, sigSeg, key, opts)
           merged  == mergeHeaders(protected, unprotected)
           segment == CheckedSegment(protected, payloadSeg, opts)
<1>1. segment \in Octets
  BY SegmentType DEF CheckedSegment, VerifyOptions
<1>2. merged.hdr \in Headers
  BY MergeType
<1>3. DecodeSegment(segment).out \in Octets
  BY <1>1, DecodeType
<1>4. \/ \E e \in Errors : r = failed(e)
      \/ r = [err |-> nil, payload |-> segment, header |-> merged.hdr]
      \/ r = [err |-> nil, payload |-> DecodeSegment(segment).out, header |-> merged.hdr]
  <2>1. /\ {"ErrInvalidHeader", "ErrNoneAlgDisallowed", "ErrSignatureInvalid",
             "ErrDetachedPayload", "ErrMalformed"} \subseteq Errors
    BY DEF Errors
  <2> QED BY <2>1, ErrorTypes, SigErrorTypes, ResolveErrorType, VerifyErrorType
          DEF verifySignature, CheckedSegment
<1> HIDE DEF r, merged, segment
<1>5. [err |-> nil, payload |-> segment, header |-> merged.hdr] \in Results
  BY <1>1, <1>2, NilType DEF Results
<1>6. [err |-> nil, payload |-> DecodeSegment(segment).out, header |-> merged.hdr] \in Results
  BY <1>2, <1>3, NilType DEF Results
<1>7. r \in Results
  BY <1>4, <1>5, <1>6, FailedType
<1> QED BY <1>7 DEF r

(***************************************************************************)
(* What a verification with result r has established: the signature is     *)
(* that of the resolved key over the protected segment as received and     *)
(* over the segment the returned payload was read from.                    *)
(***************************************************************************)
Established(pseg, protected, unprotected, payloadSeg, sigSeg, key, opts, r) ==
    LET segment == CheckedSegment(protected, payloadSeg, opts)
    IN  /\ mergeHeaders(protected, unprotected).err = nil
        /\ r.header = mergeHeaders(protected, unprotected).hdr
        /\ sigSeg.sig.pair = PairOf(key, r)
        /\ sigSeg.sig.protected = pseg
        /\ sigSeg.sig.payload = segment
        /\ isUnencoded(protected) => r.payload = segment
        /\ ~isUnencoded(protected) => r.payload = DecodeSegment(segment).out

\* A verification that succeeds has established that.
LEMMA VerifySignatureSucceeds ==
  ASSUME NEW pseg, NEW protected, NEW unprotected, NEW payloadSeg, NEW sigSeg,
         NEW key, NEW opts,
         verifySignature(pseg, protected, unprotected, payloadSeg, sigSeg, key, opts).err = nil
  PROVE  Established(pseg, protected, unprotected, payloadSeg, sigSeg, key, opts,
            verifySignature(pseg, protected, unprotected, payloadSeg, sigSeg, key, opts))
<1> DEFINE r        == verifySignature(pseg, protected, unprotected, payloadSeg, sigSeg, key, opts)
           merged   == mergeHeaders(protected, unprotected)
           segment  == CheckedSegment(protected, payloadSeg, opts)
           alg      == Algorithm(merged.hdr)
           resolved == resolveKey(key, KeyID(merged.hdr))
           outcome(payload) == [err |-> nil, payload |-> payload, header |-> merged.hdr]
<1>1. /\ merged.err = nil
      /\ verify(alg, pseg, segment, sigSeg.sig, resolved.key) = nil
      /\ \/ /\ isUnencoded(protected)
            /\ r = outcome(segment)
         \/ /\ ~isUnencoded(protected)
            /\ r = outcome(DecodeSegment(segment).out)
  BY DEF verifySignature, CheckedSegment, failed, nil
<1> HIDE DEF r, merged, segment, alg, resolved
<1>2. sigSeg.sig = signatureOf(alg, resolved.key.pair, pseg, segment)
  BY <1>1 DEF verify, nil
<1>3. /\ sigSeg.sig.pair = resolved.key.pair /\ sigSeg.sig.protected = pseg
      /\ sigSeg.sig.payload = segment
  BY <1>2 DEF signatureOf
<1>4. \A payload : outcome(payload).payload = payload /\ outcome(payload).header = merged.hdr
  OBVIOUS
<1> HIDE DEF outcome
<1>5. isUnencoded(protected) => r.payload = segment
  BY <1>1, <1>4
<1>6. ~isUnencoded(protected) => r.payload = DecodeSegment(segment).out
  BY <1>1, <1>4
<1>7. r.header = merged.hdr
  <2>1. CASE isUnencoded(protected)
    BY <1>1, <1>4, <2>1
  <2>2. CASE ~isUnencoded(protected)
    BY <1>1, <1>4, <2>2
  <2> QED BY <2>1, <2>2
<1>8. resolved.key.pair = PairOf(key, r)
  BY <1>7 DEF resolved, PairOf
<1> QED BY <1>1, <1>3, <1>5, <1>6, <1>7, <1>8 DEF Established, r, merged, segment

-----------------------------------------------------------------------------
(* State-level facts.                                                      *)

\* The parts of a document's entry.
LEMMA EntryFields ==
  ASSUME TypeOK, NEW i \in 1..Len(wire.doc.signatures)
  PROVE  /\ wire.doc \in Docs /\ wire.doc.payload \in Octets
         /\ wire.doc.signatures \in Seq(Entries)
         /\ wire.doc.signatures[i] \in Entries
         /\ wire.doc.signatures[i].protected \in ProtectedSegs
         /\ wire.doc.signatures[i].header \in Headers
         /\ wire.doc.signatures[i].signature \in SigSegs
<1>1. wire.doc \in Docs
  BY DEF TypeOK
<1>2. wire.doc.payload \in Octets /\ wire.doc.signatures \in Seq(Entries)
  BY <1>1 DEF Docs
<1>3. wire.doc.signatures[i] \in Entries
  BY <1>2
<1> QED BY <1>1, <1>2, <1>3 DEF Entries

\* Verifying an entry of the document gives a result.
LEMMA VerifyEntryType ==
  ASSUME TypeOK, NEW i \in 1..Len(wire.doc.signatures),
         NEW key \in KeyArgs, NEW opts \in VerifyOptions
  PROVE  /\ verifyEntry(wire.doc.signatures[i], wire.doc.payload, key, opts) \in Results
         /\ verifyJSONEntry(wire.doc.signatures[i], wire.doc.payload, key, opts) \in Results
<1> DEFINE e == wire.doc.signatures[i]
<1>1. /\ e.protected \in ProtectedSegs /\ e.header \in Headers
      /\ e.signature \in SigSegs /\ wire.doc.payload \in Octets
  BY EntryFields
<1>2. decodeHeader(e.protected).hdr \in Headers
  BY <1>1, DecodeHeaderType
<1> HIDE DEF e
<1>3. verifyEntry(e, wire.doc.payload, key, opts) \in Results
  <2>1. failed(decodeHeader(e.protected).err) \in Results
    BY ErrorTypes, FailedType
  <2>2. verifySignature(e.protected, decodeHeader(e.protected).hdr, e.header,
                        wire.doc.payload, e.signature, key, opts) \in Results
    BY <1>1, <1>2, VerifySignatureType
  <2> QED BY <2>1, <2>2 DEF verifyEntry
<1>4. verifyJSONEntry(e, wire.doc.payload, key, opts) \in Results
  <2>1. verifySignature(e.protected, NoHeader, e.header,
                        wire.doc.payload, e.signature, key, opts) \in Results
    BY <1>1, NoHeaderType, VerifySignatureType
  <2> QED BY <1>3, <2>1 DEF verifyJSONEntry
<1> QED BY <1>3, <1>4 DEF e

(***************************************************************************)
(* The heart of authenticity: an entry that verifies carries a signature   *)
(* that was issued, and the payload and protected parameters it returns    *)
(* are the ones that signature was made over.                              *)
(***************************************************************************)
LEMMA VerifiedEntryIsCovered ==
  ASSUME TypeOK, WireGenuine, IssuedMade,
         NEW i \in 1..Len(wire.doc.signatures),
         NEW key \in KeyArgs, NEW opts \in VerifyOptions,
         verifyEntry(wire.doc.signatures[i], wire.doc.payload, key, opts).err = nil
  PROVE  \E t \in issued :
            /\ t.sig = wire.doc.signatures[i].signature.sig
            /\ t.sig.protected = wire.doc.signatures[i].protected
            /\ CoversResult(t, key,
                  verifyEntry(wire.doc.signatures[i], wire.doc.payload, key, opts))
<1> DEFINE e         == wire.doc.signatures[i]
           protected == decodeHeader(e.protected).hdr
           r         == verifySignature(e.protected, protected, e.header,
                                        wire.doc.payload, e.signature, key, opts)
           segment   == CheckedSegment(protected, wire.doc.payload, opts)
<1>1. /\ decodeHeader(e.protected).err = nil
      /\ verifyEntry(e, wire.doc.payload, key, opts) = r
      /\ r.err = nil
  BY DEF verifyEntry, failed
<1>2. protected = e.protected.hdr
  BY <1>1 DEF decodeHeader, nil
<1>3. Established(e.protected, protected, e.header, wire.doc.payload,
                  e.signature, key, opts, r)
  <2> HIDE DEF e, protected
  <2> QED BY <1>1, VerifySignatureSucceeds
<1>4. Genuine(e.signature)
  BY DEF WireGenuine
<1> HIDE DEF protected, r, segment
<1>5. /\ mergeHeaders(protected, e.header).err = nil
      /\ r.header = mergeHeaders(protected, e.header).hdr
      /\ e.signature.sig.pair = PairOf(key, r)
      /\ e.signature.sig.protected = e.protected
      /\ e.signature.sig.payload = segment
      /\ isUnencoded(protected) => r.payload = segment
      /\ ~isUnencoded(protected) => r.payload = DecodeSegment(segment).out
  BY <1>3 DEF Established, segment
<1>6. PairOf(key, r) # NoPair
  BY ResolvedPair DEF PairOf
<1>7. PICK t \in issued : t.sig = e.signature.sig
  BY <1>4, <1>5, <1>6 DEF Genuine
<1>8. /\ t.payload \in Octets
      /\ t.sig.payload = payloadSegment(t.sig.protected.hdr, t.payload)
  BY DEF TypeOK, Issues, IssuedMade, MadeFrom
<1>9. t.sig.protected.hdr = protected
  BY <1>2, <1>5, <1>7
<1>10. segment = payloadSegment(protected, t.payload)
  BY <1>5, <1>7, <1>8, <1>9
<1>11. r.payload = t.payload
  <2>1. CASE isUnencoded(protected)
    BY <1>5, <1>10, <2>1 DEF payloadSegment
  <2>2. CASE ~isUnencoded(protected)
    <3>1. segment = EncodeSegment(t.payload)
      BY <1>10, <2>2 DEF payloadSegment
    <3>2. DecodeSegment(EncodeSegment(t.payload)).out = t.payload
      BY <1>8, LayerRoundTrip
    <3> QED BY <1>5, <2>2, <3>1, <3>2
  <2> QED BY <2>1, <2>2
<1>12. ASSUME NEW n \in Name, Has(protected, n) PROVE r.header[n] = protected[n]
  <2>1. mergeHeaders(protected, e.header).hdr[n] = protected[n]
    BY <1>5, <1>12, MergeKeepsProtected
  <2> QED BY <1>5, <2>1
<1>13. t.sig.pair = PairOf(key, r)
  BY <1>5, <1>7
<1>14. CoversResult(t, key, r)
  BY <1>9, <1>11, <1>12, <1>13 DEF CoversResult
<1> QED BY <1>1, <1>5, <1>7, <1>14

\* An entry of a JSON document with no protected header never verifies.
LEMMA VerifiedJSONEntryIsCovered ==
  ASSUME TypeOK, WireGenuine, IssuedMade,
         NEW i \in 1..Len(wire.doc.signatures),
         NEW key \in KeyArgs, NEW opts \in VerifyOptions,
         verifyJSONEntry(wire.doc.signatures[i], wire.doc.payload, key, opts).err = nil
  PROVE  /\ wire.doc.signatures[i].protected.form # ""
         /\ \E t \in issued :
               /\ t.sig = wire.doc.signatures[i].signature.sig
               /\ t.sig.protected = wire.doc.signatures[i].protected
               /\ CoversResult(t, key,
                     verifyJSONEntry(wire.doc.signatures[i], wire.doc.payload, key, opts))
<1> DEFINE e == wire.doc.signatures[i]
           r == verifySignature(e.protected, NoHeader, e.header, wire.doc.payload,
                                e.signature, key, opts)
<1>1. CASE e.protected.form = ""
  <2>1. r.err = nil
    BY <1>1 DEF verifyJSONEntry
  <2>2. Established(e.protected, NoHeader, e.header, wire.doc.payload,
                    e.signature, key, opts, r)
    <3> HIDE DEF e
    <3> QED BY <2>1, VerifySignatureSucceeds
  <2>3. Genuine(e.signature)
    BY DEF WireGenuine
  <2> HIDE DEF r
  <2>4. e.signature.sig.pair = PairOf(key, r) /\ e.signature.sig.protected = e.protected
    BY <2>2 DEF Established
  <2>5. PairOf(key, r) # NoPair
    BY ResolvedPair DEF PairOf
  <2>6. PICK t \in issued : t.sig = e.signature.sig
    BY <2>3, <2>4, <2>5 DEF Genuine
  <2>7. t.sig.protected.form = "json"
    BY DEF IssuedMade, MadeFrom
  <2> QED BY <1>1, <2>4, <2>6, <2>7
<1>2. CASE e.protected.form # ""
  <2>1. verifyJSONEntry(e, wire.doc.payload, key, opts) =
          verifyEntry(e, wire.doc.payload, key, opts)
    BY <1>2 DEF verifyJSONEntry
  <2> QED BY <1>2, <2>1, VerifiedEntryIsCovered
<1> QED BY <1>1, <1>2

-----------------------------------------------------------------------------
(* Initial states, and the parts of a step.                                *)

\* A verification call that has not begun is well typed and holds no result.
LEMMA VerifyingType ==
  ASSUME NEW v \in Verifiers
  PROVE  /\ v.key \in KeyArgs /\ v.opts \in VerifyOptions
         /\ Verifying(v) \in [phase : {"idle", "running", "done"}, key : KeyArgs,
                              opts : VerifyOptions, i : Nat, result : Results]
<1>1. v.key \in KeyArgs /\ v.opts \in VerifyOptions
  BY JWSAssumption DEF Verifier
<1>2. failed(nil) \in Results
  BY NilType, FailedType
<1> QED BY <1>1, <1>2 DEF Verifying

\* The state before any verification call.
LEMMA NoVerifyingType ==
  /\ NoVerifying \in [phase : {"idle", "running", "done"}, key : KeyArgs,
                       opts : VerifyOptions, i : Nat, result : Results]
  /\ NoVerifying.phase = "idle"
<1> DEFINE v == CHOOSE w \in Verifiers : TRUE
<1>1. v \in Verifiers
  BY JWSAssumption
<1>2. NoVerifying = Verifying(v)
  BY DEF NoVerifying
<1> HIDE DEF v
<1>3. Verifying(v).phase = "idle"
  BY DEF Verifying
<1> QED BY <1>1, <1>2, <1>3, VerifyingType

\* The state outside SignJSONMulti.
LEMMA NoSigningType ==
  /\ NoSigning \in [payload : Octets, signers : Seq(Signers), out : Seq(Entries),
                    encodedPayload : Octets, docPayload : Octets]
  /\ NoSigning.out = <<>> /\ NoSigning.signers = <<>>
  BY EmptyType DEF NoSigning

\* Before any call there is nothing to vouch for.
LEMMA InitIInv == Init => IInv
<1> SUFFICES ASSUME Init PROVE IInv
  OBVIOUS
<1>1. NoDoc \in Docs
  BY EmptyType DEF NoDoc, Docs, DocForm
<1>2. NoWire \in [doc : Docs, payload : Octets, signers : Seq(Signers), edits : Nat]
  BY <1>1, EmptyType DEF NoWire
<1>3. TypeOK
  BY <1>2, NoSigningType, NoVerifyingType DEF Init, TypeOK
<1>4. wire.doc.signatures = <<>> /\ wire.doc.form = "none"
  BY DEF Init, NoWire, NoDoc
<1>5. WireGenuine /\ WellFormed(wire.doc)
  BY <1>4 DEF WireGenuine, WellFormed
<1>6. IssuedMade
  BY DEF Init, IssuedMade
<1>7. SigningMade
  BY NoSigningType DEF Init, SigningMade
<1>8. LoopInRange /\ Authentic
  BY NoVerifyingType DEF Init, LoopInRange, Authentic, Accepted
<1> QED BY <1>3, <1>5, <1>6, <1>7, <1>8 DEF IInv

(***************************************************************************)
(* A call that returns a document keeps the invariant, if it signed each   *)
(* entry from the payload it was given.                                    *)
(***************************************************************************)
LEMMA EmitKeeps ==
  ASSUME IInv, signing' = signing \/ signing' = NoSigning,
         NEW doc \in Docs, NEW payload \in Octets, NEW signers \in Seq(Signers),
         WellFormed(doc), Len(doc.signatures) = Len(signers),
         \A k \in 1..Len(signers) : MadeFrom(doc.signatures[k].signature.sig, payload),
         Emit(doc, payload, signers)
  PROVE  IInv'
<1> DEFINE new(k) == [sig |-> doc.signatures[k].signature.sig, payload |-> payload,
                      signer |-> signers[k]]
<1>1. /\ wire' = [doc |-> doc, payload |-> payload, signers |-> signers, edits |-> 0]
      /\ issued' = issued \cup {new(k) : k \in 1..Len(signers)}
      /\ verifying' = NoVerifying
  BY DEF Emit
<1>2. ASSUME NEW k \in 1..Len(signers)
      PROVE  /\ new(k) \in Issues /\ new(k).payload = payload
             /\ new(k).sig = doc.signatures[k].signature.sig
             /\ MadeFrom(new(k).sig, new(k).payload)
  <2>1. signers[k] \in Signer
    BY JWSAssumption
  <2>2. doc.signatures[k].signature.sig \in Signatures
    BY DEF MadeFrom
  <2> QED BY <2>1, <2>2 DEF Issues
<1> HIDE DEF new
<1>3. wire'.doc = doc /\ wire' \in [doc : Docs, payload : Octets, signers : Seq(Signers),
                                    edits : Nat]
  BY <1>1
<1>4. issued' \subseteq Issues
  BY <1>1, <1>2 DEF IInv, TypeOK
<1>5. TypeOK'
  BY <1>1, <1>3, <1>4, NoVerifyingType, NoSigningType DEF IInv, TypeOK
<1>6. IssuedMade'
  BY <1>1, <1>2 DEF IInv, IssuedMade
<1>7. WireGenuine'
  <2> SUFFICES ASSUME NEW i \in 1..Len(doc.signatures)
               PROVE  \E t \in issued' : t.sig = doc.signatures[i].signature.sig
    BY <1>3 DEF WireGenuine, Genuine
  <2> QED BY <1>1, <1>2
<1>8. SigningMade'
  BY NoSigningType DEF IInv, SigningMade
<1>9. WellFormed(wire.doc)'
  BY <1>3
<1>10. LoopInRange' /\ Authentic'
  BY <1>1, NoVerifyingType DEF LoopInRange, Authentic, Accepted
<1> QED BY <1>5, <1>6, <1>7, <1>8, <1>9, <1>10 DEF IInv

(***************************************************************************)
(* A change on the way keeps the invariant, if every signature in the      *)
(* changed document was issued or made by no key.                          *)
(***************************************************************************)
LEMMA EditKeeps ==
  ASSUME IInv, NEW doc \in Docs, WellFormed(doc),
         \A i \in 1..Len(doc.signatures) : Genuine(doc.signatures[i].signature),
         Edit(doc)
  PROVE  IInv'
<1>1. /\ wire' = [wire EXCEPT !.doc = doc, !.edits = @ + 1]
      /\ verifying' = NoVerifying
      /\ signing' = signing /\ issued' = issued
  BY DEF Edit
<1>2. wire'.doc = doc /\ wire' \in [doc : Docs, payload : Octets, signers : Seq(Signers),
                                    edits : Nat]
  <2>1. wire \in [doc : Docs, payload : Octets, signers : Seq(Signers), edits : Nat]
    BY DEF IInv, TypeOK
  <2>2. wire.edits + 1 \in Nat
    BY <2>1
  <2> QED BY <1>1, <2>1, <2>2
<1>3. TypeOK'
  BY <1>1, <1>2, NoVerifyingType DEF IInv, TypeOK
<1>4. WireGenuine'
  BY <1>1, <1>2 DEF WireGenuine, Genuine
<1>5. IssuedMade' /\ SigningMade'
  BY <1>1 DEF IInv, IssuedMade, SigningMade
<1>6. WellFormed(wire.doc)'
  BY <1>2
<1>7. LoopInRange' /\ Authentic'
  BY <1>1, NoVerifyingType DEF LoopInRange, Authentic, Accepted
<1> QED BY <1>3, <1>4, <1>5, <1>6, <1>7 DEF IInv

-----------------------------------------------------------------------------
(* The producer's actions.                                                 *)

\* Sign issues the signature it writes.
LEMMA SignKeeps == ASSUME IInv, Sign PROVE IInv'
<1>1. PICK payload \in Payloads, s \in Signers :
        LET r == signOne(payload, s.key, s.opts)
        IN  /\ r.err = nil
            /\ Emit([form |-> "compact",
                     payload |-> IF s.opts.DetachPayload THEN Empty ELSE r.encodedPayload,
                     signatures |-> <<[protected |-> r.protected, header |-> NoHeader,
                                       signature |-> r.signature]>>],
                    payload, <<s>>)
  BY DEF Sign
<1>2. payload \in Octets /\ s \in Signer
  BY JWSAssumption
<1>3. s.key \in KeyArgs /\ s.opts \in SignOptions
  BY <1>2 DEF Signer
<1> DEFINE r   == signOne(payload, s.key, s.opts)
           e   == [protected |-> r.protected, header |-> NoHeader, signature |-> r.signature]
           o   == IF s.opts.DetachPayload THEN Empty ELSE r.encodedPayload
           doc == [form |-> "compact", payload |-> o, signatures |-> <<e>>]
<1>4. r.err = nil /\ Emit(doc, payload, <<s>>)
  BY <1>1
<1>5. Produced(r, payload)
  BY <1>2, <1>3, <1>4, SignOneSucceeds
<1> HIDE DEF r
<1>6. e \in Entries /\ MadeFrom(e.signature.sig, payload)
  BY <1>5, NoHeaderType DEF Entries, Produced
<1>7. o \in Octets
  BY <1>5, EmptyType DEF Produced
<1> HIDE DEF e, o
<1>8. /\ doc \in Docs /\ doc.form = "compact" /\ doc.signatures = <<e>>
      /\ Len(doc.signatures) = 1 /\ doc.signatures[1] = e
  BY <1>6, <1>7 DEF Docs, DocForm
<1>9. <<s>> \in Seq(Signers) /\ Len(<<s>>) = 1
  OBVIOUS
<1>10. WellFormed(doc)
  BY <1>8 DEF WellFormed
<1>11. \A k \in 1..Len(<<s>>) : MadeFrom(doc.signatures[k].signature.sig, payload)
  BY <1>6, <1>8, <1>9
<1> HIDE DEF doc
<1>12. signing' = signing
  BY DEF Sign
<1> QED BY <1>2, <1>4, <1>8, <1>9, <1>10, <1>11, <1>12, EmitKeeps

\* SignJSONMulti starts with no signatures.
LEMMA StartSignJSONMultiKeeps == ASSUME IInv, StartSignJSONMulti PROVE IInv'
<1>1. PICK n \in 1..MaxSigners : \E payload \in Payloads, signers \in [1..n -> Signers] :
        signing' = [NoSigning EXCEPT !.payload = payload, !.signers = signers]
  BY DEF StartSignJSONMulti
<1>2. PICK payload \in Payloads, signers \in [1..n -> Signers] :
        signing' = [NoSigning EXCEPT !.payload = payload, !.signers = signers]
  BY <1>1
<1>3. wire' = wire /\ verifying' = verifying /\ issued' = issued
  BY DEF StartSignJSONMulti
<1>4. payload \in Octets /\ signers \in Seq(Signers)
  BY JWSAssumption
<1>5. /\ signing' \in [payload : Octets, signers : Seq(Signers), out : Seq(Entries),
                       encodedPayload : Octets, docPayload : Octets]
      /\ signing'.out = <<>>
  BY <1>2, <1>4, NoSigningType
<1>6. TypeOK'
  BY <1>3, <1>5 DEF IInv, TypeOK
<1>7. SigningMade'
  BY <1>5 DEF SigningMade
<1> QED
  BY <1>3, <1>6, <1>7
     DEF IInv, WireGenuine, Genuine, IssuedMade, LoopInRange, Authentic, Accepted, Covers

\* A round of SignJSONMulti's loop adds a signature its signer made.
LEMMA SignNextKeeps == ASSUME IInv, SignNext PROVE IInv'
<1> DEFINE k == Len(signing.out) + 1
           s == signing.signers[k]
           r == signOne(signing.payload, s.key, s.opts)
           e == [protected |-> r.protected, header |-> s.opts.Unprotected,
                 signature |-> r.signature]
           o == IF s.opts.DetachPayload THEN signing.docPayload ELSE r.encodedPayload
<1>1. /\ signing.payload \in Octets /\ signing.signers \in Seq(Signers)
      /\ signing.out \in Seq(Entries) /\ signing.docPayload \in Octets
      /\ signing.encodedPayload \in Octets
      /\ signing = [payload |-> signing.payload, signers |-> signing.signers,
                    out |-> signing.out, encodedPayload |-> signing.encodedPayload,
                    docPayload |-> signing.docPayload]
  BY DEF IInv, TypeOK
<1>2. wire' = wire /\ verifying' = verifying /\ issued' = issued
  BY DEF SignNext
<1>3. s \in Signer
  <2>1. Len(signing.out) \in Nat /\ Len(signing.signers) \in Nat
        /\ Len(signing.out) < Len(signing.signers)
    BY <1>1 DEF SignNext
  <2>2. k \in 1..Len(signing.signers)
    BY <2>1
  <2>3. s \in Signers
    <3> HIDE DEF k
    <3>1. signing.signers \in Seq(Signers)
      BY <1>1
    <3> QED BY <2>2, <3>1
  <2> QED BY <2>3, JWSAssumption
<1>4. s.key \in KeyArgs /\ s.opts \in SignOptions
  <2> HIDE DEF s
  <2> QED BY <1>3, SMTT(30) DEF Signer
<1>5. \/ signing' = NoSigning
      \/ /\ r.err = nil
         /\ signing' = [payload |-> signing.payload, signers |-> signing.signers,
                        out |-> Append(signing.out, e), encodedPayload |-> r.encodedPayload,
                        docPayload |-> o]
  BY <1>1 DEF SignNext
<1> HIDE DEF s
<1>6. ASSUME r.err = nil
      PROVE  /\ e \in Entries /\ o \in Octets /\ r.encodedPayload \in Octets
             /\ MadeFrom(e.signature.sig, signing.payload)
  <2>1. Produced(r, signing.payload)
    BY <1>1, <1>4, <1>6, SignOneSucceeds
  <2>2. s.opts.Unprotected \in Headers
    BY <1>4 DEF SignOptions
  <2> HIDE DEF r
  <2> QED BY <1>1, <2>1, <2>2 DEF Produced, Entries
<1> HIDE DEF r, e, o
<1>7. /\ signing' \in [payload : Octets, signers : Seq(Signers), out : Seq(Entries),
                       encodedPayload : Octets, docPayload : Octets]
      /\ SigningMade'
  <2>1. CASE signing' = NoSigning
    BY <2>1, NoSigningType DEF SigningMade
  <2>2. CASE /\ r.err = nil
             /\ signing' = [payload |-> signing.payload, signers |-> signing.signers,
                            out |-> Append(signing.out, e),
                            encodedPayload |-> r.encodedPayload, docPayload |-> o]
    <3>1. Append(signing.out, e) \in Seq(Entries)
      BY <1>1, <1>6, <2>2
    <3>2. ASSUME NEW j \in 1..Len(Append(signing.out, e))
          PROVE  MadeFrom(Append(signing.out, e)[j].signature.sig, signing.payload)
      <4>1. CASE j \in 1..Len(signing.out)
        <5>1. Append(signing.out, e)[j] = signing.out[j]
          BY <1>1, <4>1
        <5> QED BY <4>1, <5>1 DEF IInv, SigningMade
      <4>2. CASE j = Len(signing.out) + 1
        <5>1. Append(signing.out, e)[j] = e
          BY <1>1, <4>2
        <5> QED BY <1>6, <2>2, <5>1
      <4>3. Len(Append(signing.out, e)) = Len(signing.out) + 1 /\ Len(signing.out) \in Nat
        BY <1>1
      <4> QED BY <4>1, <4>2, <4>3
    <3>3. signing'.out = Append(signing.out, e) /\ signing'.payload = signing.payload
      BY <2>2
    <3> QED BY <1>1, <1>6, <2>2, <3>1, <3>2, <3>3 DEF SigningMade
  <2> QED BY <1>5, <2>1, <2>2
<1>8. TypeOK'
  BY <1>2, <1>7 DEF IInv, TypeOK
<1> QED
  BY <1>2, <1>7, <1>8
     DEF IInv, WireGenuine, Genuine, IssuedMade, LoopInRange, Authentic, Accepted, Covers

\* SignJSONMulti issues the signatures it writes.
LEMMA SignReturnKeeps == ASSUME IInv, SignReturn PROVE IInv'
<1> DEFINE n     == Len(signing.out)
           e(k)  == [signing.out[k] EXCEPT !.header = JSON(@)]
           sigs  == [k \in 1..n |-> e(k)]
           doc   == [form |-> "general", payload |-> JSONString(signing.docPayload),
                     signatures |-> sigs]
<1>1. /\ signing.payload \in Octets /\ signing.signers \in Seq(Signers)
      /\ signing.out \in Seq(Entries) /\ signing.docPayload \in Octets
  BY DEF IInv, TypeOK
<1>2. Len(signing.signers) = n /\ n \in Nat /\ signing' = NoSigning
  BY <1>1 DEF SignReturn
<1>3. \/ Emit(doc, signing.payload, signing.signers)
      \/ wire' = wire /\ verifying' = verifying /\ issued' = issued
  BY DEF SignReturn
<1>4. CASE Emit(doc, signing.payload, signing.signers)
  <2>1. ASSUME NEW k \in 1..n
        PROVE  e(k) \in Entries /\ e(k).signature = signing.out[k].signature
    <3>1. signing.out[k] \in Entries
      BY <1>1
    <3>2. JSON(signing.out[k].header) \in Headers
      BY <3>1, JSONType DEF Entries
    <3> QED BY <3>1, <3>2 DEF Entries
  <2> HIDE DEF e
  <2>2. /\ sigs \in Seq(Entries) /\ Len(sigs) = n
        /\ \A k \in 1..n : sigs[k] = e(k)
    BY <1>2, <2>1
  <2>3. JSONString(signing.docPayload) \in Octets
    BY <1>1, JSONStringType
  <2> HIDE DEF sigs
  <2>4. doc \in Docs /\ doc.signatures = sigs /\ doc.form = "general"
    BY <2>2, <2>3 DEF Docs, DocForm
  <2>5. WellFormed(doc)
    BY <2>4 DEF WellFormed
  <2>6. ASSUME NEW k \in 1..Len(signing.signers)
        PROVE  MadeFrom(doc.signatures[k].signature.sig, signing.payload)
    <3>1. doc.signatures[k].signature = signing.out[k].signature
      BY <1>2, <2>1, <2>2, <2>4
    <3> QED BY <1>2, <3>1 DEF IInv, SigningMade
  <2> HIDE DEF doc, n
  <2>7. Len(doc.signatures) = Len(signing.signers)
    BY <1>2, <2>2, <2>4
  <2> QED BY <1>1, <1>2, <1>4, <2>4, <2>5, <2>6, <2>7, EmitKeeps
<1>5. CASE wire' = wire /\ verifying' = verifying /\ issued' = issued
  <2>1. TypeOK' /\ SigningMade'
    BY <1>2, <1>5, NoSigningType DEF IInv, TypeOK, SigningMade
  <2> QED
    BY <1>5, <2>1
       DEF IInv, WireGenuine, Genuine, IssuedMade, LoopInRange, Authentic, Accepted, Covers
<1> QED BY <1>3, <1>4, <1>5

-----------------------------------------------------------------------------
(* The changes on the way.                                                 *)

\* The parts of the document in transit.
LEMMA DocFacts ==
  ASSUME IInv
  PROVE  /\ wire.doc \in Docs
         /\ wire.doc = [form |-> wire.doc.form, payload |-> wire.doc.payload,
                        signatures |-> wire.doc.signatures]
         /\ wire.doc.form \in DocForm /\ wire.doc.payload \in Octets
         /\ wire.doc.signatures \in Seq(Entries)
         /\ \A i \in 1..Len(wire.doc.signatures) :
               /\ wire.doc.signatures[i] \in Entries
               /\ Genuine(wire.doc.signatures[i].signature)
<1>1. wire.doc \in Docs
  BY DEF IInv, TypeOK
<1>2. wire.doc.signatures \in Seq(Entries)
  BY <1>1 DEF Docs
<1> QED BY <1>1, <1>2 DEF Docs, IInv, WireGenuine

\* Replacing one entry by a genuine one.
LEMMA EditEntryKeeps ==
  ASSUME IInv, NEW i \in 1..Len(wire.doc.signatures), NEW e \in Entries,
         Genuine(e.signature), EditEntry(i, e)
  PROVE  IInv'
<1> DEFINE sigs == [wire.doc.signatures EXCEPT ![i] = e]
           doc  == [form |-> wire.doc.form, payload |-> wire.doc.payload, signatures |-> sigs]
<1>1. wire.doc.signatures \in Seq(Entries)
  BY DocFacts
<1>2. /\ sigs \in Seq(Entries) /\ Len(sigs) = Len(wire.doc.signatures)
      /\ \A j \in 1..Len(sigs) : sigs[j] = IF j = i THEN e ELSE wire.doc.signatures[j]
  BY <1>1
<1>3. Edit(doc)
  BY DocFacts DEF EditEntry
<1> HIDE DEF sigs
<1>4. doc \in Docs /\ doc.signatures = sigs /\ doc.form = wire.doc.form
  BY <1>2, DocFacts DEF Docs
<1>5. WellFormed(doc)
  BY <1>2, <1>4 DEF IInv, WellFormed
<1>6. ASSUME NEW j \in 1..Len(doc.signatures) PROVE Genuine(doc.signatures[j].signature)
  BY <1>2, <1>4, DocFacts
<1> HIDE DEF doc
<1> QED BY <1>3, <1>4, <1>5, <1>6, EditKeeps

\* The fields of an entry.
LEMMA EntryParts ==
  ASSUME NEW e \in Entries
  PROVE  /\ e.protected \in ProtectedSegs /\ e.header \in Headers
         /\ e.signature \in SigSegs
         /\ e = [protected |-> e.protected, header |-> e.header, signature |-> e.signature]
  BY DEF Entries

\* Replacing the signature of an entry.
LEMMA EntryExcept ==
  ASSUME NEW e \in Entries, NEW g
  PROVE  [e EXCEPT !.signature = g] =
           [protected |-> e.protected, header |-> e.header, signature |-> g]
  BY DEF Entries

\* An entry is made of its three parts.
LEMMA MakeEntry ==
  ASSUME NEW p \in ProtectedSegs, NEW h \in Headers, NEW g \in SigSegs
  PROVE  [protected |-> p, header |-> h, signature |-> g] \in Entries
  BY DEF Entries

\* Editing an unprotected header keeps the signature.
LEMMA EditHeaderKeeps == ASSUME IInv, EditHeader PROVE IInv'
<1>1. PICK i \in 1..Len(wire.doc.signatures), c \in HeaderEdits :
        EditEntry(i, [wire.doc.signatures[i] EXCEPT !.header = With(@, c.name, c.value)])
  BY DEF EditHeader
<1> DEFINE e == wire.doc.signatures[i]
           f == [protected |-> e.protected, header |-> With(e.header, c.name, c.value),
                 signature |-> e.signature]
<1>2. e \in Entries /\ Genuine(e.signature)
  BY DocFacts
<1>3. EditEntry(i, f)
  BY <1>1, <1>2, EntryParts
<1>4. c.value \in Value
  BY JWSAssumption
<1> HIDE DEF e
<1>5. f \in Entries /\ f.signature = e.signature
  BY <1>2, <1>4, EntryParts, WithType, MakeEntry
<1> HIDE DEF f
<1> QED BY <1>2, <1>3, <1>5, EditEntryKeeps

\* Editing a protected segment keeps the signature.
LEMMA EditProtectedKeeps == ASSUME IInv, EditProtected PROVE IInv'
<1>1. PICK i \in 1..Len(wire.doc.signatures) :
        \E p \in ProtectedEdits \cup {Seg("respelled", wire.doc.signatures[i].protected.hdr)} :
           EditEntry(i, [wire.doc.signatures[i] EXCEPT !.protected = p])
  BY DEF EditProtected
<1> DEFINE e == wire.doc.signatures[i]
<1>2. PICK p \in ProtectedEdits \cup {Seg("respelled", e.protected.hdr)} :
        EditEntry(i, [e EXCEPT !.protected = p])
  BY <1>1
<1> DEFINE f == [protected |-> p, header |-> e.header, signature |-> e.signature]
<1>3. e \in Entries /\ Genuine(e.signature)
  BY DocFacts
<1>4. EditEntry(i, f)
  BY <1>2, <1>3, EntryParts
<1> HIDE DEF e
<1>5. e.protected.hdr \in Headers
  BY <1>3, EntryParts DEF ProtectedSegs
<1>6. Seg("respelled", e.protected.hdr) \in ProtectedSegs
  BY <1>5, SegType DEF SegForm
<1>7. p \in ProtectedSegs
  BY <1>6, JWSAssumption
<1>8. f \in Entries /\ f.signature = e.signature
  BY <1>3, <1>7, EntryParts, MakeEntry
<1> HIDE DEF f
<1> QED BY <1>3, <1>4, <1>8, EditEntryKeeps

\* Octets that no key made are a signature, and genuine whatever was issued.
LEMMA JunkType == Junk \in Signatures /\ Junk.pair = NoPair
<1>1. Junk = [alg |-> "", pair |-> NoPair, protected |-> NoSeg, payload |-> Empty]
  BY DEF Junk, signatureOf
<1> QED BY <1>1, NoSegType, EmptyType, SymbolAssumption DEF Signatures

\* A signature lost or replaced is one no key made.
LEMMA EditSignatureKeeps == ASSUME IInv, EditSignature PROVE IInv'
<1>1. PICK i \in 1..Len(wire.doc.signatures), form \in {"", "b64", "notb64"} :
        EditEntry(i, [wire.doc.signatures[i] EXCEPT !.signature = SigSeg(form, Junk)])
  BY DEF EditSignature
<1> DEFINE e == wire.doc.signatures[i]
           g == SigSeg(form, Junk)
           f == [protected |-> e.protected, header |-> e.header, signature |-> g]
<1>2. e \in Entries
  BY DocFacts
<1>3. EditEntry(i, f)
  <2> HIDE DEF e, g
  <2>1. [e EXCEPT !.signature = g] = f
    BY <1>2, EntryExcept
  <2>2. EditEntry(i, [e EXCEPT !.signature = g])
    BY <1>1, Zenon DEF e, g
  <2> QED BY <2>1, <2>2, Zenon
<1>4. g \in SigSegs /\ g.sig = Junk
  BY JunkType DEF SigSeg, SigSegs
<1>5. Genuine(g)
  BY <1>4, JunkType DEF Genuine
<1> HIDE DEF e, g
<1>6. f \in Entries /\ f.signature = g
  BY <1>2, <1>4, EntryParts, MakeEntry
<1> HIDE DEF f
<1> QED BY <1>3, <1>5, <1>6, EditEntryKeeps

\* An entry spliced in carries a signature that was issued.
LEMMA SpliceKeeps == ASSUME IInv, Splice PROVE IInv'
<1>1. PICK i \in 1..Len(wire.doc.signatures), t \in issued, whole \in BOOLEAN :
        EditEntry(i, [protected |-> IF whole THEN t.sig.protected
                                    ELSE wire.doc.signatures[i].protected,
                      header |-> wire.doc.signatures[i].header,
                      signature |-> SigSeg("b64", t.sig)])
  BY DEF Splice
<1> DEFINE e == wire.doc.signatures[i]
           g == SigSeg("b64", t.sig)
           p == IF whole THEN t.sig.protected ELSE e.protected
           f == [protected |-> p, header |-> e.header, signature |-> g]
<1>2. e \in Entries
  BY DocFacts
<1>3. EditEntry(i, f)
  BY <1>1, Zenon
<1>4. t.sig \in Signatures
  BY DEF IInv, TypeOK, Issues
<1>5. t.sig.protected \in ProtectedSegs
  BY <1>4 DEF Signatures
<1>6. g \in SigSegs /\ g.sig = t.sig
  BY <1>4 DEF SigSeg, SigSegs
<1>7. Genuine(g)
  BY <1>6 DEF Genuine
<1> HIDE DEF e, g
<1>8. p \in ProtectedSegs
  BY <1>2, <1>5, EntryParts
<1> HIDE DEF p
<1>9. f \in Entries /\ f.signature = g
  BY <1>2, <1>6, <1>8, EntryParts, MakeEntry
<1> HIDE DEF f
<1> QED BY <1>3, <1>7, <1>9, EditEntryKeeps

\* Changes that leave every entry as it is.
LEMMA EditAroundKeeps ==
  ASSUME IInv, NEW form \in DocForm, NEW o \in Octets,
         form \in {"compact", "flattened"} => Len(wire.doc.signatures) = 1,
         Edit([form |-> form, payload |-> o, signatures |-> wire.doc.signatures])
  PROVE  IInv'
<1> DEFINE doc == [form |-> form, payload |-> o, signatures |-> wire.doc.signatures]
<1>1. doc \in Docs /\ doc.signatures = wire.doc.signatures /\ doc.form = form
  BY DocFacts DEF Docs
<1>2. WellFormed(doc)
  BY <1>1 DEF WellFormed
<1>3. \A i \in 1..Len(doc.signatures) : Genuine(doc.signatures[i].signature)
  BY <1>1, DocFacts
<1>4. Edit(doc)
  OBVIOUS
<1> HIDE DEF doc
<1> QED BY <1>1, <1>2, <1>3, <1>4, EditKeeps

\* Editing the payload keeps the signatures.
LEMMA EditPayloadKeeps == ASSUME IInv, EditPayload PROVE IInv'
<1>1. PICK o \in PayloadEdits : Edit([wire.doc EXCEPT !.payload = o])
  BY DEF EditPayload
<1>2. Edit([form |-> wire.doc.form, payload |-> o, signatures |-> wire.doc.signatures])
  BY <1>1, DocFacts
<1>3. o \in Octets
  BY JWSAssumption
<1>4. wire.doc.form \in {"compact", "flattened"} => Len(wire.doc.signatures) = 1
  BY DEF IInv, WellFormed
<1> QED BY <1>2, <1>3, <1>4, DocFacts, EditAroundKeeps

\* Rearranged entries are entries of the document.
LEMMA RearrangeKeeps == ASSUME IInv, Rearrange PROVE IInv'
<1>1. PICK n \in 0..MaxEntries : \E f \in [1..n -> 1..Len(wire.doc.signatures)] :
        Edit([wire.doc EXCEPT !.signatures = [k \in 1..n |-> wire.doc.signatures[f[k]]]])
  BY DEF Rearrange
<1>2. PICK f \in [1..n -> 1..Len(wire.doc.signatures)] :
        Edit([wire.doc EXCEPT !.signatures = [k \in 1..n |-> wire.doc.signatures[f[k]]]])
  BY <1>1
<1> DEFINE sigs == [k \in 1..n |-> wire.doc.signatures[f[k]]]
           doc  == [form |-> wire.doc.form, payload |-> wire.doc.payload, signatures |-> sigs]
<1>3. n \in Nat
  BY JWSAssumption
<1>4. /\ sigs \in Seq(Entries) /\ Len(sigs) = n
      /\ \A k \in 1..n : sigs[k] = wire.doc.signatures[f[k]] /\ f[k] \in 1..Len(wire.doc.signatures)
  BY <1>3, DocFacts
<1>5. Edit(doc)
  <2> HIDE DEF sigs
  <2>1. [wire.doc EXCEPT !.signatures = sigs] = doc
    BY DocFacts
  <2>2. Edit([wire.doc EXCEPT !.signatures = sigs])
    BY <1>2, Zenon DEF sigs
  <2> QED BY <2>1, <2>2, Zenon
<1> HIDE DEF sigs
<1>6. doc \in Docs /\ doc.signatures = sigs /\ doc.form = "general"
  BY <1>4, DocFacts DEF Docs, Rearrange
<1>7. WellFormed(doc)
  BY <1>6 DEF WellFormed
<1>8. ASSUME NEW k \in 1..Len(doc.signatures) PROVE Genuine(doc.signatures[k].signature)
  BY <1>4, <1>6, DocFacts
<1> HIDE DEF doc
<1> QED BY <1>5, <1>6, <1>7, <1>8, EditKeeps

\* Another serialization keeps the entries.
LEMMA ReserializeKeeps == ASSUME IInv, Reserialize PROVE IInv'
<1>1. PICK form \in {"compact", "general", "flattened"} :
        Edit([form |-> form, signatures |-> wire.doc.signatures,
              payload |-> IF form = "compact" THEN wire.doc.payload
                          ELSE JSONString(wire.doc.payload)])
  BY DEF Reserialize
<1> DEFINE o == IF form = "compact" THEN wire.doc.payload ELSE JSONString(wire.doc.payload)
<1>2. o \in Octets
  BY DocFacts, JSONStringType
<1>3. Edit([form |-> form, payload |-> o, signatures |-> wire.doc.signatures])
  <2>1. [form |-> form, payload |-> o, signatures |-> wire.doc.signatures] =
          [form |-> form, signatures |-> wire.doc.signatures, payload |-> o]
    OBVIOUS
  <2> QED BY <1>1, <2>1, Zenon
<1>4. Len(wire.doc.signatures) = 1 /\ form \in DocForm
  BY DEF Reserialize, DocForm
<1> HIDE DEF o
<1> QED BY <1>2, <1>3, <1>4, EditAroundKeeps

\* A broken document keeps its entries.
LEMMA MangleKeeps == ASSUME IInv, Mangle PROVE IInv'
<1>1. PICK form \in {"mixed", "broken"} : Edit([wire.doc EXCEPT !.form = form])
  BY DEF Mangle
<1>2. Edit([form |-> form, payload |-> wire.doc.payload, signatures |-> wire.doc.signatures])
  BY <1>1, DocFacts
<1>3. form \in DocForm /\ form \notin {"compact", "flattened"}
  BY DEF DocForm
<1> QED BY <1>2, <1>3, DocFacts, EditAroundKeeps

-----------------------------------------------------------------------------
(* The consumer's actions.                                                 *)

VerifyingLocals == [phase : {"idle", "running", "done"}, key : KeyArgs,
                    opts : VerifyOptions, i : Nat, result : Results]

\* A step of a verification call keeps the invariant, if what it returns is
\* covered and the entry it goes on to exists.
LEMMA VerifyingKeeps ==
  ASSUME IInv, NEW vf \in VerifyingLocals, verifying' = vf,
         wire' = wire, signing' = signing, issued' = issued,
         vf.phase = "running" => vf.i \in 1..Len(wire.doc.signatures),
         (vf.phase = "done" /\ vf.result.err = nil) =>
             \E t \in issued : CoversResult(t, vf.key, vf.result)
  PROVE  IInv'
<1>1. TypeOK'
  BY DEF IInv, TypeOK, VerifyingLocals
<1>2. LoopInRange'
  BY DEF LoopInRange
<1>3. Authentic'
  BY DEF Authentic, Accepted, Covers
<1>4. WireGenuine' /\ IssuedMade' /\ SigningMade' /\ WellFormed(wire.doc)'
  BY DEF IInv, WireGenuine, Genuine, IssuedMade, SigningMade
<1> QED BY <1>1, <1>2, <1>3, <1>4 DEF IInv

\* A compact verification returns only what was signed.
LEMMA VerifyKeeps == ASSUME IInv, Verify PROVE IInv'
<1>1. PICK v \in Verifiers :
        verifying' = [Verifying(v) EXCEPT !.phase = "done",
                         !.result = VerifyWithOptions(wire.doc, v.key, v.opts)]
  BY DEF Verify
<1> DEFINE r  == VerifyWithOptions(wire.doc, v.key, v.opts)
           vf == [phase |-> "done", key |-> v.key, opts |-> v.opts, i |-> 0, result |-> r]
<1>2. verifying' = vf
  BY <1>1 DEF Verifying
<1>3. v.key \in KeyArgs /\ v.opts \in VerifyOptions
  BY VerifyingType
<1>4. r \in Results /\ (r.err = nil => \E t \in issued : CoversResult(t, v.key, r))
  <2>1. CASE wire.doc.form = "compact" /\ ~HasDot(wire.doc.payload)
    <3>1. 1 \in 1..Len(wire.doc.signatures)
      BY <2>1 DEF IInv, WellFormed
    <3>2. r = verifyEntry(wire.doc.signatures[1], wire.doc.payload, v.key, v.opts)
      BY <2>1 DEF VerifyWithOptions
    <3>3. verifyEntry(wire.doc.signatures[1], wire.doc.payload, v.key, v.opts) \in Results
      BY <1>3, <3>1, VerifyEntryType DEF IInv
    <3>4. ASSUME verifyEntry(wire.doc.signatures[1], wire.doc.payload, v.key, v.opts).err = nil
          PROVE  \E t \in issued : CoversResult(t, v.key,
                    verifyEntry(wire.doc.signatures[1], wire.doc.payload, v.key, v.opts))
      BY <1>3, <3>1, <3>4, VerifiedEntryIsCovered DEF IInv
    <3> HIDE DEF r
    <3> QED BY <3>2, <3>3, <3>4
  <2>2. CASE ~(wire.doc.form = "compact" /\ ~HasDot(wire.doc.payload))
    <3>1. r = failed("ErrMalformed")
      BY <2>2 DEF VerifyWithOptions
    <3>2. failed("ErrMalformed") \in Results /\ failed("ErrMalformed").err # nil
      BY FailedType DEF Errors, failed, nil
    <3> HIDE DEF r
    <3> QED BY <3>1, <3>2
  <2> QED BY <2>1, <2>2
<1> HIDE DEF r
<1>5. /\ vf \in VerifyingLocals /\ vf.phase = "done"
      /\ vf.key = v.key /\ vf.result = r
  BY <1>3, <1>4 DEF VerifyingLocals
<1>6. wire' = wire /\ signing' = signing /\ issued' = issued
  BY DEF Verify
<1> HIDE DEF vf
<1> QED BY <1>2, <1>4, <1>5, <1>6, VerifyingKeeps

\* A JSON verification starts with nothing verified.
LEMMA StartVerifyJSONKeeps == ASSUME IInv, StartVerifyJSON PROVE IInv'
<1>1. PICK v \in Verifiers :
        verifying' =
            IF jsonFormErr(wire.doc) # nil
            THEN [Verifying(v) EXCEPT !.phase = "done", !.result = failed(jsonFormErr(wire.doc))]
            ELSE [Verifying(v) EXCEPT !.phase = "running", !.i = 1,
                                        !.result = failed("ErrSignatureInvalid")]
  BY DEF StartVerifyJSON
<1>2. v.key \in KeyArgs /\ v.opts \in VerifyOptions
  BY VerifyingType
<1>3. wire' = wire /\ signing' = signing /\ issued' = issued
  BY DEF StartVerifyJSON
<1>4. CASE jsonFormErr(wire.doc) # nil
  <2> DEFINE r  == failed(jsonFormErr(wire.doc))
             vf == [phase |-> "done", key |-> v.key, opts |-> v.opts, i |-> 0, result |-> r]
  <2>1. verifying' = vf
    BY <1>1, <1>4 DEF Verifying
  <2>2. jsonFormErr(wire.doc) \in Errors
    BY DEF jsonFormErr, Errors, nil
  <2>3. r \in Results /\ r.err # nil
    <3>1. r.err = jsonFormErr(wire.doc)
      BY DEF failed
    <3> QED BY <1>4, <2>2, <3>1, FailedType
  <2> HIDE DEF r
  <2>4. vf \in VerifyingLocals /\ vf.phase = "done" /\ vf.result = r
    BY <1>2, <2>3 DEF VerifyingLocals
  <2> HIDE DEF vf
  <2> QED BY <1>3, <2>1, <2>3, <2>4, VerifyingKeeps
<1>5. CASE jsonFormErr(wire.doc) = nil
  <2> DEFINE r  == failed("ErrSignatureInvalid")
             vf == [phase |-> "running", key |-> v.key, opts |-> v.opts, i |-> 1, result |-> r]
  <2>1. verifying' = vf
    BY <1>1, <1>5 DEF Verifying
  <2>2. r \in Results
    BY FailedType DEF Errors
  <2>3. wire.doc.signatures # <<>>
    BY <1>5 DEF jsonFormErr, nil
  <2>4. 1 \in 1..Len(wire.doc.signatures)
    <3>1. wire.doc.signatures \in Seq(Entries)
      BY DocFacts
    <3> QED BY <2>3, <3>1
  <2> HIDE DEF r
  <2>5. vf \in VerifyingLocals /\ vf.phase = "running" /\ vf.i = 1
    BY <1>2, <2>2 DEF VerifyingLocals
  <2> HIDE DEF vf
  <2> QED BY <1>3, <2>1, <2>4, <2>5, VerifyingKeeps
<1> QED BY <1>4, <1>5

\* A round of VerifyJSONWithOptions's loop returns only what was signed.
LEMMA VerifyNextKeeps == ASSUME IInv, VerifyNext PROVE IInv'
<1> DEFINE r    == verifyJSONEntry(wire.doc.signatures[verifying.i], wire.doc.payload,
                                   verifying.key, verifying.opts)
           last == verifying.i = Len(wire.doc.signatures)
<1>1. /\ verifying \in VerifyingLocals /\ verifying.key \in KeyArgs
      /\ verifying.opts \in VerifyOptions
  BY DEF IInv, TypeOK, VerifyingLocals
<1>2. verifying.i \in 1..Len(wire.doc.signatures) /\ verifying.phase = "running"
  BY DEF VerifyNext, IInv, LoopInRange
<1>3. r \in Results
  BY <1>1, <1>2, VerifyEntryType DEF IInv
<1>4. r.err = nil => \E t \in issued : CoversResult(t, verifying.key, r)
  BY <1>1, <1>2, VerifiedJSONEntryIsCovered DEF IInv
<1>5. verifying' = nextVerifying(verifying, r, last)
  BY DEF VerifyNext
<1>6. wire' = wire /\ signing' = signing /\ issued' = issued
  BY DEF VerifyNext
<1> HIDE DEF r
<1>7. CASE r.err = nil \/ last
  <2> DEFINE vf == [verifying EXCEPT !.phase = "done", !.result = r]
  <2>1. verifying' = vf
    BY <1>5, <1>7 DEF nextVerifying
  <2>2. vf \in VerifyingLocals /\ vf.phase = "done" /\ vf.result = r /\ vf.key = verifying.key
    BY <1>1, <1>3 DEF VerifyingLocals
  <2> HIDE DEF vf
  <2> QED BY <1>4, <1>6, <2>1, <2>2, VerifyingKeeps
<1>8. CASE ~(r.err = nil \/ last)
  <2> DEFINE vf == [verifying EXCEPT !.i = @ + 1, !.result = r]
  <2>1. verifying' = vf
    BY <1>5, <1>8 DEF nextVerifying
  <2>2. verifying.i + 1 \in 1..Len(wire.doc.signatures)
    <3>1. Len(wire.doc.signatures) \in Nat
      BY DocFacts
    <3> QED BY <1>2, <1>8, <3>1
  <2>3. verifying.i + 1 \in Nat
    BY <1>2
  <2>4. /\ vf \in VerifyingLocals /\ vf.phase = "running" /\ vf.i = verifying.i + 1
    <3> DEFINE j == verifying.i + 1
    <3>1. vf = [verifying EXCEPT !.i = j, !.result = r] /\ j \in Nat
      BY <2>3
    <3> HIDE DEF vf, j
    <3>2. vf \in VerifyingLocals /\ vf.phase = "running" /\ vf.i = j
      BY <1>1, <1>2, <1>3, <3>1 DEF VerifyingLocals
    <3> QED BY <3>2 DEF j
  <2> HIDE DEF vf
  <2> QED BY <1>6, <2>1, <2>2, <2>4, VerifyingKeeps
<1> QED BY <1>7, <1>8

-----------------------------------------------------------------------------
(* The theorems.                                                           *)

\* Doing nothing keeps the invariant.
LEMMA StutterKeeps == ASSUME IInv, UNCHANGED vars PROVE IInv'
  BY DEF vars, IInv, TypeOK, WireGenuine, Genuine, IssuedMade, SigningMade, LoopInRange,
         Authentic, Accepted, Covers

\* Every step keeps the invariant.
LEMMA NextIInv == IInv /\ [Next]_vars => IInv'
<1> SUFFICES ASSUME IInv, [Next]_vars PROVE IInv'
  OBVIOUS
<1>1. CASE Sign
  BY <1>1, SignKeeps
<1>2. CASE StartSignJSONMulti
  BY <1>2, StartSignJSONMultiKeeps
<1>3. CASE SignNext
  BY <1>3, SignNextKeeps
<1>4. CASE SignReturn
  BY <1>4, SignReturnKeeps
<1>5. CASE Transit
  BY <1>5, EditHeaderKeeps, EditProtectedKeeps, EditSignatureKeeps, SpliceKeeps,
     EditPayloadKeeps, RearrangeKeeps, ReserializeKeeps, MangleKeeps DEF Transit
<1>6. CASE Verify
  BY <1>6, VerifyKeeps
<1>7. CASE StartVerifyJSON
  BY <1>7, StartVerifyJSONKeeps
<1>8. CASE VerifyNext
  BY <1>8, VerifyNextKeeps
<1>9. CASE UNCHANGED vars
  BY <1>9, StutterKeeps
<1> QED BY <1>1, <1>2, <1>3, <1>4, <1>5, <1>6, <1>7, <1>8, <1>9 DEF Next

(***************************************************************************)
(* No call of jws.go and no change on the way brings an unissued signature *)
(* into a document, or leaves the loop over the signatures out of range.   *)
(***************************************************************************)
THEOREM Invariance == Spec => []IInv
<1>1. Init => IInv
  BY InitIInv
<1>2. IInv /\ [Next]_vars => IInv'
  BY NextIInv
<1> QED BY <1>1, <1>2, PTL DEF Spec

(***************************************************************************)
(* The calls of jws.go only ever hold and return values of their types.    *)
(***************************************************************************)
THEOREM TypeCorrect == Spec => []TypeOK
<1>1. IInv => TypeOK
  BY DEF IInv
<1> QED BY <1>1, Invariance, PTL

(***************************************************************************)
(* For all keys, headers, options and payloads, and any number of          *)
(* documents, signatures and changes on the way: what a verification call  *)
(* of jws.go returns without an error was signed, by the key it verified   *)
(* with, in the form and with the protected parameters it returns.         *)
(***************************************************************************)
THEOREM Authenticity == Spec => []Authentic
<1>1. IInv => Authentic
  BY DEF IInv
<1> QED BY <1>1, Invariance, PTL

-----------------------------------------------------------------------------
(* Refinement of SignedDelivery.                                           *)

\* What covers a result vouches for its delivery.
LEMMA CoversVouches ==
  ASSUME NEW t, NEW key, NEW r, CoversResult(t, key, r)
  PROVE  Abstract!Vouches(SignedFact(t), [pair |-> PairOf(key, r), payload |-> r.payload,
                                          members |-> Members(r.header)])
<1>1. t.sig.pair = PairOf(key, r) /\ t.payload = r.payload
  BY DEF CoversResult
<1>2. ASSUME NEW n \in Name, Has(t.sig.protected.hdr, n)
      PROVE  r.header[n] = t.sig.protected.hdr[n] /\ Has(r.header, n)
  <2>1. r.header[n] = t.sig.protected.hdr[n]
    BY <1>2 DEF CoversResult
  <2> QED BY <1>2, <2>1 DEF Has
<1>3. Members(t.sig.protected.hdr) \subseteq Members(r.header)
  BY <1>2 DEF Members
<1> HIDE DEF Members
<1> QED BY <1>1, <1>3 DEF Abstract!Vouches, SignedFact

\* A step either issues signatures and holds no result, or issues none.
LEMMA StepKinds ==
  ASSUME [Next]_vars
  PROVE  \/ issued' = issued
         \/ issued \subseteq issued' /\ verifying' = NoVerifying
<1>0. ASSUME NEW doc, NEW payload, NEW signers, Emit(doc, payload, signers)
      PROVE  issued \subseteq issued' /\ verifying' = NoVerifying
  BY <1>0 DEF Emit
<1>1. CASE Sign
  BY <1>0, <1>1 DEF Sign
<1>2. CASE SignReturn
  <2>1. CASE \A k \in 1..Len(signing.out) : Marshals(signing.out[k].header)
    <3>1. \E doc : Emit(doc, signing.payload, signing.signers)
      BY <1>2, <2>1, Zenon DEF SignReturn
    <3> QED BY <1>0, <3>1
  <2>2. CASE ~(\A k \in 1..Len(signing.out) : Marshals(signing.out[k].header))
    BY <1>2, <2>2, Zenon DEF SignReturn
  <2> QED BY <2>1, <2>2
<1>3. CASE Transit
  <2>1. ASSUME NEW doc, Edit(doc)
        PROVE  issued' = issued
    BY <2>1 DEF Edit
  <2>2. ASSUME NEW i, NEW e, EditEntry(i, e)
        PROVE  issued' = issued
    BY <2>1, <2>2 DEF EditEntry
  <2>3. CASE EditHeader \/ EditProtected \/ EditSignature \/ Splice
    BY <2>2, <2>3, ZenonT(30) DEF EditHeader, EditProtected, EditSignature, Splice
  <2>4. CASE EditPayload \/ Rearrange \/ Reserialize \/ Mangle
    BY <2>1, <2>4, ZenonT(30) DEF EditPayload, Rearrange, Reserialize, Mangle
  <2> QED BY <1>3, <2>3, <2>4 DEF Transit
<1>4. CASE StartSignJSONMulti \/ SignNext \/ Verify \/ StartVerifyJSON \/ VerifyNext
  BY <1>4 DEF StartSignJSONMulti, SignNext, Verify, StartVerifyJSON, VerifyNext
<1>5. CASE UNCHANGED vars
  BY <1>5 DEF vars
<1> QED BY <1>1, <1>2, <1>3, <1>4, <1>5 DEF Next

\* Initially nothing is signed and nothing delivered.
LEMMA InitRefines == Init => Abstract!Init
<1> SUFFICES ASSUME Init PROVE Abstract!Init
  OBVIOUS
<1>1. {SignedFact(t) : t \in issued} = {}
  BY DEF Init
<1>2. Delivered = {}
  BY NoVerifyingType DEF Init, Delivered, Accepted
<1> QED BY <1>1, <1>2 DEF Abstract!Init

\* Every step signs, delivers something signed, or is none of the channel's.
LEMMA StepRefines == IInv' /\ [Next]_vars => [Abstract!Next]_Abstract!vars
<1> SUFFICES ASSUME IInv', [Next]_vars PROVE Abstract!Next
  OBVIOUS
<1> DEFINE facts == {SignedFact(t) : t \in issued}
<1>1. CASE issued' = issued
  <2>1. facts' = facts
    BY <1>1 DEF SignedFact
  <2>2. CASE Accepted'
    <3> DEFINE key == verifying'.key
               r   == verifying'.result
               d   == [pair |-> PairOf(key, r), payload |-> r.payload,
                       members |-> Members(r.header)]
    <3>1. PICK t \in issued : CoversResult(t, key, r)
      BY <1>1, <2>2 DEF IInv, Authentic, Covers
    <3>2. Abstract!Vouches(SignedFact(t), d)
      BY <3>1, CoversVouches
    <3>3. Delivered' = {d}
      BY <2>2 DEF Delivered, UsedPair
    <3> HIDE DEF d
    <3>4. Abstract!Deliver
      BY <2>1, <3>1, <3>2, <3>3 DEF Abstract!Deliver
    <3> QED BY <3>4 DEF Abstract!Next
  <2>3. CASE ~Accepted'
    <3>1. Delivered' = {}
      BY <2>3 DEF Delivered
    <3> QED BY <2>1, <3>1 DEF Abstract!Next, Abstract!Refuse
  <2> QED BY <2>2, <2>3
<1>2. CASE issued \subseteq issued' /\ verifying' = NoVerifying
  <2>1. Delivered' = {}
    BY <1>2, NoVerifyingType DEF Delivered, Accepted
  <2>2. facts \subseteq facts'
    BY <1>2 DEF SignedFact
  <2> QED BY <2>1, <2>2 DEF Abstract!Next, Abstract!SignFacts
<1> QED BY <1>1, <1>2, StepKinds

(***************************************************************************)
(* jws.go implements the abstract signed channel: every step is a signing, *)
(* a delivery of something signed, a refusal, or changes nothing.          *)
(***************************************************************************)
THEOREM Refinement == Spec => ImplementsSignedDelivery
<1>1. Init => Abstract!Init
  BY InitRefines
<1>2. IInv' /\ [Next]_vars => [Abstract!Next]_Abstract!vars
  BY StepRefines
<1> QED BY <1>1, <1>2, Invariance, PTL DEF Spec, ImplementsSignedDelivery, Abstract!Spec

-----------------------------------------------------------------------------
(* What signers and consumers checked.                                     *)

\* A JWK that passes checkJWKUsage permits the use of the key it resolves to.
LEMMA CheckedIsPermitted ==
  ASSUME NEW key \in KeyArgs, NEW kid, NEW alg, NEW op,
         resolveKey(key, kid).err = nil,
         checkJWKUsage(key, kid, "sig", {alg}, {op}) = nil
  PROVE  PermittedBy(key, resolveKey(key, kid).key.pair, op, alg)
<1> SUFFICES ASSUME key.kind \in {"*JWK", "*JWKSet"}
             PROVE  \E k \in 1..Len(key.keys) :
                       /\ key.keys[k].valid
                       /\ key.keys[k].material.pair = resolveKey(key, kid).key.pair
                       /\ Permits(key.keys[k], op, alg)
  BY DEF PermittedBy
<1> DEFINE at == selectJWK(key, kid)
<1>1. /\ at \in 1..Len(key.keys) /\ key.keys[at].valid
      /\ key.keys[at].material = resolveKey(key, kid).key
  BY SelectedIsResolved
<1> HIDE DEF at
<1>2. at # 0
  BY <1>1
<1>3. Permits(key.keys[at], op, alg)
  <2> DEFINE j == key.keys[at]
  <2>1. /\ ~(j.use # "" /\ j.use # "sig") /\ ~(j.alg # "" /\ j.alg \notin {alg})
        /\ ~(j.key_ops # {} /\ j.key_ops \cap {op} = {})
    BY <1>2 DEF checkJWKUsage, nil, at
  <2> HIDE DEF j
  <2>2. j.key_ops = {} \/ op \in j.key_ops
    BY <2>1
  <2> QED BY <2>1, <2>2 DEF Permits, j
<1> QED BY <1>1, <1>3

\* What a signer's protected header says, once encoded: nothing of the caller's
\* is lost but what the library sets.
LEMMA ProtectedHeaderKeeps ==
  ASSUME NEW key \in KeyArgs, NEW opts \in SignOptions, NEW alg \in Symbol
  PROVE  LET h == JSON(protectedHeader(key, opts, alg))
         IN  /\ opts.Critical # <<>> =>
                   Has(h, "crit") /\ h["crit"].items = opts.Critical
             /\ \A n \in Name \ {"alg", "kid", "crit"} : h[n] = JSONValue(opts.Header[n])
<1>1. opts.Header \in Headers /\ opts.Critical \in Seq(Symbol)
  BY DEF SignOptions
<1> DEFINE withAlg == With(opts.Header, "alg", Str(alg))
           kid     == kidFor(key, opts)
           withKid == IF kid # "" THEN With(withAlg, "kid", Str(kid)) ELSE withAlg
           withCrit == With(withKid, "crit", Strings(opts.Critical))
           h == protectedHeader(key, opts, alg)
<1>2. ASSUME NEW g \in Headers, NEW m, NEW v, NEW n \in Name \ {m}
      PROVE  With(g, m, v)[n] = g[n]
  BY DEF With, Headers
<1>3. withAlg \in Headers /\ \A n \in Name \ {"alg"} : withAlg[n] = opts.Header[n]
  BY <1>1, <1>2, StrType, WithType
<1>4. With(withAlg, "kid", Str(kid)) \in Headers
  BY <1>3, KidType, StrType, WithType
<1> HIDE DEF withAlg, kid
<1>5. \A n \in Name \ {"kid"} : With(withAlg, "kid", Str(kid))[n] = withAlg[n]
  BY <1>2, <1>3
<1>6. withKid \in Headers /\ \A n \in Name \ {"alg", "kid"} : withKid[n] = opts.Header[n]
  BY <1>3, <1>4, <1>5
<1> HIDE DEF withKid
<1>7. /\ withCrit["crit"] = Strings(opts.Critical)
      /\ \A n \in Name \ {"crit"} : withCrit[n] = withKid[n]
  <2>1. withCrit["crit"] = Strings(opts.Critical)
    BY <1>6, NameAssumption DEF With, Headers
  <2> QED BY <1>2, <1>6, <2>1
<1> HIDE DEF withCrit
<1>8. h = IF opts.Critical # <<>> THEN withCrit ELSE withKid
  BY DEF protectedHeader, withCrit, withKid, withAlg, kid
<1> HIDE DEF h
<1>9. ASSUME NEW n \in Name \ {"alg", "kid", "crit"}
      PROVE  JSON(h)[n] = JSONValue(opts.Header[n])
  <2>1. h[n] = opts.Header[n]
    BY <1>6, <1>7, <1>8
  <2> QED BY <2>1 DEF JSON
<1>10. ASSUME opts.Critical # <<>>
       PROVE  Has(JSON(h), "crit") /\ JSON(h)["crit"].items = opts.Critical
  <2>1. h["crit"] = Strings(opts.Critical)
    BY <1>7, <1>8, <1>10
  <2>2. JSON(h)["crit"] = JSONValue(Strings(opts.Critical))
    BY <2>1, NameAssumption DEF JSON
  <2>3. JSONValue(Strings(opts.Critical)) = Anys(opts.Critical)
    BY DEF JSONValue, Strings
  <2>4. Anys(opts.Critical).go = "[]any" /\ Anys(opts.Critical).items = opts.Critical
    BY DEF Anys
  <2> QED BY <2>2, <2>3, <2>4, NameAssumption DEF Has, Absent
<1> QED BY <1>9, <1>10 DEF h

\* A signature that signOne returns is one its signer was permitted to make,
\* over the parameters it asked for.
LEMMA SignOneMadeBy ==
  ASSUME NEW payload \in Octets, NEW s \in Signer,
         signOne(payload, s.key, s.opts).err = nil
  PROVE  MadeBy(signOne(payload, s.key, s.opts).signature.sig, s)
<1> DEFINE key       == s.key
           opts      == s.opts
           r         == signOne(payload, key, opts)
           resolved  == resolveKey(key, opts.KeyID)
           alg       == chooseAlg(key, resolved.key, opts).alg
           protected == protectedHeader(key, opts, alg)
           sig       == signatureOf(alg, resolved.key.pair, encodeHeader(protected).seg,
                                    payloadSegment(protected, payload))
<1>1. key \in KeyArgs /\ opts \in SignOptions
  BY DEF Signer
<1>2. /\ resolved.err = nil
      /\ lookupSigAlg(alg) = nil
      /\ checkJWKUsage(key, opts.KeyID, "sig", {alg}, {"sign"}) = nil
      /\ encodeHeader(protected).err = nil
      /\ r.signature = SigSeg("b64", sig)
  BY DEF signOne, nil
<1>3. alg \in Symbol
  BY <1>2, AlgAssumption DEF lookupSigAlg, nil
<1> HIDE DEF alg
<1>4. encodeHeader(protected).seg.hdr = JSON(protected)
  BY <1>2 DEF encodeHeader, Seg, nil
<1>5. PermittedBy(key, resolved.key.pair, "sign", alg)
  <2> HIDE DEF key, opts
  <2> QED BY <1>1, <1>2, CheckedIsPermitted
<1>6. /\ r.signature.sig = sig /\ sig.pair = resolved.key.pair /\ sig.alg = alg
      /\ sig.protected.hdr = JSON(protected)
  <2> HIDE DEF r, resolved, protected
  <2> QED BY <1>2, <1>4 DEF SigSeg, signatureOf
<1> HIDE DEF sig, r, key, opts, resolved
<1>7. /\ opts.Critical # <<>> =>
            Has(sig.protected.hdr, "crit") /\ sig.protected.hdr["crit"].items = opts.Critical
      /\ \A n \in Name \ {"alg", "kid", "crit"} :
            sig.protected.hdr[n] = JSONValue(opts.Header[n])
  BY <1>1, <1>3, <1>6, ProtectedHeaderKeeps
<1>8. MadeBy(sig, s)
  BY <1>5, <1>6, <1>7 DEF MadeBy, key, opts
<1> QED BY <1>6, <1>8 DEF r, key, opts

\* What a verification that succeeds has checked.
LEMMA VerifySignatureChecks ==
  ASSUME NEW pseg, NEW protected, NEW unprotected, NEW payloadSeg, NEW sigSeg,
         NEW key \in KeyArgs, NEW opts,
         verifySignature(pseg, protected, unprotected, payloadSeg, sigSeg, key, opts).err = nil
  PROVE  LET r == verifySignature(pseg, protected, unprotected, payloadSeg, sigSeg, key, opts)
         IN  /\ checkCritical(protected, <<"b64">> \o opts.KnownCritical) = nil
             /\ PermittedBy(key, PairOf(key, r), "verify", Algorithm(r.header))
<1> DEFINE r      == verifySignature(pseg, protected, unprotected, payloadSeg, sigSeg, key, opts)
           merged == mergeHeaders(protected, unprotected)
           alg    == Algorithm(merged.hdr)
           kid    == KeyID(merged.hdr)
<1>1. /\ checkCritical(protected, <<"b64">> \o opts.KnownCritical) = nil
      /\ checkJWKUsage(key, kid, "sig", {alg}, {"verify"}) = nil
      /\ resolveKey(key, kid).err = nil
  BY DEF verifySignature, failed, nil
<1>2. r.header = merged.hdr
  BY VerifySignatureSucceeds DEF Established
<1>3. PermittedBy(key, resolveKey(key, kid).key.pair, "verify", alg)
  <2> HIDE DEF kid, alg
  <2> QED BY <1>1, CheckedIsPermitted
<1> HIDE DEF r
<1>4. PermittedBy(key, PairOf(key, r), "verify", Algorithm(r.header))
  BY <1>2, <1>3 DEF PairOf
<1> QED BY <1>1, <1>4 DEF r

\* An entry that verifies carries an issued signature, and its consumer checked
\* the header that signature covers.
LEMMA VerifiedEntryIsChecked ==
  ASSUME TypeOK, WireGenuine, IssuedMade,
         NEW i \in 1..Len(wire.doc.signatures),
         NEW key \in KeyArgs, NEW opts \in VerifyOptions,
         verifyEntry(wire.doc.signatures[i], wire.doc.payload, key, opts).err = nil
  PROVE  \E t \in issued : CheckedResult(t, key, opts,
            verifyEntry(wire.doc.signatures[i], wire.doc.payload, key, opts))
<1> DEFINE e         == wire.doc.signatures[i]
           protected == decodeHeader(e.protected).hdr
           r         == verifySignature(e.protected, protected, e.header,
                                        wire.doc.payload, e.signature, key, opts)
<1>1. PICK t \in issued :
        /\ t.sig.protected = e.protected
        /\ CoversResult(t, key, verifyEntry(e, wire.doc.payload, key, opts))
  BY VerifiedEntryIsCovered
<1> HIDE DEF e
<1>2. /\ decodeHeader(e.protected).err = nil
      /\ verifyEntry(e, wire.doc.payload, key, opts) = r
      /\ r.err = nil
  BY DEF verifyEntry, failed, e
<1>3. protected = t.sig.protected.hdr
  BY <1>1, <1>2 DEF decodeHeader, nil
<1>4. /\ checkCritical(protected, <<"b64">> \o opts.KnownCritical) = nil
      /\ PermittedBy(key, PairOf(key, r), "verify", Algorithm(r.header))
  <2> HIDE DEF protected
  <2> QED BY <1>2, VerifySignatureChecks
<1> HIDE DEF r, protected
<1>5. CheckedResult(t, key, opts, r)
  BY <1>1, <1>2, <1>3, <1>4 DEF CheckedResult
<1> QED BY <1>2, <1>5 DEF e

\* So does an entry of a JSON document.
LEMMA VerifiedJSONEntryIsChecked ==
  ASSUME TypeOK, WireGenuine, IssuedMade,
         NEW i \in 1..Len(wire.doc.signatures),
         NEW key \in KeyArgs, NEW opts \in VerifyOptions,
         verifyJSONEntry(wire.doc.signatures[i], wire.doc.payload, key, opts).err = nil
  PROVE  \E t \in issued : CheckedResult(t, key, opts,
            verifyJSONEntry(wire.doc.signatures[i], wire.doc.payload, key, opts))
<1>1. wire.doc.signatures[i].protected.form # ""
  BY VerifiedJSONEntryIsCovered
<1>2. verifyJSONEntry(wire.doc.signatures[i], wire.doc.payload, key, opts) =
        verifyEntry(wire.doc.signatures[i], wire.doc.payload, key, opts)
  BY <1>1 DEF verifyJSONEntry
<1> QED BY <1>2, VerifiedEntryIsChecked

\* A call that returns a document attributes each signature to its signer.
LEMMA EmitMadeBy ==
  ASSUME IssuedMadeBy, NEW doc, NEW payload, NEW signers,
         \A k \in 1..Len(signers) : MadeBy(doc.signatures[k].signature.sig, signers[k]),
         Emit(doc, payload, signers)
  PROVE  IssuedMadeBy' /\ ResultChecked'
<1> DEFINE new(k) == [sig |-> doc.signatures[k].signature.sig, payload |-> payload,
                      signer |-> signers[k]]
<1>1. /\ issued' = issued \cup {new(k) : k \in 1..Len(signers)}
      /\ verifying' = NoVerifying
  BY DEF Emit
<1>2. \A k : new(k).sig = doc.signatures[k].signature.sig /\ new(k).signer = signers[k]
  OBVIOUS
<1> HIDE DEF new
<1>3. IssuedMadeBy'
  BY <1>1, <1>2 DEF IssuedMadeBy
<1>4. ResultChecked'
  BY <1>1, NoVerifyingType DEF ResultChecked, Accepted
<1> QED BY <1>3, <1>4

\* Sign attributes the signature it writes to its signer.
LEMMA SignMadeBy == ASSUME IInv, CheckInv, Sign PROVE CheckInv'
<1>1. PICK payload \in Payloads, s \in Signers :
        LET r == signOne(payload, s.key, s.opts)
        IN  /\ r.err = nil
            /\ Emit([form |-> "compact",
                     payload |-> IF s.opts.DetachPayload THEN Empty ELSE r.encodedPayload,
                     signatures |-> <<[protected |-> r.protected, header |-> NoHeader,
                                       signature |-> r.signature]>>],
                    payload, <<s>>)
  BY DEF Sign
<1> DEFINE r   == signOne(payload, s.key, s.opts)
           e   == [protected |-> r.protected, header |-> NoHeader, signature |-> r.signature]
           o   == IF s.opts.DetachPayload THEN Empty ELSE r.encodedPayload
           doc == [form |-> "compact", payload |-> o, signatures |-> <<e>>]
<1>2. r.err = nil /\ Emit(doc, payload, <<s>>)
  BY <1>1
<1>3. MadeBy(r.signature.sig, s)
  BY <1>2, JWSAssumption, SignOneMadeBy
<1> HIDE DEF r, o
<1>4. doc.signatures[1].signature = r.signature /\ <<s>>[1] = s /\ Len(<<s>>) = 1
  OBVIOUS
<1> HIDE DEF doc
<1>5. ASSUME NEW k \in 1..Len(<<s>>) PROVE MadeBy(doc.signatures[k].signature.sig, <<s>>[k])
  <2>1. k = 1
    BY <1>4
  <2> QED BY <1>3, <1>4, <2>1
<1>6. signing' = signing
  BY DEF Sign
<1>7. SigningMadeBy'
  BY <1>6 DEF CheckInv, SigningMadeBy
<1> QED BY <1>2, <1>5, <1>7, EmitMadeBy DEF CheckInv

\* A round of SignJSONMulti's loop adds a signature of the signer it is at.
LEMMA SignNextMadeBy == ASSUME IInv, CheckInv, SignNext PROVE CheckInv'
<1> DEFINE k == Len(signing.out) + 1
           s == signing.signers[k]
           r == signOne(signing.payload, s.key, s.opts)
           e == [protected |-> r.protected, header |-> s.opts.Unprotected,
                 signature |-> r.signature]
<1>1. /\ signing.payload \in Octets /\ signing.signers \in Seq(Signers)
      /\ signing.out \in Seq(Entries) /\ Len(signing.out) \in Nat
      /\ Len(signing.signers) \in Nat
  BY DEF IInv, TypeOK
<1>2. verifying' = verifying /\ issued' = issued
  BY DEF SignNext
<1>3. s \in Signer
  <2>1. k \in 1..Len(signing.signers)
    BY <1>1 DEF SignNext
  <2> HIDE DEF k
  <2> QED BY <1>1, <2>1, JWSAssumption
<1>4. \/ signing' = NoSigning
      \/ /\ r.err = nil
         /\ signing'.out = Append(signing.out, e) /\ signing'.signers = signing.signers
  BY DEF IInv, TypeOK, SignNext
<1>5. IssuedMadeBy' /\ ResultChecked'
  BY <1>2 DEF CheckInv, IssuedMadeBy, ResultChecked, Accepted
<1>6. CASE signing' = NoSigning
  BY <1>5, <1>6, NoSigningType DEF CheckInv, SigningMadeBy
<1>7. CASE /\ r.err = nil
           /\ signing'.out = Append(signing.out, e) /\ signing'.signers = signing.signers
  <2>1. MadeBy(r.signature.sig, s)
    <3> HIDE DEF s
    <3> QED BY <1>1, <1>3, <1>7, SignOneMadeBy
  <2> HIDE DEF r
  <2>2. e.signature = r.signature
    OBVIOUS
  <2> HIDE DEF e
  <2>3. ASSUME NEW j \in 1..Len(Append(signing.out, e))
        PROVE  MadeBy(Append(signing.out, e)[j].signature.sig, signing.signers[j])
    <3>1. CASE j \in 1..Len(signing.out)
      <4>1. Append(signing.out, e)[j] = signing.out[j]
        BY <1>1, <3>1
      <4> QED BY <3>1, <4>1 DEF CheckInv, SigningMadeBy
    <3>2. CASE j = k
      <4>1. Append(signing.out, e)[j] = e
        BY <1>1, <3>2
      <4> QED BY <2>1, <2>2, <3>2, <4>1
    <3>3. j \in 1..Len(signing.out) \/ j = k
      BY <1>1
    <3> QED BY <3>1, <3>2, <3>3
  <2>4. SigningMadeBy'
    BY <1>7, <2>3 DEF SigningMadeBy
  <2> QED BY <1>5, <2>4 DEF CheckInv
<1> QED BY <1>4, <1>6, <1>7

\* SignJSONMulti attributes the signatures it writes to its signers.
LEMMA SignReturnMadeBy == ASSUME IInv, CheckInv, SignReturn PROVE CheckInv'
<1> DEFINE n    == Len(signing.out)
           e(k) == [signing.out[k] EXCEPT !.header = JSON(@)]
           sigs == [k \in 1..n |-> e(k)]
           doc  == [form |-> "general", payload |-> JSONString(signing.docPayload),
                    signatures |-> sigs]
<1>1. signing.out \in Seq(Entries) /\ Len(signing.signers) = n /\ signing' = NoSigning
  BY DEF SignReturn, IInv, TypeOK
<1>2. \/ Emit(doc, signing.payload, signing.signers)
      \/ verifying' = verifying /\ issued' = issued
  BY DEF SignReturn
<1>3. SigningMadeBy'
  BY <1>1, NoSigningType DEF SigningMadeBy
<1>4. CASE Emit(doc, signing.payload, signing.signers)
  <2>1. ASSUME NEW k \in 1..n PROVE e(k).signature = signing.out[k].signature
    <3>1. signing.out[k] \in Entries
      BY <1>1
    <3> QED BY <3>1 DEF Entries
  <2> HIDE DEF e
  <2>2. \A k \in 1..n : doc.signatures[k] = e(k)
    OBVIOUS
  <2> HIDE DEF doc
  <2>3. ASSUME NEW k \in 1..Len(signing.signers)
        PROVE  MadeBy(doc.signatures[k].signature.sig, signing.signers[k])
    BY <1>1, <2>1, <2>2 DEF CheckInv, SigningMadeBy
  <2> QED BY <1>3, <1>4, <2>3, EmitMadeBy DEF CheckInv
<1>5. CASE verifying' = verifying /\ issued' = issued
  BY <1>3, <1>5 DEF CheckInv, IssuedMadeBy, ResultChecked, Accepted
<1> QED BY <1>2, <1>4, <1>5

\* A step that makes no signature keeps CheckInv, if what it accepts was checked.
LEMMA CheckInvKept ==
  ASSUME CheckInv, issued' = issued, signing' = signing, ResultChecked'
  PROVE  CheckInv'
  BY DEF CheckInv, IssuedMadeBy, SigningMadeBy

\* A compact verification accepts only what it has checked.
LEMMA VerifyChecks == ASSUME IInv, Verify PROVE ResultChecked'
<1>1. PICK v \in Verifiers :
        verifying' = [Verifying(v) EXCEPT !.phase = "done",
                         !.result = VerifyWithOptions(wire.doc, v.key, v.opts)]
  BY DEF Verify
<1> DEFINE r == VerifyWithOptions(wire.doc, v.key, v.opts)
<1>2. verifying'.key = v.key /\ verifying'.opts = v.opts /\ verifying'.result = r
  <2> HIDE DEF r
  <2> QED BY <1>1 DEF Verifying, r
<1>3. v.key \in KeyArgs /\ v.opts \in VerifyOptions /\ issued' = issued
  BY VerifyingType DEF Verify
<1>4. r.err = nil => \E t \in issued : CheckedResult(t, v.key, v.opts, r)
  <2>1. CASE wire.doc.form = "compact" /\ ~HasDot(wire.doc.payload)
    <3>1. 1 \in 1..Len(wire.doc.signatures)
      BY <2>1 DEF IInv, WellFormed
    <3>2. r = verifyEntry(wire.doc.signatures[1], wire.doc.payload, v.key, v.opts)
      BY <2>1 DEF VerifyWithOptions
    <3> HIDE DEF r
    <3> QED BY <1>3, <3>1, <3>2, VerifiedEntryIsChecked DEF IInv
  <2>2. CASE ~(wire.doc.form = "compact" /\ ~HasDot(wire.doc.payload))
    BY <2>2 DEF VerifyWithOptions, failed, nil
  <2> QED BY <2>1, <2>2
<1> HIDE DEF r
<1> QED BY <1>2, <1>3, <1>4 DEF ResultChecked, Accepted

\* A JSON verification has accepted nothing before its loop.
LEMMA StartVerifyJSONChecks == ASSUME StartVerifyJSON PROVE ResultChecked'
<1>1. PICK v \in Verifiers :
        verifying' =
            IF jsonFormErr(wire.doc) # nil
            THEN [Verifying(v) EXCEPT !.phase = "done", !.result = failed(jsonFormErr(wire.doc))]
            ELSE [Verifying(v) EXCEPT !.phase = "running", !.i = 1,
                                        !.result = failed("ErrSignatureInvalid")]
  BY DEF StartVerifyJSON
<1>2. verifying'.phase # "done" \/ verifying'.result.err # nil
  BY <1>1 DEF Verifying, failed
<1> QED BY <1>2 DEF ResultChecked, Accepted

\* A round of VerifyJSONWithOptions's loop accepts only what it has checked.
LEMMA VerifyNextChecks == ASSUME IInv, VerifyNext PROVE ResultChecked'
<1> DEFINE r    == verifyJSONEntry(wire.doc.signatures[verifying.i], wire.doc.payload,
                                   verifying.key, verifying.opts)
           last == verifying.i = Len(wire.doc.signatures)
<1>1. /\ verifying \in VerifyingLocals /\ verifying.key \in KeyArgs
      /\ verifying.opts \in VerifyOptions
  BY DEF IInv, TypeOK, VerifyingLocals
<1>2. verifying.i \in 1..Len(wire.doc.signatures) /\ verifying.phase = "running"
  BY DEF VerifyNext, IInv, LoopInRange
<1>3. r.err = nil => \E t \in issued : CheckedResult(t, verifying.key, verifying.opts, r)
  BY <1>1, <1>2, VerifiedJSONEntryIsChecked DEF IInv
<1>4. verifying' = nextVerifying(verifying, r, last) /\ issued' = issued
  BY DEF VerifyNext
<1> HIDE DEF r, last
<1>5. /\ verifying'.key = verifying.key /\ verifying'.opts = verifying.opts
      /\ verifying'.result = r
  BY <1>1, <1>4 DEF nextVerifying, VerifyingLocals
<1> QED BY <1>3, <1>4, <1>5 DEF ResultChecked, Accepted

\* A change on the way makes no signature and starts no call.
LEMMA TransitEdits ==
  ASSUME Transit
  PROVE  Idle /\ verifying' = NoVerifying /\ UNCHANGED <<signing, issued>>
<1>1. ASSUME NEW doc, Edit(doc)
      PROVE  Idle /\ verifying' = NoVerifying /\ signing' = signing /\ issued' = issued
  BY <1>1 DEF Edit
<1>2. ASSUME NEW i, NEW e, EditEntry(i, e)
      PROVE  Idle /\ verifying' = NoVerifying /\ signing' = signing /\ issued' = issued
  BY <1>1, <1>2 DEF EditEntry
<1>3. CASE EditHeader \/ EditProtected \/ EditSignature \/ Splice
  BY <1>2, <1>3, ZenonT(30) DEF EditHeader, EditProtected, EditSignature, Splice
<1>4. CASE EditPayload \/ Rearrange \/ Reserialize \/ Mangle
  BY <1>1, <1>4, ZenonT(30) DEF EditPayload, Rearrange, Reserialize, Mangle
<1> QED BY <1>3, <1>4 DEF Transit

\* Every step keeps CheckInv.
LEMMA NextCheckInv == IInv /\ CheckInv /\ [Next]_vars => CheckInv'
<1> SUFFICES ASSUME IInv, CheckInv, [Next]_vars PROVE CheckInv'
  OBVIOUS
<1>1. CASE Sign
  BY <1>1, SignMadeBy
<1>2. CASE StartSignJSONMulti
  <2>1. signing'.out = <<>> /\ UNCHANGED <<verifying, issued>>
    BY <1>2 DEF StartSignJSONMulti, NoSigning
  <2> QED BY <2>1
          DEF CheckInv, IssuedMadeBy, SigningMadeBy, ResultChecked, Accepted
<1>3. CASE SignNext
  BY <1>3, SignNextMadeBy
<1>4. CASE SignReturn
  BY <1>4, SignReturnMadeBy
<1>5. CASE Transit
  <2>1. ResultChecked'
    BY <1>5, TransitEdits, NoVerifyingType DEF ResultChecked, Accepted
  <2> QED BY <1>5, <2>1, TransitEdits, CheckInvKept
<1>6. CASE Verify
  BY <1>6, VerifyChecks, CheckInvKept DEF Verify
<1>7. CASE StartVerifyJSON
  BY <1>7, StartVerifyJSONChecks, CheckInvKept DEF StartVerifyJSON
<1>8. CASE VerifyNext
  BY <1>8, VerifyNextChecks, CheckInvKept DEF VerifyNext
<1>9. CASE UNCHANGED vars
  BY <1>9 DEF vars, CheckInv, IssuedMadeBy, SigningMadeBy, ResultChecked, Accepted
<1> QED BY <1>1, <1>2, <1>3, <1>4, <1>5, <1>6, <1>7, <1>8, <1>9 DEF Next

(***************************************************************************)
(* Every signature handed out is one its signer was permitted to make over *)
(* the header it asked for, and nothing is accepted unchecked.             *)
(***************************************************************************)
THEOREM CheckInvariance == Spec => []CheckInv
<1>1. Init => CheckInv
  BY NoVerifyingType, NoSigningType
     DEF Init, CheckInv, IssuedMadeBy, SigningMadeBy, ResultChecked, Accepted
<1>2. IInv /\ CheckInv /\ [Next]_vars => CheckInv'
  BY NextCheckInv
<1> QED BY <1>1, <1>2, Invariance, PTL DEF Spec

(***************************************************************************)
(* For all keys, sets, options and documents: no signature is issued, and  *)
(* none accepted, with a JWK that does not permit it.                      *)
(***************************************************************************)
THEOREM KeyRestrictions == Spec => []KeyRestrictionsHonoured
<1>1. ASSUME IInv, CheckInv PROVE KeyRestrictionsHonoured
  <2>1. ASSUME NEW t \in issued PROVE PermittedBy(t.signer.key, t.sig.pair, "sign", t.sig.alg)
    BY <1>1 DEF CheckInv, IssuedMadeBy, MadeBy
  <2>2. ASSUME Accepted
        PROVE  PermittedBy(verifying.key, UsedPair, "verify",
                           Algorithm(verifying.result.header))
    BY <1>1, <2>2 DEF CheckInv, ResultChecked, CheckedResult, UsedPair
  <2> QED BY <2>1, <2>2 DEF KeyRestrictionsHonoured
<1> QED BY <1>1, Invariance, CheckInvariance, PTL

(***************************************************************************)
(* For all signers, consumers and changes on the way: a parameter that its *)
(* signer named critical is accepted only where it is understood, and with *)
(* the value the signer gave it.                                           *)
(***************************************************************************)
THEOREM CriticalAgreement == Spec => []CriticalHonoured
<1>1. ASSUME IInv, CheckInv PROVE CriticalHonoured
  <2> SUFFICES ASSUME Accepted
               PROVE  \E t \in issued :
                  /\ Covers(t)
                  /\ \A k \in 1..Len(t.signer.opts.Critical) :
                        LET n == t.signer.opts.Critical[k]
                        IN  /\ containsString(<<"b64">> \o verifying.opts.KnownCritical, n)
                            /\ verifying.result.header[n] = JSONValue(t.signer.opts.Header[n])
    BY DEF CriticalHonoured
  <2>1. PICK t \in issued :
          CheckedResult(t, verifying.key, verifying.opts, verifying.result)
    BY <1>1 DEF CheckInv, ResultChecked
  <2> DEFINE h     == t.sig.protected.hdr
             crit  == t.signer.opts.Critical
             known == <<"b64">> \o verifying.opts.KnownCritical
  <2>2. MadeBy(t.sig, t.signer) /\ Covers(t) /\ checkCritical(h, known) = nil
    BY <1>1, <2>1 DEF CheckInv, IssuedMadeBy, CheckedResult, Covers
  <2>3. h \in Headers
    BY <1>1 DEF IInv, TypeOK, Issues, Signatures, ProtectedSegs
  <2>4. ASSUME NEW k \in 1..Len(crit)
        PROVE  /\ containsString(known, crit[k])
               /\ verifying.result.header[crit[k]] = JSONValue(t.signer.opts.Header[crit[k]])
    <3>1. crit # <<>>
      <4>1. Len(crit) # 0
        <5>1. crit \in Seq(Symbol)
          BY <1>1, JWSAssumption DEF IInv, TypeOK, Issues, Signer, SignOptions
        <5>2. Len(crit) \in Nat
          BY <5>1
        <5> QED BY <5>2
      <4> QED BY <4>1
    <3>2. Has(h, "crit") /\ h["crit"].items = crit
      BY <2>2, <3>1 DEF MadeBy
    <3> HIDE DEF h, crit, known
    <3>3. ~isRegisteredHeader(crit[k]) /\ Has(h, crit[k]) /\ containsString(known, crit[k])
      <4>1. \A j \in 1..Len(h["crit"].items) :
               LET n == h["crit"].items[j]
               IN  ~isRegisteredHeader(n) /\ Has(h, n) /\ containsString(known, n)
        BY <2>2, <2>3, <3>2, CheckCriticalSucceeds
      <4> QED BY <3>2, <4>1
    <3>4. crit[k] \in Name \ {"alg", "kid", "crit"}
      BY <3>3 DEF isRegisteredHeader, registeredHeaders, Has
    <3>5. h[crit[k]] = JSONValue(t.signer.opts.Header[crit[k]])
      BY <2>2, <3>4 DEF MadeBy, h
    <3>6. verifying.result.header[crit[k]] = h[crit[k]]
      BY <2>2, <3>3, <3>4 DEF Covers, CoversResult, h
    <3> QED BY <3>3, <3>5, <3>6
  <2> QED BY <2>2, <2>4
<1> QED BY <1>1, Invariance, CheckInvariance, PTL

-----------------------------------------------------------------------------
(* The loop over the signatures.                                           *)

\* Where no verification call runs or has returned, there is no loop.
LEMMA NoLoop == ASSUME verifying.phase = "idle" PROVE LoopInv
  BY DEF LoopInv, JSONLoopDone

\* The loop starts with the first entry.
LEMMA LoopStarts == ASSUME IInv, StartVerifyJSON PROVE LoopInv'
<1>1. PICK v \in Verifiers :
        verifying' =
            IF jsonFormErr(wire.doc) # nil
            THEN [Verifying(v) EXCEPT !.phase = "done", !.result = failed(jsonFormErr(wire.doc))]
            ELSE [Verifying(v) EXCEPT !.phase = "running", !.i = 1,
                                        !.result = failed("ErrSignatureInvalid")]
  BY DEF StartVerifyJSON
<1>2. wire' = wire
  BY DEF StartVerifyJSON
<1>3. CASE jsonFormErr(wire.doc) # nil
  <2>1. verifying'.phase = "done"
    BY <1>1, <1>3, Zenon DEF Verifying
  <2>2. ~JSONLoopDone'
    BY <1>2, <1>3 DEF JSONLoopDone
  <2> QED BY <2>1, <2>2 DEF LoopInv
<1>4. CASE jsonFormErr(wire.doc) = nil
  <2>1. verifying'.phase = "running" /\ verifying'.i = 1
    BY <1>1, <1>4 DEF Verifying
  <2>2. 1 \in 1..Len(wire.doc.signatures) /\ \A q \in 1..(1 - 1) : FALSE
    <3>1. wire.doc.signatures # <<>>
      BY <1>4 DEF jsonFormErr, nil
    <3>2. wire.doc.signatures \in Seq(Entries)
      BY DocFacts
    <3> QED BY <3>1, <3>2
  <2>3. Tried(1)'
    BY <1>2, <2>2 DEF Tried
  <2>4. ~JSONLoopDone'
    BY <2>1 DEF JSONLoopDone
  <2> QED BY <2>1, <2>3, <2>4 DEF LoopInv
<1> QED BY <1>3, <1>4

\* A round that fails is followed by the next, until the document is at its end.
LEMMA LoopGoesOn == ASSUME IInv, LoopInv, VerifyNext PROVE LoopInv'
<1>p. PICK p : p = verifying.i
  OBVIOUS
<1>r. PICK r : r = EntryResult(p)
  OBVIOUS
<1>n. PICK n : n = Len(wire.doc.signatures)
  OBVIOUS
<1>1. verifying.phase = "running" /\ wire' = wire
  BY DEF VerifyNext
<1>2. Tried(p)
  BY <1>p, <1>1 DEF LoopInv
<1>3. p \in 1..n /\ \A q \in 1..(p - 1) : EntryResult(q).err # nil
  BY <1>n, <1>2 DEF Tried
<1>4. verifying' = nextVerifying(verifying, r, p = n)
  BY <1>p, <1>r, <1>n DEF VerifyNext, EntryResult
<1>5. verifying \in VerifyingLocals /\ n \in Nat
  BY <1>n, DocFacts DEF IInv, TypeOK, VerifyingLocals
<1>6. /\ verifying'.key = verifying.key /\ verifying'.opts = verifying.opts
      /\ verifying'.result = r
  BY <1>4, <1>5 DEF nextVerifying, VerifyingLocals
<1>7. ASSUME NEW i PROVE EntryResult(i)' = EntryResult(i)
  BY <1>1, <1>6 DEF EntryResult
<1>8. CASE r.err = nil \/ p = n
  <2>1. verifying'.phase = "done"
    BY <1>4, <1>5, <1>8 DEF nextVerifying, VerifyingLocals
  <2>2. Tried(p)'
    BY <1>n, <1>1, <1>3, <1>7 DEF Tried
  <2>3. verifying'.result = EntryResult(p)'
    BY <1>r, <1>6, <1>7
  <2>4. verifying'.result.err = nil \/ p = n
    BY <1>6, <1>8
  <2> QED BY <1>n, <1>1, <1>3, <2>1, <2>2, <2>3, <2>4 DEF LoopInv
<1>9. CASE ~(r.err = nil \/ p = n)
  <2>1. verifying'.phase = "running" /\ verifying'.i = p + 1
    <3>1. verifying' = [verifying EXCEPT !.i = @ + 1, !.result = r]
      BY <1>4, <1>9 DEF nextVerifying
    <3>2. PICK j : j = verifying.i + 1
      OBVIOUS
    <3>3. verifying' = [verifying EXCEPT !.i = j, !.result = r]
      BY <3>1, <3>2
    <3>4. verifying'.phase = "running" /\ verifying'.i = j
      BY <1>1, <1>5, <3>3 DEF VerifyingLocals
    <3> QED BY <1>p, <3>2, <3>4
  <2>2. p + 1 \in 1..n /\ \A q \in 1..((p + 1) - 1) : q \in 1..(p - 1) \/ q = p
    BY <1>3, <1>5, <1>9
  <2>3. \A q \in 1..((p + 1) - 1) : EntryResult(q).err # nil
    BY <1>r, <1>3, <1>9, <2>2
  <2>4. Tried(p + 1)'
    BY <1>n, <1>1, <1>7, <2>2, <2>3 DEF Tried
  <2>5. ~JSONLoopDone'
    BY <2>1 DEF JSONLoopDone
  <2> QED BY <2>1, <2>4, <2>5 DEF LoopInv
<1> QED BY <1>8, <1>9

\* Every step keeps the loop in order.
LEMMA NextLoopInv == IInv /\ LoopInv /\ [Next]_vars => LoopInv'
<1> SUFFICES ASSUME IInv, LoopInv, [Next]_vars PROVE LoopInv'
  OBVIOUS
<1>1. ASSUME verifying' = NoVerifying PROVE LoopInv'
  BY <1>1, NoVerifyingType DEF LoopInv, JSONLoopDone
<1>2. ASSUME UNCHANGED <<wire, verifying>> PROVE LoopInv'
  BY <1>2 DEF LoopInv, JSONLoopDone, Tried, EntryResult
<1>3. ASSUME NEW doc, NEW payload, NEW signers, Emit(doc, payload, signers)
      PROVE  verifying' = NoVerifying
  BY <1>3 DEF Emit
<1>4. CASE Sign
  <2>1. verifying' = NoVerifying
    BY <1>3, <1>4, Zenon DEF Sign
  <2> QED BY <1>1, <2>1
<1>5. CASE StartSignJSONMulti \/ SignNext \/ UNCHANGED vars
  BY <1>2, <1>5 DEF StartSignJSONMulti, SignNext, vars
<1>6. CASE SignReturn
  <2>1. (\E doc : Emit(doc, signing.payload, signing.signers)) \/ UNCHANGED <<wire, verifying>>
    BY <1>6, Zenon DEF SignReturn
  <2> QED BY <1>1, <1>2, <1>3, <2>1
<1>7. CASE Transit
  BY <1>1, <1>7, TransitEdits
<1>8. CASE Verify
  <2>1. PICK v \in Verifiers :
          verifying' = [Verifying(v) EXCEPT !.phase = "done",
                           !.result = VerifyWithOptions(wire.doc, v.key, v.opts)]
    BY <1>8 DEF Verify
  <2>2. verifying'.phase = "done"
    BY <2>1, Zenon DEF Verifying
  <2>3. wire' = wire /\ wire.doc.form \in {"compact", "broken"}
    BY <1>8 DEF Verify
  <2>4. ~JSONLoopDone'
    BY <2>3 DEF JSONLoopDone
  <2> QED BY <2>2, <2>4 DEF LoopInv
<1>9. CASE StartVerifyJSON
  BY <1>9, LoopStarts
<1>10. CASE VerifyNext
  BY <1>10, LoopGoesOn
<1> QED BY <1>4, <1>5, <1>6, <1>7, <1>8, <1>9, <1>10 DEF Next

(***************************************************************************)
(* VerifyJSONWithOptions tries the entries in document order, goes on only *)
(* after one failed, and returns the first success or the last failure.    *)
(***************************************************************************)
THEOREM LoopInvariance == Spec => []LoopInv
<1>1. Init => LoopInv
  BY NoVerifyingType, NoLoop DEF Init
<1>2. IInv /\ LoopInv /\ [Next]_vars => LoopInv'
  BY NextLoopInv
<1> QED BY <1>1, <1>2, Invariance, PTL DEF Spec

(***************************************************************************)
(* For every document, key and options: VerifyJSONWithOptions succeeds     *)
(* exactly when some entry verifies on its own, and otherwise gives the    *)
(* last entry's error.                                                     *)
(***************************************************************************)
THEOREM OneGoodEntry == Spec => []OneGoodEntrySuffices
<1>1. ASSUME IInv, LoopInv PROVE OneGoodEntrySuffices
  <2> DEFINE n == Len(wire.doc.signatures)
  <2> SUFFICES ASSUME JSONLoopDone
               PROVE  /\ (verifying.result.err = nil) <=> SomeEntryVerifies
                      /\ ~SomeEntryVerifies => verifying.result.err = EntryResult(n).err
    BY DEF OneGoodEntrySuffices
  <2>1. PICK p \in 1..n :
          /\ Tried(p) /\ verifying.result = EntryResult(p)
          /\ verifying.result.err = nil \/ p = n
    BY <1>1 DEF LoopInv
  <2>2. n \in Nat
    BY <1>1, DocFacts
  <2>3. \A q \in 1..(p - 1) : EntryResult(q).err # nil
    BY <2>1 DEF Tried
  <2>4. SomeEntryVerifies <=> \E i \in 1..n : EntryResult(i).err = nil
    BY DEF SomeEntryVerifies
  <2> HIDE DEF n
  <2>5. ASSUME SomeEntryVerifies, verifying.result.err # nil PROVE FALSE
    <3>1. PICK q \in 1..n : EntryResult(q).err = nil
      BY <2>4, <2>5
    <3>2. p = n
      BY <2>1, <2>5
    <3>3. q = p \/ q \in 1..(p - 1)
      BY <2>2, <3>2
    <3> QED BY <2>1, <2>3, <2>5, <3>1, <3>3
  <2> QED BY <2>1, <2>4, <2>5
<1> QED BY <1>1, Invariance, LoopInvariance, PTL
-----------------------------------------------------------------------------
(* What is emitted can be read.                                            *)

\* The members signOne sets in the protected header.
LEMMA ProtectedHeaderSets ==
  ASSUME NEW key \in KeyArgs, NEW opts \in SignOptions, NEW alg \in Symbol
  PROVE  LET h == protectedHeader(key, opts, alg)
         IN  /\ h["alg"] = Str(alg)
             /\ kidFor(key, opts) # "" => h["kid"] = Str(kidFor(key, opts))
             /\ opts.Critical # <<>> => h["crit"] = Strings(opts.Critical)
<1> DEFINE kid      == kidFor(key, opts)
           withAlg  == With(opts.Header, "alg", Str(alg))
           named    == With(withAlg, "kid", Str(kid))
           withKid  == IF kid # "" THEN named ELSE withAlg
           withCrit == With(withKid, "crit", Strings(opts.Critical))
           h        == protectedHeader(key, opts, alg)
<1>1. opts.Header \in Headers /\ Str(alg) \in Value /\ Str(kid) \in Value
  BY StrType, KidType DEF SignOptions
<1>2. "alg" \in Name /\ "kid" \in Name /\ "crit" \in Name
  BY NameAssumption
<1>3. "alg" # "kid" /\ "alg" # "crit" /\ "kid" # "crit"
  OBVIOUS
<1>4. withAlg \in Headers /\ withAlg["alg"] = Str(alg)
  BY <1>1, <1>2, WithType, WithMember
<1> HIDE DEF kid, withAlg
<1>5. named \in Headers /\ named["alg"] = withAlg["alg"] /\ named["kid"] = Str(kid)
  BY <1>1, <1>2, <1>3, <1>4, WithType, WithMember
<1> HIDE DEF named
<1>6. withKid \in Headers /\ withKid["alg"] = Str(alg)
  BY <1>4, <1>5
<1>6a. kid # "" => withKid["kid"] = Str(kid)
  BY <1>5
<1> HIDE DEF withKid
<1>7. /\ withCrit["alg"] = withKid["alg"] /\ withCrit["kid"] = withKid["kid"]
      /\ withCrit["crit"] = Strings(opts.Critical)
  BY <1>2, <1>3, <1>6, WithMember
<1> HIDE DEF withCrit
<1>8. h = IF opts.Critical # <<>> THEN withCrit ELSE withKid
  BY DEF protectedHeader, withCrit, withKid, named, withAlg, kid
<1> HIDE DEF h
<1>9. /\ h["alg"] = Str(alg)
      /\ kid # "" => h["kid"] = Str(kid)
      /\ opts.Critical # <<>> => h["crit"] = Strings(opts.Critical)
  BY <1>6, <1>6a, <1>7, <1>8
<1> QED BY <1>9 DEF h, kid

\* What signOne has checked of the protected header h when it returns r, signed
\* under alg.
SignedUnder(payload, s, alg, h, r) ==
    /\ alg \in DOMAIN sigAlgs
    /\ h = protectedHeader(s.key, s.opts, alg)
    /\ b64Err(h, s.opts.Unprotected, s.opts.Critical) = nil
    /\ mergeHeaders(h, s.opts.Unprotected).err = nil
    /\ checkCriticalProduced(h) = nil
    /\ ~(isUnencoded(h) /\ HasDot(payload))
    /\ r.protected = Seg("json", JSON(h))
    /\ r.signature.form = "b64"
    /\ r.signature.sig = signatureOf(alg, r.signature.sig.pair, r.protected,
                                     payloadSegment(h, payload))
    /\ r.encodedPayload = payloadSegment(h, payload)

\* signOne returns a signature after all of these checks.
LEMMA SignOneParts ==
  ASSUME NEW payload, NEW s, signOne(payload, s.key, s.opts).err = nil
  PROVE  \E alg, h : SignedUnder(payload, s, alg, h, signOne(payload, s.key, s.opts))
<1> DEFINE key      == s.key
           opts     == s.opts
           r        == signOne(payload, key, opts)
           resolved == resolveKey(key, opts.KeyID)
           alg      == chooseAlg(key, resolved.key, opts).alg
           h        == protectedHeader(key, opts, alg)
           sig      == signatureOf(alg, resolved.key.pair, encodeHeader(h).seg,
                                   payloadSegment(h, payload))
<1>1. /\ lookupSigAlg(alg) = nil
      /\ b64Err(h, opts.Unprotected, opts.Critical) = nil
      /\ mergeHeaders(h, opts.Unprotected).err = nil
      /\ checkCriticalProduced(h) = nil
      /\ encodeHeader(h).err = nil
      /\ ~(isUnencoded(h) /\ HasDot(payload))
      /\ r = [err |-> nil, protected |-> encodeHeader(h).seg,
              signature |-> SigSeg("b64", sig),
              encodedPayload |-> payloadSegment(h, payload)]
  BY DEF signOne, nil
<1>2. alg \in DOMAIN sigAlgs
  BY <1>1 DEF lookupSigAlg, nil
<1>3. encodeHeader(h).seg = Seg("json", JSON(h))
  BY <1>1 DEF encodeHeader, nil
<1> HIDE DEF alg, resolved
<1>4. sig = signatureOf(alg, sig.pair, encodeHeader(h).seg, payloadSegment(h, payload))
  BY DEF signatureOf
<1> HIDE DEF sig
<1>5. /\ r.protected = encodeHeader(h).seg /\ r.encodedPayload = payloadSegment(h, payload)
      /\ r.signature.form = "b64" /\ r.signature.sig = sig
  BY <1>1 DEF SigSeg
<1> HIDE DEF r
<1>6. SignedUnder(payload, s, alg, h, r)
  BY <1>1, <1>2, <1>3, <1>4, <1>5 DEF SignedUnder
<1> QED BY <1>6 DEF r

\* None of verifySignature's checks fails, where the header both halves merge to
\* is merged, and names alg and kid.
NoneFails(pseg, protected, unprotected, payloadSeg, sigSeg, key, opts, merged, alg, kid) ==
    LET segment == CheckedSegment(protected, payloadSeg, opts)
    IN  /\ merged = mergeHeaders(protected, unprotected) /\ merged.err = nil
        /\ alg = Algorithm(merged.hdr) /\ alg # "" /\ lookupSigAlg(alg) = nil
        /\ opts.Algorithms = <<>> \/ containsString(opts.Algorithms, alg)
        /\ checkCritical(protected, <<"b64">> \o opts.KnownCritical) = nil
        /\ b64Err(protected, unprotected, Critical(protected)) = nil
        /\ ~(payloadSeg = Empty /\ opts.DetachedPayload = Empty)
        /\ kid = KeyID(merged.hdr)
        /\ checkJWKUsage(key, kid, "sig", {alg}, {"verify"}) = nil
        /\ resolveKey(key, kid).err = nil
        /\ sigSeg.form = "b64"
        /\ verify(alg, pseg, segment, sigSeg.sig, resolveKey(key, kid).key) = nil
        /\ isUnencoded(protected) \/ DecodeSegment(segment).err = nil

\* Then it succeeds.
LEMMA VerifySignatureAccepts ==
  ASSUME NEW pseg, NEW protected, NEW unprotected, NEW payloadSeg, NEW sigSeg,
         NEW key, NEW opts, NEW merged, NEW alg, NEW kid,
         NoneFails(pseg, protected, unprotected, payloadSeg, sigSeg, key, opts,
                   merged, alg, kid)
  PROVE  verifySignature(pseg, protected, unprotected, payloadSeg, sigSeg, key, opts).err = nil
<1>0. PICK segment : segment = CheckedSegment(protected, payloadSeg, opts)
  OBVIOUS
<1>1. alg # None
  BY DEF NoneFails, lookupSigAlg, nil
<1>2. segment = IF payloadSeg # Empty THEN payloadSeg
                ELSE payloadSegment(protected, opts.DetachedPayload)
  BY <1>0 DEF CheckedSegment
<1>3. CASE isUnencoded(protected)
  BY <1>0, <1>1, <1>2, <1>3 DEF NoneFails, verifySignature
<1>4. CASE ~isUnencoded(protected)
  BY <1>0, <1>1, <1>2, <1>4 DEF NoneFails, verifySignature
<1> QED BY <1>3, <1>4

\* A document names kid for its key, if signOne gave it a kid.
NamesKidOf(kid, s) == kidFor(s.key, s.opts) # "" => kid = kidFor(s.key, s.opts)

\* A consumer that holds the signer's key resolves it by the document's kid, is
\* permitted to use it and accepts the signature.
LEMMA HeldKeyVerifies ==
  ASSUME NEW key \in KeyArgs, NEW s, NEW sig, HoldsKeyOf(key, s, sig),
         NEW kid, NamesKidOf(kid, s)
  PROVE  /\ resolveKey(key, kid).err = nil
         /\ checkJWKUsage(key, kid, "sig", {sig.alg}, {"verify"}) = nil
         /\ KeyOf(resolveKey(key, kid).key, sig)
<1>1. CASE key.kind = "go" /\ KeyOf(key.raw, sig)
  BY <1>1 DEF resolveKey, checkJWKUsage, selectJWK
<1>2. ASSUME NEW at \in Nat, at > 0, selectJWK(key, kid) = at, JWKOf(key.keys[at], sig),
             resolveKey(key, kid) = Key(key.keys[at])
      PROVE  /\ resolveKey(key, kid).err = nil
             /\ checkJWKUsage(key, kid, "sig", {sig.alg}, {"verify"}) = nil
             /\ KeyOf(resolveKey(key, kid).key, sig)
  <2>1. PICK j : j = key.keys[at]
    OBVIOUS
  <2>2. j.valid /\ KeyOf(j.material, sig) /\ Permits(j, "verify", sig.alg)
    BY <1>2, <2>1 DEF JWKOf
  <2>3. Key(j).err = nil /\ Key(j).key = j.material
    BY <2>2 DEF Key
  <2>4. /\ ~(j.use # "" /\ j.use # "sig") /\ ~(j.alg # "" /\ j.alg \notin {sig.alg})
        /\ ~(j.key_ops # {} /\ j.key_ops \cap {"verify"} = {})
    BY <2>2 DEF Permits
  <2>5. at # 0
    BY <1>2
  <2>6. checkJWKUsage(key, kid, "sig", {sig.alg}, {"verify"}) = nil
    BY <1>2, <2>1, <2>4, <2>5 DEF checkJWKUsage
  <2> QED BY <1>2, <2>1, <2>2, <2>3, <2>6
<1>3. CASE key.kind = "*JWK" /\ JWKOf(key.keys[1], sig)
  <2>1. selectJWK(key, kid) = 1 /\ resolveKey(key, kid) = Key(key.keys[1])
    BY <1>3 DEF selectJWK, resolveKey
  <2>2. 1 \in Nat /\ 1 > 0
    OBVIOUS
  <2> QED BY <1>2, <1>3, <2>1, <2>2
<1>4. CASE /\ key.kind = "*JWKSet" /\ kidFor(s.key, s.opts) # ""
           /\ LookupKeyID(key.keys, kidFor(s.key, s.opts)) # 0
           /\ JWKOf(key.keys[LookupKeyID(key.keys, kidFor(s.key, s.opts))], sig)
  <2>1. PICK at : at = LookupKeyID(key.keys, kid)
    OBVIOUS
  <2>2. kid # "" /\ at # 0 /\ JWKOf(key.keys[at], sig)
    BY <1>4, <2>1 DEF NamesKidOf
  <2>2a. at \in Nat /\ at > 0
    <3>1. LookupKeyID(key.keys, kid) # 0 /\ key.keys \in Seq(JWKs)
      BY <2>1, <2>2 DEF KeyArgs
    <3>2. at \in 1..Len(key.keys)
      BY <2>1, <3>1, LookupRange
    <3> QED BY <3>2
  <2>3. selectJWK(key, kid) = at /\ resolveKey(key, kid) = Key(key.keys[at])
    BY <1>4, <2>1, <2>2 DEF selectJWK, resolveKey
  <2> QED BY <1>2, <2>2, <2>2a, <2>3
<1> QED BY <1>1, <1>3, <1>4 DEF HoldsKeyOf

\* The key that made a signature verifies it.
LEMMA KeyVerifies ==
  ASSUME NEW alg, NEW pseg, NEW o, NEW sig, NEW g,
         sig = signatureOf(alg, sig.pair, pseg, o), KeyOf(g, sig)
  PROVE  verify(alg, pseg, o, sig, g) = nil
<1>1. sig.alg = alg
  BY DEF signatureOf
<1>2. /\ g.pair = sig.pair /\ g.type \in VerifyingTypes(sigAlgs[alg].kind)
      /\ sigAlgs[alg].kind = "ecdsa" => g.crv = sigAlgs[alg].crv
      /\ g.size = "right"
  BY <1>1 DEF KeyOf
<1>3. sig = signatureOf(alg, g.pair, pseg, o)
  BY <1>2
<1> QED BY <1>2, <1>3 DEF verify

\* The "b64" that signOne lets a signer write is one that verifySignature
\* accepts.
LEMMA B64AfterJSON ==
  ASSUME NEW h \in Headers, NEW u \in Headers, NEW crit,
         b64Err(h, u, crit) = nil, checkCriticalProduced(h) = nil,
         crit # <<>> => h["crit"] = Strings(crit)
  PROVE  b64Err(JSON(h), JSON(u), Critical(JSON(h))) = nil
<1>1. ~Has(u, "b64")
  BY DEF b64Err, nil
<1>2. ~Has(JSON(u), "b64")
  BY <1>1, NameAssumption, JSONMember DEF Has
<1>3. CASE ~Has(h, "b64")
  <2>1. ~Has(JSON(h), "b64")
    BY <1>3, NameAssumption, JSONMember DEF Has
  <2> QED BY <1>2, <2>1 DEF b64Err
<1>4. CASE Has(h, "b64")
  <2>1. h["b64"].go = "bool" /\ (isUnencoded(h) => containsString(crit, "b64"))
    BY <1>1, <1>4 DEF b64Err, nil
  <2>2. JSON(h)["b64"] = h["b64"]
    <3>1. JSON(h)["b64"] = JSONValue(h["b64"])
      BY NameAssumption DEF JSON
    <3>2. JSONValue(h["b64"]) = h["b64"]
      BY <2>1 DEF JSONValue
    <3> QED BY <3>1, <3>2
  <2>3. ASSUME isUnencoded(h) PROVE containsString(Critical(JSON(h)), "b64")
    <3>1. containsString(crit, "b64") /\ crit # <<>>
      BY <2>1, <2>3 DEF containsString
    <3>2. h["crit"].items = crit /\ Has(h, "crit")
      BY <3>1, NameAssumption DEF Strings, Has, Absent
    <3>3. Critical(JSON(h)) = crit
      BY <3>2, CriticalAfterJSON DEF Critical
    <3> QED BY <3>1, <3>3
  <2> QED BY <1>2, <2>1, <2>2, <2>3 DEF b64Err, isUnencoded
<1> QED BY <1>3, <1>4

\* The entry of a document for what signOne returned as r.
EntryFor(s, r) ==
    [protected |-> r.protected, header |-> JSON(s.opts.Unprotected), signature |-> r.signature]

\* The segment a consumer gets the payload from: in the document or its own.
Supplied(payloadSeg, r, opts, payload) ==
    \/ payloadSeg = r.encodedPayload
    \/ payloadSeg = Empty /\ opts.DetachedPayload = payload

\* Whichever it is, the segment checked is the segment signed.
LEMMA SuppliedSegment ==
  ASSUME NEW payload \in Octets, payload # Empty, NEW h \in Headers,
         NEW payloadSeg, NEW opts, NEW r, r.encodedPayload = payloadSegment(h, payload),
         Supplied(payloadSeg, r, opts, payload)
  PROVE  /\ CheckedSegment(JSON(h), payloadSeg, opts) = payloadSegment(h, payload)
         /\ ~(payloadSeg = Empty /\ opts.DetachedPayload = Empty)
         /\ isUnencoded(JSON(h)) \/ DecodeSegment(payloadSegment(h, payload)).err = nil
<1>1. isUnencoded(JSON(h)) <=> isUnencoded(h)
  BY UnencodedSurvivesJSON
<1>2. payloadSegment(h, payload) # Empty
  <2>1. CASE isUnencoded(h)
    BY <2>1 DEF payloadSegment
  <2>2. CASE ~isUnencoded(h)
    <3>1. payloadSegment(h, payload) = [text |-> payload.text, layers |-> payload.layers + 1]
      BY <2>2 DEF payloadSegment, EncodeSegment
    <3>2. payload.text # ""
      BY OctetFields
    <3>3. payloadSegment(h, payload).text = payload.text
      BY <3>1
    <3>4. Empty.text = ""
      BY DEF Empty
    <3> QED BY <3>2, <3>3, <3>4, Zenon
  <2> QED BY <2>1, <2>2
<1>3. payloadSegment(JSON(h), payload) = payloadSegment(h, payload)
  BY <1>1 DEF payloadSegment
<1>4. /\ CheckedSegment(JSON(h), payloadSeg, opts) = payloadSegment(h, payload)
      /\ ~(payloadSeg = Empty /\ opts.DetachedPayload = Empty)
  <2>1. CASE payloadSeg = r.encodedPayload
    BY <1>2, <2>1 DEF CheckedSegment
  <2>2. CASE payloadSeg = Empty /\ opts.DetachedPayload = payload
    BY <1>3, <2>2 DEF CheckedSegment
  <2> QED BY <2>1, <2>2 DEF Supplied
<1>5. isUnencoded(h) \/ DecodeSegment(payloadSegment(h, payload)).err = nil
  <2>1. DecodeSegment(EncodeSegment(payload)).err = nil
    BY LayerRoundTrip
  <2> QED BY <2>1 DEF payloadSegment
<1> QED BY <1>1, <1>4, <1>5

\* A consumer with this key and these options can read what signOne returned to
\* s as r, and gets the payload from payloadSeg or its own options.
CanRead(key, opts, payloadSeg, payload, s, r) ==
    /\ payload # Empty
    /\ r = signOne(payload, s.key, s.opts) /\ r.err = nil
    /\ HoldsKeyOf(key, s, r.signature.sig)
    /\ Tolerates(opts, r)
    /\ Supplied(payloadSeg, r, opts, payload)

(***************************************************************************)
(* The heart of readability: what signOne returns verifies, for every      *)
(* consumer that holds the key and has the payload.                        *)
(***************************************************************************)
LEMMA ReadBack ==
  ASSUME NEW payload \in Octets, NEW s \in Signer,
         NEW key \in KeyArgs, NEW opts \in VerifyOptions, NEW payloadSeg, NEW r,
         CanRead(key, opts, payloadSeg, payload, s, r)
  PROVE  /\ verifyEntry(EntryFor(s, r), payloadSeg, key, opts).err = nil
         /\ verifyJSONEntry(EntryFor(s, r), payloadSeg, key, opts).err = nil
<1>0. /\ payload # Empty /\ r = signOne(payload, s.key, s.opts) /\ r.err = nil
      /\ HoldsKeyOf(key, s, r.signature.sig) /\ Tolerates(opts, r)
      /\ Supplied(payloadSeg, r, opts, payload)
  BY DEF CanRead
<1>e. PICK e : e = EntryFor(s, r)
  OBVIOUS
<1>1. PICK alg : \E h : SignedUnder(payload, s, alg, h, r)
  BY <1>0, SignOneParts
<1>2. PICK h : SignedUnder(payload, s, alg, h, r)
  BY <1>1
<1>3. PICK P : P = JSON(h)
  OBVIOUS
<1>4. PICK U : U = JSON(s.opts.Unprotected)
  OBVIOUS
<1>5. PICK merged : merged = mergeHeaders(P, U)
  OBVIOUS
<1>6. PICK kid : kid = KeyID(merged.hdr)
  OBVIOUS
<1>7. PICK sig : sig = r.signature.sig
  OBVIOUS
<1>8. PICK o : o = payloadSegment(h, payload)
  OBVIOUS
<1>9. s.key \in KeyArgs /\ s.opts \in SignOptions /\ s.opts.Unprotected \in Headers
  BY DEF Signer, SignOptions
<1>10. alg \in DOMAIN sigAlgs /\ alg \in Symbol /\ h = protectedHeader(s.key, s.opts, alg)
  BY <1>2, AlgAssumption DEF SignedUnder
<1>11. h \in Headers /\ P \in Headers
  BY <1>3, <1>9, <1>10, ProtectedHeaderType, JSONType
<1>12. /\ h["alg"] = Str(alg)
       /\ kidFor(s.key, s.opts) # "" => h["kid"] = Str(kidFor(s.key, s.opts))
       /\ s.opts.Critical # <<>> => h["crit"] = Strings(s.opts.Critical)
  BY <1>9, <1>10, ProtectedHeaderSets
<1>13. merged.err = nil
  BY <1>2, <1>3, <1>4, <1>5, <1>9, <1>11, MergeAfterJSON DEF SignedUnder
<1>14. ASSUME NEW n \in Name, NEW v, h[n] = Str(v) PROVE HeaderString(merged.hdr, n) = v
  <2>1. P[n] = Str(v)
    BY <1>3, <1>11, <1>14, JSONMember
  <2>2. Has(P, n)
    BY <2>1 DEF Has, Str, Absent
  <2>3. merged.hdr[n] = Str(v)
    BY <1>5, <1>13, <2>1, <2>2, MergeKeepsProtected
  <2> QED BY <2>3 DEF HeaderString, Str
<1>15. alg = Algorithm(merged.hdr)
  BY <1>12, <1>14, NameAssumption DEF Algorithm
<1>16. NamesKidOf(kid, s)
  BY <1>6, <1>12, <1>14, NameAssumption DEF NamesKidOf, KeyID
<1>17. alg # "" /\ lookupSigAlg(alg) = nil
  BY <1>10 DEF lookupSigAlg, sigAlgs, None
<1>18. sig.alg = alg /\ r.protected.hdr = P
  BY <1>2, <1>3, <1>7 DEF SignedUnder, signatureOf, Seg
<1>19. opts.Algorithms = <<>> \/ containsString(opts.Algorithms, alg)
  BY <1>0, <1>7, <1>18 DEF Tolerates
<1>20. checkCritical(P, <<"b64">> \o opts.KnownCritical) = nil
  <2>1. \A k \in 1..Len(Critical(P)) :
            containsString(<<"b64">> \o opts.KnownCritical, Critical(P)[k])
    BY <1>0, <1>18 DEF Tolerates
  <2>2. PICK known : known = <<"b64">> \o opts.KnownCritical
    OBVIOUS
  <2>3. checkCriticalProduced(h) = nil
    BY <1>2 DEF SignedUnder
  <2>4. checkCritical(P, known) = nil
    BY <1>3, <1>11, <2>1, <2>2, <2>3, CriticalSurvivesJSON
  <2> QED BY <2>2, <2>4
<1>21. b64Err(P, U, Critical(P)) = nil
  <2>1. /\ b64Err(h, s.opts.Unprotected, s.opts.Critical) = nil
        /\ checkCriticalProduced(h) = nil
    BY <1>2 DEF SignedUnder
  <2> QED BY <1>3, <1>4, <1>9, <1>11, <1>12, <2>1, B64AfterJSON
<1>22. /\ o = CheckedSegment(P, payloadSeg, opts)
       /\ ~(payloadSeg = Empty /\ opts.DetachedPayload = Empty)
       /\ isUnencoded(P) \/ DecodeSegment(o).err = nil
  <2>1. r.encodedPayload = payloadSegment(h, payload)
    BY <1>2 DEF SignedUnder
  <2> QED BY <1>0, <1>3, <1>8, <1>11, <2>1, SuppliedSegment
<1>23. /\ resolveKey(key, kid).err = nil
       /\ checkJWKUsage(key, kid, "sig", {alg}, {"verify"}) = nil
       /\ KeyOf(resolveKey(key, kid).key, sig)
  BY <1>0, <1>7, <1>16, <1>18, HeldKeyVerifies
<1>24. verify(alg, r.protected, o, sig, resolveKey(key, kid).key) = nil
  <2>1. sig = signatureOf(alg, sig.pair, r.protected, o)
    BY <1>2, <1>7, <1>8 DEF SignedUnder
  <2> QED BY <1>23, <2>1, KeyVerifies
<1>25. r.signature.form = "b64"
  BY <1>2 DEF SignedUnder
<1>26. verifySignature(r.protected, P, U, payloadSeg, r.signature, key, opts).err = nil
  <2>1. NoneFails(r.protected, P, U, payloadSeg, r.signature, key, opts, merged, alg, kid)
    BY <1>5, <1>6, <1>7, <1>13, <1>15, <1>17, <1>19, <1>20, <1>21, <1>22, <1>23, <1>24,
       <1>25 DEF NoneFails
  <2> QED BY <2>1, VerifySignatureAccepts
<1>27. /\ e.protected = r.protected /\ e.header = U /\ e.signature = r.signature
  BY <1>4, <1>e DEF EntryFor
<1>28. decodeHeader(r.protected).err = nil /\ decodeHeader(r.protected).hdr = P
       /\ r.protected.form # ""
  BY <1>2, <1>3 DEF SignedUnder, Seg, decodeHeader
<1>29. verifyEntry(e, payloadSeg, key, opts).err = nil
  BY <1>26, <1>27, <1>28 DEF verifyEntry
<1> QED BY <1>e, <1>27, <1>28, <1>29 DEF verifyJSONEntry

-----------------------------------------------------------------------------
(* What is emitted is what signOne returned.                               *)

\* SigningSigned, of the locals sg.
SignedSoFar(sg) ==
    /\ Len(sg.out) <= Len(sg.signers)
    /\ \A k \in 1..Len(sg.out) :
          LET s == sg.signers[k]
          IN  /\ SignedBy(sg.out[k], s, sg.payload, s.opts.Unprotected)
              /\ SegmentOf(s, sg.payload) = sg.encodedPayload
    /\ sg.docPayload \in {Empty} \cup {sg.encodedPayload : k \in 1..Len(sg.out)}

\* A call that has signed nothing yet, or no call.
LEMMA NothingSigned ==
  ASSUME NEW sg, sg.out = <<>>, Len(sg.signers) \in Nat, sg.docPayload = Empty
  PROVE  SignedSoFar(sg)
<1>1. Len(sg.out) = 0
  OBVIOUS
<1>2. Len(sg.out) <= Len(sg.signers) /\ 1..Len(sg.out) = {}
  BY <1>1
<1> QED BY <1>2 DEF SignedSoFar

\* Appending to a sequence of n entries.
LEMMA Appended ==
  ASSUME NEW q \in Seq(Entries), NEW e, NEW t, t = Append(q, e), NEW n, n = Len(q)
  PROVE  /\ n \in Nat /\ Len(t) = n + 1 /\ t[n + 1] = e
         /\ \A k \in 1..n : t[k] = q[k]
  OBVIOUS

\* A round of the loop that takes the locals sg to sh: the next signer's r agrees
\* on the segment.
Round(sg, sh, s, r, e) ==
    /\ sg.out \in Seq(Entries) /\ Len(sg.signers) \in Nat
    /\ Len(sg.out) < Len(sg.signers)
    /\ s = sg.signers[Len(sg.out) + 1]
    /\ r = signOne(sg.payload, s.key, s.opts) /\ r.err = nil
    /\ e = [protected |-> r.protected, header |-> s.opts.Unprotected,
            signature |-> r.signature]
    /\ ~encodingsDisagree(Len(sg.out) + 1, r.encodedPayload, sg.encodedPayload)
    /\ sh.payload = sg.payload /\ sh.signers = sg.signers
    /\ sh.out = Append(sg.out, e) /\ sh.encodedPayload = r.encodedPayload
    /\ sh.docPayload \in {sg.docPayload, r.encodedPayload}

\* What is signed so far is still in order after it.
LEMMA OneMoreSigned ==
  ASSUME NEW sg, NEW sh, NEW s, NEW r, NEW e, SignedSoFar(sg), Round(sg, sh, s, r, e)
  PROVE  SignedSoFar(sh)
<1>n. PICK n : n = Len(sg.out)
  OBVIOUS
<1>o. PICK o : o = r.encodedPayload
  OBVIOUS
<1>q. PICK q : q = sg.out
  OBVIOUS
<1>t. PICK t : t = sh.out
  OBVIOUS
<1>0. q \in Seq(Entries) /\ t = Append(q, e) /\ n = Len(q)
  BY <1>n, <1>q, <1>t DEF Round
<1>1. /\ n \in Nat /\ Len(t) = n + 1 /\ t[n + 1] = e
      /\ \A k \in 1..n : t[k] = q[k]
  BY <1>0, Appended
<1>2. /\ Len(sh.out) = n + 1 /\ sh.out[n + 1] = e
      /\ \A k \in 1..n : sh.out[k] = sg.out[k]
  BY <1>1, <1>q, <1>t
<1>2a. sh.payload = sg.payload /\ sh.signers = sg.signers /\ sg.signers[n + 1] = s
  BY <1>n DEF Round
<1>3. \A k \in 1..n : sg.encodedPayload = o
  <2>1. ASSUME NEW k \in 1..n PROVE n + 1 > 1
    BY <1>1
  <2>2. ASSUME NEW k \in 1..n PROVE sg.encodedPayload = o
    BY <1>n, <1>o, <2>1 DEF Round, encodingsDisagree
  <2> QED BY <2>2
<1>4. /\ \A k \in 1..n : SignedBy(sg.out[k], sg.signers[k], sg.payload,
                                    sg.signers[k].opts.Unprotected)
      /\ \A k \in 1..n : SegmentOf(sg.signers[k], sg.payload) = sg.encodedPayload
      /\ sg.docPayload = Empty \/ (\E k \in 1..n : sg.docPayload = sg.encodedPayload)
  BY <1>n DEF SignedSoFar
<1>5. SignedBy(e, s, sg.payload, s.opts.Unprotected) /\ SegmentOf(s, sg.payload) = o
  BY <1>o DEF Round, SignedBy, SegmentOf
<1>6. ASSUME NEW k \in 1..(n + 1)
      PROVE  /\ SignedBy(sh.out[k], sh.signers[k], sh.payload, sh.signers[k].opts.Unprotected)
             /\ SegmentOf(sh.signers[k], sh.payload) = o
  <2>1. CASE k \in 1..n
    BY <1>2, <1>2a, <1>3, <1>4, <2>1
  <2>2. CASE k = n + 1
    BY <1>2, <1>2a, <1>5, <2>2
  <2> QED BY <1>1, <2>1, <2>2
<1>7. sh.docPayload \in {Empty} \cup {o : k \in 1..(n + 1)}
  <2>1. n + 1 \in 1..(n + 1)
    BY <1>1
  <2>2. sh.docPayload = Empty \/ sh.docPayload = o
    BY <1>o, <1>3, <1>4 DEF Round
  <2> QED BY <2>1, <2>2
<1>8. n + 1 <= Len(sh.signers)
  BY <1>n, <1>1 DEF Round
<1>9. sh.encodedPayload = o
  BY <1>o DEF Round
<1> QED BY <1>2, <1>6, <1>7, <1>8, <1>9 DEF SignedSoFar

\* A round of SignJSONMulti's loop.
LEMMA SignNextSigned == ASSUME IInv, SigningSigned, SignNext PROVE SigningSigned'
<1> DEFINE k == Len(signing.out) + 1
<1>s. PICK s : s = signing.signers[k]
  OBVIOUS
<1>r. PICK r : r = signOne(signing.payload, s.key, s.opts)
  OBVIOUS
<1>e. PICK e : e = [protected |-> r.protected, header |-> s.opts.Unprotected,
                    signature |-> r.signature]
  OBVIOUS
<1>1. /\ signing.signers \in Seq(Signers) /\ signing.out \in Seq(Entries)
      /\ Len(signing.signers) \in Nat /\ Len(signing.out) < Len(signing.signers)
      /\ SignedSoFar(signing)
  BY DEF IInv, TypeOK, SignNext, SigningSigned, SignedSoFar
<1>2. \/ signing' = NoSigning
      \/ /\ r.err = nil /\ ~encodingsDisagree(k, r.encodedPayload, signing.encodedPayload)
         /\ signing'.out = Append(signing.out, e)
         /\ signing'.signers = signing.signers /\ signing'.payload = signing.payload
         /\ signing'.encodedPayload = r.encodedPayload
         /\ signing'.docPayload \in {signing.docPayload, r.encodedPayload}
  BY <1>s, <1>r, <1>e DEF IInv, TypeOK, SignNext
<1>3. CASE signing' = NoSigning
  <2>1. SignedSoFar(NoSigning)
    BY NothingSigned DEF NoSigning
  <2> QED BY <1>3, <2>1 DEF SigningSigned, SignedSoFar
<1>4. CASE signing' # NoSigning
  <2>1. Round(signing, signing', s, r, e)
    BY <1>1, <1>2, <1>4, <1>s, <1>r, <1>e DEF Round
  <2>2. SignedSoFar(signing')
    BY <1>1, <2>1, OneMoreSigned
  <2> QED BY <2>2 DEF SigningSigned, SignedSoFar
<1> QED BY <1>3, <1>4

\* A segment as a document of this form carries it.
CarriedAs(form, o) == IF form = "compact" THEN o ELSE JSONString(o)

\* doc is what its signers made of payload.
SignedDoc(doc, payload, signers) ==
    /\ doc.form \in {"compact", "general"}
    /\ Len(doc.signatures) = Len(signers)
    /\ \A k \in 1..Len(signers) :
          LET s == signers[k]
          IN  /\ SignedBy(doc.signatures[k], s, payload, JSON(s.opts.Unprotected))
              /\ doc.payload \in {Empty, CarriedAs(doc.form, SegmentOf(s, payload))}

\* A call that returns such a document leaves it unchanged on the wire.
LEMMA EmitSigned ==
  ASSUME NEW doc, NEW payload, NEW signers, SignedDoc(doc, payload, signers),
         Emit(doc, payload, signers)
  PROVE  AsSigned' /\ CompactReturned'
<1>1. /\ wire'.doc = doc /\ wire'.payload = payload /\ wire'.signers = signers
      /\ verifying' = NoVerifying
  BY DEF Emit
<1>2. AsSigned'
  BY <1>1 DEF AsSigned, SignedDoc, Carried, CarriedAs
<1>3. CompactReturned'
  BY <1>1, NoVerifyingType DEF CompactReturned
<1> QED BY <1>2, <1>3

\* json.Marshal of the nil header.
LEMMA JSONOfNoHeader == JSON(NoHeader) = NoHeader
<1>1. JSONValue(Absent) = Absent
  BY DEF JSONValue, Absent
<1> QED BY <1>1 DEF JSON, NoHeader

\* Sign returns what signOne made for its signer.
LEMMA SignEmitsSigned == ASSUME Sign PROVE AsSigned' /\ CompactReturned'
<1>1. PICK payload \in Payloads, s \in Signers :
        LET r == signOne(payload, s.key, s.opts)
        IN  /\ s.opts.Unprotected = NoHeader
            /\ r.err = nil
            /\ Emit([form |-> "compact",
                     payload |-> IF s.opts.DetachPayload THEN Empty ELSE r.encodedPayload,
                     signatures |-> <<[protected |-> r.protected, header |-> NoHeader,
                                       signature |-> r.signature]>>],
                    payload, <<s>>)
  BY DEF Sign
<1>r. PICK r : r = signOne(payload, s.key, s.opts)
  OBVIOUS
<1>e. PICK e : e = [protected |-> r.protected, header |-> NoHeader, signature |-> r.signature]
  OBVIOUS
<1>o. PICK o : o = IF s.opts.DetachPayload THEN Empty ELSE r.encodedPayload
  OBVIOUS
<1>d. PICK doc : doc = [form |-> "compact", payload |-> o, signatures |-> <<e>>]
  OBVIOUS
<1>2. s.opts.Unprotected = NoHeader /\ r.err = nil /\ Emit(doc, payload, <<s>>)
  BY <1>1, <1>r, <1>e, <1>o, <1>d
<1>3. SignedBy(e, s, payload, JSON(s.opts.Unprotected))
  BY <1>2, <1>r, <1>e, JSONOfNoHeader DEF SignedBy
<1>4. o \in {Empty, SegmentOf(s, payload)}
  BY <1>r, <1>o DEF SegmentOf
<1>5. /\ doc.form = "compact" /\ doc.payload = o /\ doc.signatures = <<e>>
  BY <1>d
<1>6. Len(<<e>>) = 1 /\ Len(<<s>>) = 1 /\ <<e>>[1] = e /\ <<s>>[1] = s
  OBVIOUS
<1>7. SignedDoc(doc, payload, <<s>>)
  <2>1. ASSUME NEW k \in 1..Len(<<s>>)
        PROVE  /\ SignedBy(doc.signatures[k], <<s>>[k], payload,
                            JSON(<<s>>[k].opts.Unprotected))
               /\ doc.payload \in {Empty, CarriedAs(doc.form, SegmentOf(<<s>>[k], payload))}
    <3>1. k = 1
      BY <1>6
    <3> QED BY <1>3, <1>4, <1>5, <1>6, <3>1 DEF CarriedAs
  <2> QED BY <1>5, <1>6, <2>1 DEF SignedDoc
<1> QED BY <1>2, <1>7, EmitSigned

\* The empty octet string survives JSON.
LEMMA JSONOfEmpty == JSONString(Empty) = Empty
  BY TextAssumption DEF JSONString, ValidUTF8, Empty

\* An entry whose unprotected header is marshalled.
LEMMA MarshalEntry ==
  ASSUME NEW e \in Entries, NEW s, NEW payload,
         SignedBy(e, s, payload, s.opts.Unprotected)
  PROVE  SignedBy([e EXCEPT !.header = JSON(@)], s, payload, JSON(s.opts.Unprotected))
<1>1. PICK r : r = signOne(payload, s.key, s.opts)
  OBVIOUS
<1>2. /\ r.err = nil
      /\ e = [protected |-> r.protected, header |-> s.opts.Unprotected,
              signature |-> r.signature]
  BY <1>1 DEF SignedBy
<1>3. e.protected = r.protected /\ e.header = s.opts.Unprotected /\ e.signature = r.signature
  BY <1>2
<1>4. PICK h : h = JSON(e.header)
  OBVIOUS
<1>5. [e EXCEPT !.header = JSON(@)] = [e EXCEPT !.header = h]
  BY <1>4
<1>6. [e EXCEPT !.header = h] =
        [protected |-> e.protected, header |-> h, signature |-> e.signature]
  BY DEF Entries
<1> QED BY <1>1, <1>2, <1>3, <1>4, <1>5, <1>6 DEF SignedBy

\* SignJSONMulti returns what signOne made for its signers.
LEMMA SignReturnEmitsSigned ==
  ASSUME IInv, ReadInv, SignReturn PROVE AsSigned' /\ CompactReturned'
<1>n. PICK n : n = Len(signing.out)
  OBVIOUS
<1>s. PICK sigs : sigs = [k \in 1..n |-> [signing.out[k] EXCEPT !.header = JSON(@)]]
  OBVIOUS
<1>d. PICK doc : doc = [form |-> "general", payload |-> JSONString(signing.docPayload),
                        signatures |-> sigs]
  OBVIOUS
<1>1. /\ signing.out \in Seq(Entries) /\ Len(signing.signers) = n /\ n \in Nat
      /\ \A k \in 1..n : signing.out[k] \in Entries
  BY <1>n DEF SignReturn, IInv, TypeOK
<1>2. \/ Emit(doc, signing.payload, signing.signers)
      \/ UNCHANGED <<wire, verifying>>
  BY <1>n, <1>s, <1>d DEF SignReturn
<1>3. CASE UNCHANGED <<wire, verifying>>
  BY <1>3 DEF ReadInv, AsSigned, CompactReturned, Carried
<1>4. CASE Emit(doc, signing.payload, signing.signers)
  <2>1. /\ doc.form = "general" /\ doc.payload = JSONString(signing.docPayload)
        /\ doc.signatures = sigs
    BY <1>d
  <2>2. Len(sigs) = n /\ \A k \in 1..n : sigs[k] = [signing.out[k] EXCEPT !.header = JSON(@)]
    BY <1>1, <1>s
  <2>3. ASSUME NEW k \in 1..n, NEW s, s = signing.signers[k]
        PROVE  /\ SignedBy(sigs[k], s, signing.payload, JSON(s.opts.Unprotected))
               /\ doc.payload \in {Empty, JSONString(SegmentOf(s, signing.payload))}
    <3>1. /\ SignedBy(signing.out[k], s, signing.payload, s.opts.Unprotected)
          /\ SegmentOf(s, signing.payload) = signing.encodedPayload
          /\ signing.docPayload = Empty \/ signing.docPayload = signing.encodedPayload
      BY <1>n, <2>3 DEF ReadInv, SigningSigned
    <3>e. PICK e : e = signing.out[k]
      OBVIOUS
    <3>2. SignedBy(sigs[k], s, signing.payload, JSON(s.opts.Unprotected))
      <4>1. e \in Entries /\ sigs[k] = [e EXCEPT !.header = JSON(@)]
        BY <1>1, <2>2, <3>e
      <4> QED BY <3>1, <3>e, <4>1, MarshalEntry
    <3> QED BY <2>1, <3>1, <3>2, JSONOfEmpty
  <2>4. SignedDoc(doc, signing.payload, signing.signers)
    BY <1>1, <2>1, <2>2, <2>3 DEF SignedDoc, CarriedAs
  <2> QED BY <1>4, <2>4, EmitSigned
<1> QED BY <1>2, <1>3, <1>4

\* A change on the way counts as one.
LEMMA TransitChanges == ASSUME IInv, Transit PROVE wire'.edits # 0
<1>1. ASSUME NEW doc, Edit(doc) PROVE wire'.edits # 0
  <2>1. wire.edits \in Nat
    BY DEF IInv, TypeOK
  <2>2. PICK j : j = wire.edits + 1
    OBVIOUS
  <2>3. j # 0
    BY <2>1, <2>2
  <2>4. wire' = [wire EXCEPT !.doc = doc, !.edits = j]
    BY <1>1, <2>2 DEF Edit
  <2>5. wire'.edits = j
    BY <2>4 DEF IInv, TypeOK
  <2> QED BY <2>3, <2>5
<1>2. ASSUME NEW i, NEW e, EditEntry(i, e) PROVE wire'.edits # 0
  BY <1>1, <1>2 DEF EditEntry
<1>3. CASE EditHeader \/ EditProtected \/ EditSignature \/ Splice
  BY <1>2, <1>3, ZenonT(30) DEF EditHeader, EditProtected, EditSignature, Splice
<1>4. CASE EditPayload \/ Rearrange \/ Reserialize \/ Mangle
  BY <1>1, <1>4, ZenonT(30) DEF EditPayload, Rearrange, Reserialize, Mangle
<1> QED BY <1>3, <1>4 DEF Transit

\* Every step keeps ReadInv.
LEMMA NextReadInv == IInv /\ ReadInv /\ [Next]_vars => ReadInv'
<1> SUFFICES ASSUME IInv, ReadInv, [Next]_vars PROVE ReadInv'
  OBVIOUS
<1>1. ASSUME signing' = signing PROVE SigningSigned'
  BY <1>1 DEF ReadInv, SigningSigned
<1>2. ASSUME signing' = NoSigning PROVE SigningSigned'
  <2>1. SignedSoFar(NoSigning)
    BY NothingSigned DEF NoSigning
  <2> QED BY <1>2, <2>1 DEF SigningSigned, SignedSoFar
<1>3. ASSUME wire' = wire PROVE AsSigned'
  BY <1>3 DEF ReadInv, AsSigned, Carried
<1>4. ASSUME UNCHANGED <<wire, verifying>> PROVE CompactReturned'
  BY <1>4 DEF ReadInv, CompactReturned
<1>5. CASE Sign
  BY <1>1, <1>5, SignEmitsSigned DEF Sign, ReadInv
<1>6. CASE StartSignJSONMulti
  <2>0. PICK n \in 1..MaxSigners :
          \E payload \in Payloads, signers \in [1..n -> Signers] :
             signing' = [NoSigning EXCEPT !.payload = payload, !.signers = signers]
    BY <1>6 DEF StartSignJSONMulti
  <2>1. PICK payload \in Payloads, signers \in [1..n -> Signers] :
          signing' = [NoSigning EXCEPT !.payload = payload, !.signers = signers]
    BY <2>0
  <2>2. /\ signing'.out = <<>> /\ signing'.docPayload = Empty /\ signing'.signers = signers
    BY <2>1 DEF NoSigning
  <2>3. Len(signers) \in Nat
    OBVIOUS
  <2>4. SignedSoFar(signing')
    BY <2>2, <2>3, NothingSigned
  <2>5. SigningSigned'
    BY <2>4 DEF SigningSigned, SignedSoFar
  <2> QED BY <1>3, <1>4, <1>6, <2>5 DEF StartSignJSONMulti, ReadInv
<1>7. CASE SignNext
  BY <1>3, <1>4, <1>7, SignNextSigned DEF SignNext, ReadInv
<1>8. CASE SignReturn
  BY <1>2, <1>8, SignReturnEmitsSigned DEF SignReturn, ReadInv
<1>9. CASE Transit
  <2>1. SigningSigned'
    BY <1>1, <1>9, TransitEdits
  <2>2. AsSigned'
    BY <1>9, TransitChanges DEF AsSigned
  <2>3. CompactReturned'
    BY <1>9, TransitEdits, NoVerifyingType DEF CompactReturned
  <2> QED BY <2>1, <2>2, <2>3 DEF ReadInv
<1>10. CASE Verify
  <2>1. PICK v \in Verifiers :
          verifying' = [Verifying(v) EXCEPT !.phase = "done",
                           !.result = VerifyWithOptions(wire.doc, v.key, v.opts)]
    BY <1>10 DEF Verify
  <2>2. PICK r : r = VerifyWithOptions(wire.doc, v.key, v.opts)
    OBVIOUS
  <2>3. /\ verifying'.phase = "done" /\ verifying'.result = r
        /\ verifying'.key = v.key /\ verifying'.opts = v.opts
    BY <2>1, <2>2 DEF Verifying
  <2>4. wire' = wire /\ signing' = signing
    BY <1>10 DEF Verify
  <2>5. CompactReturned'
    BY <2>2, <2>3, <2>4 DEF CompactReturned
  <2> QED BY <1>1, <1>3, <2>4, <2>5 DEF ReadInv
<1>11. CASE StartVerifyJSON
  <2>1. wire' = wire /\ signing' = signing /\ wire.doc.form # "compact"
    BY <1>11 DEF StartVerifyJSON
  <2>2. CompactReturned'
    BY <2>1 DEF CompactReturned
  <2> QED BY <1>1, <1>3, <2>1, <2>2 DEF ReadInv
<1>12. CASE VerifyNext
  <2>1. wire' = wire /\ signing' = signing /\ wire.doc.form # "compact"
    BY <1>12 DEF VerifyNext, ReadInv, CompactReturned
  <2>2. CompactReturned'
    BY <2>1 DEF CompactReturned
  <2> QED BY <1>1, <1>3, <2>1, <2>2 DEF ReadInv
<1>13. CASE UNCHANGED vars
  BY <1>1, <1>3, <1>4, <1>13 DEF vars, ReadInv
<1> QED BY <1>5, <1>6, <1>7, <1>8, <1>9, <1>10, <1>11, <1>12, <1>13 DEF Next

(***************************************************************************)
(* A document that has not changed on its way holds, entry by entry, what  *)
(* signOne made for its signers, over the payload segment it carries.      *)
(***************************************************************************)
THEOREM ReadInvariance == Spec => []ReadInv
<1>1. Init => ReadInv
  <2> SUFFICES ASSUME Init PROVE ReadInv
    OBVIOUS
  <2>1. SignedSoFar(signing)
    BY NothingSigned DEF Init, NoSigning
  <2>2. AsSigned
    <3>1. /\ wire.doc.form = "none" /\ wire.doc.signatures = <<>> /\ wire.signers = <<>>
      BY DEF Init, NoWire, NoDoc
    <3>2. Len(wire.doc.signatures) = Len(wire.signers) /\ 1..Len(wire.signers) = {}
      BY <3>1
    <3> QED BY <3>1, <3>2 DEF AsSigned
  <2>3. CompactReturned
    BY NoVerifyingType DEF Init, CompactReturned
  <2> QED BY <2>1, <2>2, <2>3 DEF ReadInv, SigningSigned, SignedSoFar
<1>2. IInv /\ ReadInv /\ [Next]_vars => ReadInv'
  BY NextReadInv
<1> QED BY <1>1, <1>2, Invariance, PTL DEF Spec

-----------------------------------------------------------------------------
(* Reading it.                                                             *)

\* A verification that succeeds returns the payload that the signature it
\* checked was made over.
LEMMA SignedPayloadReturned ==
  ASSUME NEW payload \in Octets, NEW e, MadeFrom(e.signature.sig, payload),
         NEW payloadSeg, NEW key, NEW opts,
         verifyEntry(e, payloadSeg, key, opts).err = nil
  PROVE  verifyEntry(e, payloadSeg, key, opts).payload = payload
<1>P. PICK P : P = decodeHeader(e.protected).hdr
  OBVIOUS
<1>r. PICK r : r = verifySignature(e.protected, P, e.header, payloadSeg, e.signature,
                                   key, opts)
  OBVIOUS
<1>o. PICK o : o = CheckedSegment(P, payloadSeg, opts)
  OBVIOUS
<1>1. /\ decodeHeader(e.protected).err = nil
      /\ verifyEntry(e, payloadSeg, key, opts) = r /\ r.err = nil
  BY <1>P, <1>r DEF verifyEntry, failed
<1>2. P = e.protected.hdr
  BY <1>P, <1>1 DEF decodeHeader, nil
<1>3. Established(e.protected, P, e.header, payloadSeg, e.signature, key, opts, r)
  BY <1>r, <1>1, VerifySignatureSucceeds
<1>4. /\ e.signature.sig.protected = e.protected /\ e.signature.sig.payload = o
      /\ isUnencoded(P) => r.payload = o
      /\ ~isUnencoded(P) => r.payload = DecodeSegment(o).out
  BY <1>o, <1>3 DEF Established
<1>5. o = payloadSegment(P, payload)
  BY <1>2, <1>4 DEF MadeFrom
<1>6. CASE isUnencoded(P)
  BY <1>1, <1>4, <1>5, <1>6 DEF payloadSegment
<1>7. CASE ~isUnencoded(P)
  <2>1. o = EncodeSegment(payload)
    BY <1>5, <1>7 DEF payloadSegment
  <2>2. DecodeSegment(EncodeSegment(payload)).out = payload
    BY LayerRoundTrip
  <2> QED BY <1>1, <1>4, <1>7, <2>1, <2>2
<1> QED BY <1>6, <1>7

\* A signature signOne made of payload.
LEMMA SignedIsMadeFrom ==
  ASSUME NEW payload \in Octets, NEW s \in Signer, NEW e, NEW h, SignedBy(e, s, payload, h)
  PROVE  /\ MadeFrom(e.signature.sig, payload)
         /\ e.protected.form = "json"
<1>1. PICK r : r = signOne(payload, s.key, s.opts)
  OBVIOUS
<1>2. r.err = nil /\ e.protected = r.protected /\ e.signature = r.signature
  BY <1>1 DEF SignedBy
<1>3. MadeFrom(r.signature.sig, payload)
  BY <1>1, <1>2, SignOneSucceeds DEF Signer, Produced
<1>4. r.protected.form = "json"
  <2>1. PICK alg : \E h1 : SignedUnder(payload, s, alg, h1, r)
    BY <1>1, <1>2, SignOneParts
  <2> QED BY <2>1 DEF SignedUnder, Seg
<1> QED BY <1>2, <1>3, <1>4

\* The payload segment of a signature can stand in a compact document.
LEMMA SegmentHasNoDot ==
  ASSUME NEW payload \in Octets, NEW h, ~(isUnencoded(h) /\ HasDot(payload))
  PROVE  ~HasDot(payloadSegment(h, payload))
<1>1. CASE isUnencoded(h)
  BY <1>1 DEF payloadSegment
<1>2. CASE ~isUnencoded(h) /\ payload = Empty
  <2>1. payloadSegment(h, payload) = Empty
    BY <1>2 DEF payloadSegment, EncodeSegment
  <2>2. Empty.text \notin Dotted
    BY TextAssumption DEF Empty
  <2> QED BY <2>1, <2>2 DEF HasDot
<1>3. CASE ~isUnencoded(h) /\ payload # Empty
  <2>1. PICK n : n = payload.layers + 1
    OBVIOUS
  <2>2. payload.layers \in Nat
    BY OctetFields
  <2>3. n # 0
    BY <2>1, <2>2
  <2>4. payloadSegment(h, payload) = [text |-> payload.text, layers |-> n]
    BY <1>3, <2>1 DEF payloadSegment, EncodeSegment
  <2>5. payloadSegment(h, payload).layers = n
    BY <2>4
  <2> QED BY <2>3, <2>5 DEF HasDot
<1> QED BY <1>1, <1>2, <1>3

\* A consumer who knows the payload of an unchanged document that is readable
\* checks the segment that was signed.
LEMMA PayloadSupplied ==
  ASSUME ~Unreadable, PayloadKnown, NEW r,
         wire.doc.payload \in {Empty, Carried(r.encodedPayload)}
  PROVE  Supplied(wire.doc.payload, r, verifying.opts, wire.payload)
<1>1. CASE ~Embedded
  BY <1>1 DEF PayloadKnown, Embedded, Supplied
<1>2. CASE Embedded /\ wire.doc.form = "compact"
  BY <1>2 DEF Embedded, Carried, Supplied
<1>3. CASE Embedded /\ wire.doc.form # "compact"
  <2>1. wire.doc.payload = JSONString(r.encodedPayload)
    BY <1>3 DEF Embedded, Carried
  <2>2. wire.doc.payload # Plain(Replaced)
    BY <1>3 DEF Unreadable
  <2> QED BY <2>1, <2>2 DEF JSONString, Supplied
<1> QED BY <1>1, <1>2, <1>3

(***************************************************************************)
(* "This package must never emit a document it would itself refuse to      *)
(* read" (header.go), for all keys, headers, options and payloads: what    *)
(* Sign and SignJSONMulti return is accepted, with the payload that was    *)
(* signed, wherever one of the signers' keys and the payload are at hand,  *)
(* unless the payload is empty or lost to JSON.                            *)
(***************************************************************************)
THEOREM Readability == Spec => []EmittedIsReadable
<1>1. ASSUME IInv, LoopInv, OneGoodEntrySuffices, ReadInv PROVE EmittedIsReadable
  <2> SUFFICES ASSUME ~Unreadable, verifying.phase = "done", wire.edits = 0,
                      NEW k \in 1..Len(wire.signers),
                      NEW s, s = wire.signers[k],
                      NEW r, r = signOne(wire.payload, s.key, s.opts),
                      HoldsKeyOf(verifying.key, s, r.signature.sig),
                      Tolerates(verifying.opts, r), PayloadKnown
               PROVE  verifying.result.err = nil /\ verifying.result.payload = wire.payload
    BY DEF EmittedIsReadable, EveryDocumentIsReadable
  <2>1. /\ wire.payload \in Octets /\ wire.signers \in Seq(Signers)
        /\ verifying.key \in KeyArgs /\ verifying.opts \in VerifyOptions
    BY <1>1 DEF IInv, TypeOK
  <2>2. \A j \in 1..Len(wire.signers) : wire.signers[j] \in Signer
    BY <2>1, JWSAssumption
  <2>3. /\ wire.doc.form \in {"compact", "general"}
        /\ Len(wire.doc.signatures) = Len(wire.signers)
        /\ \A j \in 1..Len(wire.signers) :
              SignedBy(wire.doc.signatures[j], wire.signers[j], wire.payload,
                       JSON(wire.signers[j].opts.Unprotected))
        /\ wire.doc.payload \in {Empty, Carried(r.encodedPayload)}
    BY <1>1 DEF ReadInv, AsSigned, SegmentOf
  <2>e. PICK e : e = wire.doc.signatures[k]
    OBVIOUS
  <2>4. r.err = nil /\ e = EntryFor(s, r)
    BY <2>3, <2>e DEF SignedBy, EntryFor
  <2>5. Supplied(wire.doc.payload, r, verifying.opts, wire.payload)
    BY <2>3, PayloadSupplied
  <2>6. /\ verifyEntry(e, wire.doc.payload, verifying.key, verifying.opts).err = nil
        /\ verifyJSONEntry(e, wire.doc.payload, verifying.key, verifying.opts).err = nil
    <3>1. wire.payload # Empty
      BY DEF Unreadable
    <3>2. s \in Signer
      BY <2>2
    <3>3. CanRead(verifying.key, verifying.opts, wire.doc.payload, wire.payload, s, r)
      BY <2>4, <2>5, <3>1 DEF CanRead
    <3> QED BY <2>1, <2>4, <3>2, <3>3, ReadBack
  <2>7. ASSUME NEW j \in 1..Len(wire.signers)
        PROVE  /\ MadeFrom(wire.doc.signatures[j].signature.sig, wire.payload)
               /\ wire.doc.signatures[j].protected.form = "json"
    BY <2>1, <2>2, <2>3, SignedIsMadeFrom
  <2>8. CASE wire.doc.form = "compact"
    <3>1. k = 1
      BY <1>1, <2>3, <2>8 DEF IInv, WellFormed
    <3>2. ~HasDot(wire.doc.payload)
      <4>1. PICK alg : \E h : SignedUnder(wire.payload, s, alg, h, r)
        BY <2>4, SignOneParts
      <4>2. PICK h : SignedUnder(wire.payload, s, alg, h, r)
        BY <4>1
      <4>3. ~HasDot(r.encodedPayload)
        BY <2>1, <4>2, SegmentHasNoDot DEF SignedUnder
      <4>4. ~HasDot(Empty)
        BY TextAssumption DEF HasDot, Empty
      <4> QED BY <2>3, <2>8, <4>3, <4>4 DEF Carried
    <3>3. verifying.result = verifyEntry(e, wire.doc.payload, verifying.key, verifying.opts)
      BY <1>1, <2>8, <2>e, <3>1, <3>2 DEF ReadInv, CompactReturned, VerifyWithOptions
    <3>4. MadeFrom(e.signature.sig, wire.payload)
      BY <2>7, <2>e
    <3> QED BY <2>1, <2>6, <3>3, <3>4, SignedPayloadReturned
  <2>9. CASE wire.doc.form = "general"
    <3>1. wire.doc.signatures # <<>>
      <4>1. Len(wire.doc.signatures) # 0
        BY <2>1, <2>3
      <4> QED BY <4>1
    <3>2. JSONLoopDone
      BY <2>9, <3>1 DEF JSONLoopDone, jsonFormErr
    <3>3. EntryResult(k).err = nil
      BY <2>6, <2>e DEF EntryResult
    <3>4. SomeEntryVerifies
      BY <2>3, <3>3 DEF SomeEntryVerifies
    <3>5. verifying.result.err = nil
      BY <1>1, <3>2, <3>4 DEF OneGoodEntrySuffices
    <3>6. PICK p \in 1..Len(wire.doc.signatures) : verifying.result = EntryResult(p)
      BY <1>1, <3>2 DEF LoopInv
    <3>f. PICK f : f = wire.doc.signatures[p]
      OBVIOUS
    <3>7. MadeFrom(f.signature.sig, wire.payload) /\ f.protected.form = "json"
      BY <2>3, <2>7, <3>f
    <3>8. verifying.result = verifyEntry(f, wire.doc.payload, verifying.key, verifying.opts)
      BY <3>6, <3>7, <3>f DEF EntryResult, verifyJSONEntry
    <3> QED BY <2>1, <3>5, <3>7, <3>8, SignedPayloadReturned
  <2> QED BY <2>3, <2>8, <2>9
<1> QED BY <1>1, Invariance, LoopInvariance, OneGoodEntry, ReadInvariance, PTL
=============================================================================

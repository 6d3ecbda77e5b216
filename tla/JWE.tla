--------------------------------- MODULE JWE ---------------------------------
(***************************************************************************)
(* JSON Web Encryption, RFC 7516, as jwe.go and jwe_json.go implement it.  *)
(*                                                                         *)
(* A producer calls Encrypt or EncryptJSONMulti; the document travels and  *)
(* may be changed on the way; a consumer calls DecryptWithOptions or       *)
(* DecryptJSONWithOptions on what arrives.  As in JWS the calls are taken  *)
(* one at a time and the loops over recipients one iteration at a time.    *)
(* Which of several errors a failing producer call returns is left open.   *)
(***************************************************************************)
EXTENDS KeyMgmt, FiniteSets

CONSTANTS
    Random,          \* the octet strings the random source yields, in order
    Calls,           \* [plaintext, opts, recipients]: what producers call with
    Readers,         \* the [key, opts] pairs consumers decrypt with
    HeaderEdits,     \* [name, value]: changes to an unprotected header on the way
    ProtectedEdits,  \* protected segments put in place of another
    AADEdits,        \* "aad" members put in place of another
    MaxEntries,      \* bound: recipients of a rearranged document
    MaxSealed,       \* bound: documents made in a behaviour
    MaxEdits         \* bound: changes to one document on the way

EncryptOptions == [Algorithm : Symbol, Encryption : Symbol, KeyID : Symbol,
                   Header : Headers, AdditionalHeaders : Headers, Unprotected : Headers,
                   AAD : Octets, Compress : BOOLEAN]
DecryptOptions == [Algorithms : Seq(Symbol), Encryptions : Seq(Symbol),
                   KnownCritical : Seq(Symbol), MaxDecompressed : Int]
Recipient == [Key : KeyArgs, Algorithm : Symbol, KeyID : Symbol, Header : Headers]
Call      == [plaintext : Text, opts : EncryptOptions, recipients : Seq(Recipient)]
Reader    == [key : KeyArgs, opts : DecryptOptions]

ASSUME JWEAssumption ==
    /\ Random \in Seq(DOMAIN SegLen \ {""})
    /\ \A i, j \in 1..Len(Random) : Random[i] = Random[j] => i = j
    /\ \A c \in Calls : c \in Call /\ c.recipients # <<>>
    /\ Readers # {} /\ \A r \in Readers : r \in Reader
    /\ \A e \in HeaderEdits : e \in [name : Name, value : Value]
    /\ \A p \in ProtectedEdits : p \in ProtectedSegs
    /\ AADEdits \subseteq Octets
    /\ MaxEntries \in Nat /\ MaxSealed \in Nat /\ MaxEdits \in Nat

-----------------------------------------------------------------------------
(* Documents.                                                              *)

NoSeg == Seg("", NoHeader)
NoContent == encryptContent("", NoSecret, NoSeg, Empty, Body(""))

Entries == [header : Headers, encrypted_key : EncryptedKeys]
entry(header, key) == [header |-> header, encrypted_key |-> key]

\* compact: the five segments; general: "recipients"; flattened: the single
\* recipient's members at the top level; mixed: both of these; broken: neither
\* five segments nor a JSON object; none: no document yet.
DocForm == {"none", "compact", "general", "flattened", "mixed", "broken"}
Docs == [form : DocForm, protected : ProtectedSegs, unprotected : Headers,
         recipients : Seq(Entries), aad : Octets, content : Contents, parts : Parts]
NoDoc == [form |-> "none", protected |-> NoSeg, unprotected |-> NoHeader,
          recipients |-> <<>>, aad |-> Empty, content |-> NoContent, parts |-> AsMade]

\* Of two checks made in this order, the error of the first that fails.
firstErr(e1, e2) == IF e1 # nil THEN e1 ELSE e2

\* copyHeader of several maps: later ones override.
copyHeader(h1, h2) == [n \in Name |-> IF Has(h2, n) THEN h2[n] ELSE h1[n]]

\* mergeHeaders of the three headers of a recipient.
mergeThree(h1, h2, h3) ==
    LET with(m) == IF m.err # nil THEN m ELSE mergeHeaders(m.hdr, h3)
    IN  with(mergeHeaders(h1, h2))

-----------------------------------------------------------------------------
(* What Encrypt and EncryptJSONMulti have in common.                       *)

chooseEnc(opts) == IF opts.Encryption = "" THEN "A256GCM" ELSE opts.Encryption

chooseKeyMgmtAlg(alg, key, resolved) ==
    IF alg # "" THEN [err |-> nil, alg |-> alg]
    ELSE IF key.kind = "*JWK" /\ key.keys[1].alg \in DOMAIN keyMgmts
         THEN [err |-> nil, alg |-> key.keys[1].alg]
    ELSE defaultKeyMgmtAlg(resolved)

\* Everything both check about one recipient before its key management:
\* the algorithm and the Go key, or the first error.
prepare(key, kid, algOpt, enc) ==
    LET checked(resolved, chosen) ==
            [err |-> firstErr(resolved.err,
                     firstErr(chosen.err,
                     firstErr(lookupKeyMgmt(chosen.alg),
                              checkJWKUsage(key, kid, "enc", {chosen.alg, enc},
                                            {"encrypt", "wrapKey", "deriveKey"})))),
             alg |-> chosen.alg, key |-> resolved.key]
        with(resolved) == checked(resolved, chooseKeyMgmtAlg(algOpt, key, resolved.key))
    IN  with(resolveKey(key, kid))

\* The "kid" of the recipient's JWK, where the caller names none.
jwkKid(key) == IF key.kind = "*JWK" THEN key.keys[1].kid ELSE ""

\* The protected header of the options.
baseHeader(opts) ==
    LET h == With(copyHeader(opts.Header, opts.AdditionalHeaders), "enc", Str(chooseEnc(opts)))
    IN  IF opts.Compress THEN With(h, "zip", Str("DEF")) ELSE h

\* Compression, the encoding of the protected header, content encryption.
seal(plaintext, protected, enc, cek, aad) ==
    LET notSealed(e) == [err |-> e, content |-> NoContent]
        body(zip)    == IF zip = "" THEN Body(plaintext) ELSE deflate(plaintext)
        with(zip, encoded) ==
            IF zip \notin {"", "DEF"} THEN notSealed("ErrInvalidHeader")
            ELSE IF encoded.err # nil THEN notSealed(encoded.err)
            ELSE [err |-> nil,
                  content |-> encryptContent(enc, cek, encoded.seg, aad, body(zip))]
    IN  with(HeaderString(protected, "zip"), encodeHeader(protected))

-----------------------------------------------------------------------------
(* Encrypt.                                                                *)

notMade(e) == [err |-> e, doc |-> NoDoc]
orNotMade(e, made) == IF e # nil THEN notMade(e) ELSE made

compactHeader(key, opts, alg) ==
    LET h == With(baseHeader(opts), "alg", Str(alg))
    IN  IF opts.KeyID # "" THEN With(h, "kid", Str(opts.KeyID))
        ELSE IF jwkKid(key) # "" /\ ~Has(h, "kid") THEN With(h, "kid", Str(jwkKid(key)))
        ELSE h

Encrypt(plaintext, key, opts, fresh) ==
    LET enc == chooseEnc(opts)
        document(made, sealed) ==
            orNotMade(sealed.err,
                [err |-> nil,
                 doc |-> [NoDoc EXCEPT !.form = "compact",
                            !.protected = sealed.content.protected,
                            !.recipients = <<entry(NoHeader, made.key)>>,
                            !.content = sealed.content]])
        withKey(made) ==
            orNotMade(made.err,
                document(made, seal(plaintext, made.header, enc, made.cek, Empty)))
        withHeader(p, header) ==
            orNotMade(checkCriticalProduced(header),
                withKey(encryptKey(p.alg, enc, p.key, header, NoSecret, fresh)))
        prepared(p) == orNotMade(p.err, withHeader(p, compactHeader(key, opts, p.alg)))
    IN  IF opts.Unprotected # NoHeader THEN notMade("ErrInvalidHeader")
        ELSE IF opts.AAD # Empty THEN notMade("ErrInvalidHeader")
        ELSE orNotMade(lookupEnc(enc), prepared(prepare(key, opts.KeyID, opts.Algorithm, enc)))

-----------------------------------------------------------------------------
(* EncryptJSONMulti.  EncryptJSON is the call with the one recipient that  *)
(* opts.Algorithm and opts.KeyID describe.                                 *)

\* The checks before the loop.
multiErr(c) ==
    IF Has(c.opts.Unprotected, "zip") THEN "ErrInvalidHeader"
    ELSE IF \E i \in 1..Len(c.recipients) : Has(c.recipients[i].Header, "zip")
         THEN "ErrInvalidHeader"
    ELSE lookupEnc(chooseEnc(c.opts))

\* The protected header the loop starts with.
sharedHeader(c) ==
    LET h == baseHeader(c.opts)
    IN  IF c.opts.KeyID # "" /\ Len(c.recipients) = 1
        THEN With(h, "kid", Str(c.opts.KeyID)) ELSE h

recipientHeader(r, alg, protected) ==
    LET h == With(r.Header, "alg", Str(alg))
    IN  IF r.KeyID # "" THEN With(h, "kid", Str(r.KeyID))
        ELSE IF jwkKid(r.Key) # "" /\ ~Has(h, "kid") /\ ~Has(protected, "kid")
             THEN With(h, "kid", Str(jwkKid(r.Key)))
        ELSE h

\* The mutant lets key management see nothing but the recipient's header.
MutFold(h, protected) == [err |-> nil, hdr |-> h]

\* With a single recipient the protected parameters are folded in; its own
\* "kid" wins, any other parameter may stand in one place only.
fold(h, protected) ==
    IF \E n \in Name \ {"kid"} : Has(h, n) /\ Has(protected, n)
    THEN [err |-> "ErrInvalidHeader", hdr |-> NoHeader]
    ELSE [err |-> nil, hdr |-> copyHeader(protected, h)]

\* One iteration of the loop: the recipient's header and encrypted key, and
\* the CEK they share from then on.
encryptRecipient(r, count, enc, protected, cek, fresh) ==
    LET withHeader(p, folded) ==
            IF folded.err # nil THEN noKey(folded.err)
            ELSE encryptKey(p.alg, enc, p.key, folded.hdr, cek, fresh)
        readable(own) == IF count = 1 THEN fold(own, protected) ELSE [err |-> nil, hdr |-> own]
        prepared(p) ==
            IF p.err # nil THEN noKey(p.err)
            ELSE IF derivesCEK(p.alg) /\ count > 1 THEN noKey("ErrUnsupportedAlgorithm")
            ELSE withHeader(p, readable(recipientHeader(r, p.alg, protected)))
    IN  prepared(prepare(r.Key, r.KeyID, r.Algorithm, enc))

\* The mutant checks neither "crit" nor repeated parameters.
MutFinishErr(protected, unprotected, entries) == nil

\* The checks between the loop and the content encryption.
finishErr(protected, unprotected, entries) ==
    LET bad == {i \in 1..Len(entries) :
                  mergeThree(protected, unprotected, entries[i].header).err # nil}
    IN  firstErr(checkCriticalProduced(protected),
                 IF bad # {} THEN "ErrInvalidHeader" ELSE nil)

\* encoding/json on the finished document.
toJSON(doc) ==
    [doc EXCEPT !.unprotected = JSON(@),
                !.recipients = [i \in DOMAIN @ |->
                                  entry(JSON(@[i].header), @[i].encrypted_key)]]
marshals(doc) ==
    /\ Marshals(doc.unprotected)
    /\ \A i \in DOMAIN doc.recipients : Marshals(doc.recipients[i].header)

\* What follows the loop.
finish(c, protected, cek, entries) ==
    LET aad == EncodeSegment(c.opts.AAD)
        emit(doc) == IF ~marshals(doc) THEN notMade("json")
                     ELSE [err |-> nil, doc |-> toJSON(doc)]
        withContent(sealed) ==
            orNotMade(sealed.err,
                emit([NoDoc EXCEPT !.form = "general",
                        !.protected = sealed.content.protected,
                        !.unprotected = c.opts.Unprotected, !.recipients = entries,
                        !.aad = aad, !.content = sealed.content]))
    IN  orNotMade(finishErr(protected, c.opts.Unprotected, entries),
                  withContent(seal(c.plaintext, protected, chooseEnc(c.opts), cek, aad)))

-----------------------------------------------------------------------------
(* decryptOne and the decryption calls.                                    *)

Results == [err : JWEErrors, plaintext : Bodies, header : Headers]
failed(e) == [err |-> e, plaintext |-> Body(""), header |-> NoHeader]
orFailed(e, result) == IF e # nil THEN failed(e) ELSE result

MaxDecompressedSize == 16777216

maybeInflate(header, body, opts) ==
    LET limit == IF opts.MaxDecompressed <= 0 THEN MaxDecompressedSize
                 ELSE opts.MaxDecompressed
    IN  IF ~Has(header, "zip") THEN [err |-> nil, body |-> body]
        ELSE IF header["zip"] # Str("DEF") THEN [err |-> "ErrInvalidHeader", body |-> Body("")]
        ELSE inflate(body, limit)

\* The checks on "alg", "enc", the options and the key's restrictions.
permitErr(header, alg, enc, key, opts) ==
    IF alg = "" THEN "ErrInvalidHeader"
    ELSE IF opts.Algorithms # <<>> /\ ~containsString(opts.Algorithms, alg)
         THEN "ErrDecryptFailed"
    ELSE IF enc = "" THEN "ErrInvalidHeader"
    ELSE IF opts.Encryptions # <<>> /\ ~containsString(opts.Encryptions, enc)
         THEN "ErrDecryptFailed"
    ELSE firstErr(lookupKeyMgmt(alg),
         firstErr(lookupEnc(enc),
                  checkJWKUsage(key, KeyID(header), "enc", {alg, enc},
                                {"decrypt", "unwrapKey", "deriveKey"})))

decryptOne(header, ek, doc, key, opts) ==
    LET read(out) ==
            orFailed(out.err, [err |-> nil, plaintext |-> out.body, header |-> header])
        withCEK(enc, cek) ==
            IF cek.err # nil THEN failed(cek.err)
            ELSE IF cek.cek.size # contentEncs[enc].keySize THEN failed("ErrDecryptFailed")
            ELSE orFailed(decryptContent(enc, cek.cek, doc.content, doc.parts,
                                         doc.protected, doc.aad),
                          read(maybeInflate(header, doc.content.body, opts)))
        withKey(alg, enc, resolved) ==
            orFailed(resolved.err,
                     withCEK(enc, decryptKey(alg, enc, resolved.key, header, ek)))
        with(alg, enc) ==
            orFailed(permitErr(header, alg, enc, key, opts),
                     withKey(alg, enc, resolveKey(key, KeyID(header))))
    IN  with(Algorithm(header), HeaderString(header, "enc"))

partsErr(doc) ==
    IF "notb64" \in {doc.parts.iv, doc.parts.ciphertext, doc.parts.tag} THEN "ErrMalformed"
    ELSE nil

\* The mutant leaves "crit" to the JSON serializations.
MutDecryptWithOptions(doc, key, opts) ==
    LET ek == doc.recipients[1].encrypted_key
        with(decoded) ==
            IF decoded.err # nil THEN failed(decoded.err)
            ELSE IF ek.form = "notb64" THEN failed("ErrMalformed")
            ELSE orFailed(partsErr(doc), decryptOne(decoded.hdr, ek, doc, key, opts))
    IN  IF doc.form # "compact" THEN failed("ErrMalformed")
        ELSE with(decodeHeader(doc.protected))

DecryptWithOptions(doc, key, opts) ==
    LET ek == doc.recipients[1].encrypted_key
        segmentsErr == IF ek.form = "notb64" THEN "ErrMalformed" ELSE partsErr(doc)
        with(decoded) ==
            IF decoded.err # nil THEN failed(decoded.err)
            ELSE orFailed(firstErr(checkCritical(decoded.hdr, opts.KnownCritical), segmentsErr),
                          decryptOne(decoded.hdr, ek, doc, key, opts))
    IN  IF doc.form # "compact" THEN failed("ErrMalformed")
        ELSE with(decodeHeader(doc.protected))

protectedOf(doc) ==
    IF doc.protected.form = "" THEN [err |-> nil, hdr |-> NoHeader]
    ELSE decodeHeader(doc.protected)

\* The checks DecryptJSONWithOptions makes before its loop.
jsonErr(doc) ==
    IF doc.form \in {"broken", "mixed"} THEN "ErrMalformed"
    ELSE firstErr(protectedOf(doc).err,
         firstErr(partsErr(doc),
                  IF DecodeSegment(doc.aad).err # nil THEN "ErrMalformed" ELSE nil))

\* A document without "recipients" is read as flattened.
recipientsOf(doc) ==
    IF doc.recipients = <<>> THEN <<entry(NoHeader, NoKey)>> ELSE doc.recipients

\* The "kid" recipientOrder goes by: the last of the three headers wins.
effectiveKid(doc, r) ==
    LET firstOf(own, next) == IF own # "" THEN own ELSE next
    IN  firstOf(KeyID(r.header), firstOf(KeyID(doc.unprotected), KeyID(protectedOf(doc).hdr)))

wantKid(key) == IF key.kind = "*JWK" THEN key.keys[1].kid ELSE ""

\* The loop of recipientOrder: the first k recipients, parted into those with
\* this "kid" and the others.
parted(doc, kid) ==
    LET entries == recipientsOf(doc)
        after[k \in 0..Len(entries)] ==
            IF k = 0 THEN [first |-> <<>>, rest |-> <<>>]
            ELSE IF effectiveKid(doc, entries[k]) = kid
            THEN [after[k - 1] EXCEPT !.first = Append(@, k)]
            ELSE [after[k - 1] EXCEPT !.rest = Append(@, k)]
    IN  after[Len(entries)]

documentOrder(doc) == [i \in 1..Len(recipientsOf(doc)) |-> i]

\* The mutant gives up the others once a "kid" matches.
MutRecipientOrder(doc, key) ==
    LET first == parted(doc, wantKid(key)).first
    IN  IF wantKid(key) = "" \/ first = <<>> THEN documentOrder(doc) ELSE first

\* The mutant takes them as they stand in the document.
MutDocumentOrder(doc, key) == documentOrder(doc)

recipientOrder(doc, key) ==
    LET joined(p) == p.first \o p.rest
    IN  IF wantKid(key) = "" THEN documentOrder(doc) ELSE joined(parted(doc, wantKid(key)))

\* The mutant takes "zip" from wherever it stands.
MutUnprotectedZip(doc, r) == FALSE

unprotectedZip(doc, r) == Has(doc.unprotected, "zip") \/ Has(r.header, "zip")

\* One iteration of the loop.
decryptRecipient(doc, r, key, opts) ==
    LET withMerged(merged, crit) ==
            orFailed(firstErr(merged.err, crit),
                IF r.encrypted_key.form = "notb64" THEN failed("ErrMalformed")
                ELSE decryptOne(merged.hdr, r.encrypted_key, doc, key, opts))
        with(protected) == withMerged(mergeThree(protected, doc.unprotected, r.header),
                                      checkCritical(protected, opts.KnownCritical))
    IN  IF unprotectedZip(doc, r) THEN failed("ErrInvalidHeader")
        ELSE with(protectedOf(doc).hdr)

-----------------------------------------------------------------------------
(* State.                                                                  *)

VARIABLES
    encrypting,  \* the locals of an EncryptJSONMulti call; no recipients: no call
    wire,        \* the document, as it was made, by which call, and how often changed
    decrypting,  \* the locals and the result of a decryption call
    sealed,      \* every content encrypted so far, and the call that did it
    drawn        \* how much of Random is used up

vars == <<encrypting, wire, decrypting, sealed, drawn>>

NoCall == [plaintext |-> "", recipients |-> <<>>,
           opts |-> [Algorithm |-> "", Encryption |-> "", KeyID |-> "",
                     Header |-> NoHeader, AdditionalHeaders |-> NoHeader,
                     Unprotected |-> NoHeader, AAD |-> Empty, Compress |-> FALSE]]
NoEncrypting == [call |-> NoCall, protected |-> NoHeader, cek |-> NoSecret, out |-> <<>>]
NoWire       == [doc |-> NoDoc, made |-> NoDoc, call |-> NoCall, edits |-> 0]

\* phase: idle, running (in DecryptJSONWithOptions' loop, about to try
\* order[i], with result.err as lastErr) or done (result is what was returned).
Decrypting(r) == [phase |-> "idle", key |-> r.key, opts |-> r.opts, order |-> <<>>,
                  i |-> 0, result |-> failed(nil)]
NoDecrypting  == Decrypting(CHOOSE r \in Readers : TRUE)

Seals == [content : Contents, entries : Seq(Entries), call : Call]

TypeOK ==
    /\ encrypting \in [call : Call, protected : Headers, cek : Secrets, out : Seq(Entries)]
    /\ wire \in [doc : Docs, made : Docs, call : Call, edits : Nat]
    /\ decrypting \in [phase : {"idle", "running", "done"}, key : KeyArgs,
                       opts : DecryptOptions, order : Seq(Nat), i : Nat, result : Results]
    /\ sealed \subseteq Seals
    /\ drawn \in 0..Len(Random)

Init ==
    /\ encrypting = NoEncrypting
    /\ wire = NoWire
    /\ decrypting = NoDecrypting
    /\ sealed = {}
    /\ drawn = 0

Idle == encrypting.call.recipients = <<>> /\ decrypting.phase = "idle"

\* The call c may still be made; it draws a CEK and something per recipient.
MayMake(c) ==
    /\ Cardinality(sealed) < MaxSealed
    /\ drawn + 1 + Len(c.recipients) <= Len(Random)
fresh(k) == [cek |-> Random[drawn + 1], own |-> Random[drawn + 1 + k]]

\* A call returns a document.
Emit(doc, c) ==
    /\ wire' = [doc |-> doc, made |-> doc, call |-> c, edits |-> 0]
    /\ sealed' = sealed \cup {[content |-> doc.content, entries |-> doc.recipients,
                               call |-> c]}
    /\ drawn' = drawn + 1 + Len(c.recipients)
    /\ UNCHANGED decrypting

-----------------------------------------------------------------------------
(* The producer.  A call that fails returns an error and nothing else.     *)

\* A call that Encrypt and EncryptJSON can make, too.
SingleCall(c) ==
    LET r == c.recipients[1]
    IN  /\ Len(c.recipients) = 1
        /\ r.Algorithm = c.opts.Algorithm /\ r.KeyID = c.opts.KeyID
        /\ r.Header = NoHeader

EncryptCompact ==
    /\ Idle
    /\ \E c \in Calls :
         /\ MayMake(c) /\ SingleCall(c)
         /\ \E r \in {Encrypt(c.plaintext, c.recipients[1].Key, c.opts, fresh(1))} :
              r.err = nil /\ Emit(r.doc, c)
    /\ UNCHANGED encrypting

StartEncryptJSONMulti ==
    /\ Idle
    /\ \E c \in Calls :
         /\ MayMake(c) /\ multiErr(c) = nil
         /\ encrypting' = [NoEncrypting EXCEPT !.call = c, !.protected = sharedHeader(c)]
    /\ UNCHANGED <<wire, decrypting, sealed, drawn>>

\* The call's locals after recipient k gave r.
nextEncrypting(e, r) ==
    IF r.err # nil THEN NoEncrypting
    ELSE IF Len(e.call.recipients) = 1
    THEN [e EXCEPT !.cek = r.cek, !.protected = r.header, !.out = <<entry(NoHeader, r.key)>>]
    ELSE [e EXCEPT !.cek = r.cek, !.out = Append(@, entry(r.header, r.key))]

EncryptNext ==
    LET c == encrypting.call
        k == Len(encrypting.out) + 1
    IN  /\ k <= Len(c.recipients)
        /\ encrypting' =
             nextEncrypting(encrypting,
                encryptRecipient(c.recipients[k], Len(c.recipients), chooseEnc(c.opts),
                                 encrypting.protected, encrypting.cek, fresh(k)))
        /\ UNCHANGED <<wire, decrypting, sealed, drawn>>

EncryptReturn ==
    LET c == encrypting.call
    IN  /\ c.recipients # <<>>
        /\ Len(encrypting.out) = Len(c.recipients)
        /\ \E r \in {finish(c, encrypting.protected, encrypting.cek, encrypting.out)} :
             IF r.err = nil THEN Emit(r.doc, c)
             ELSE UNCHANGED <<wire, decrypting, sealed, drawn>>
        /\ encrypting' = NoEncrypting

-----------------------------------------------------------------------------
(* The way from producer to consumer: anything may change except that no   *)
(* one makes ciphertext or an encrypted key without a secret.              *)

Edit(doc) ==
    /\ Idle
    /\ wire.doc.form \notin {"none", "broken"}
    /\ wire.edits < MaxEdits
    /\ wire' = [wire EXCEPT !.doc = doc, !.edits = @ + 1]
    /\ UNCHANGED <<encrypting, decrypting, sealed, drawn>>

EditEntry(i, e) == Edit([wire.doc EXCEPT !.recipients[i] = e])

EditHeader ==
    /\ wire.doc.form # "compact"
    /\ \E c \in HeaderEdits :
         \/ Edit([wire.doc EXCEPT !.unprotected = With(@, c.name, c.value)])
         \/ \E i \in 1..Len(wire.doc.recipients) :
              Edit([wire.doc EXCEPT !.recipients[i].header = With(@, c.name, c.value)])

EditProtected ==
    \E p \in ProtectedEdits \cup {Seg("respelled", wire.doc.protected.hdr)} :
        Edit([wire.doc EXCEPT !.protected = p])

EditKey ==
    \E i \in 1..Len(wire.doc.recipients), form \in {"", "b64", "notb64"} :
        EditEntry(i, entry(wire.doc.recipients[i].header, [form |-> form, key |-> Junk]))

EditContent ==
    \E part \in {"iv", "ciphertext", "tag"}, form \in PartForm \ {"made"} :
        Edit([wire.doc EXCEPT !.parts[part] = form])

EditAAD ==
    /\ wire.doc.form # "compact"
    /\ \E a \in AADEdits : Edit([wire.doc EXCEPT !.aad = a])

\* A recipient, or only its encrypted key, taken from another document.
SpliceEntry ==
    \E i \in 1..Len(wire.doc.recipients), s \in sealed : \E e \in 1..Len(s.entries) :
        \/ EditEntry(i, entry(wire.doc.recipients[i].header, s.entries[e].encrypted_key))
        \/ wire.doc.form # "compact" /\ EditEntry(i, s.entries[e])

\* Ciphertext, "iv" and "tag" of another document, alone or with all that
\* its tag covers.
SpliceContent ==
    \E s \in sealed :
        \/ Edit([wire.doc EXCEPT !.content = s.content, !.parts = AsMade])
        \/ Edit([wire.doc EXCEPT !.content = s.content, !.parts = AsMade,
                                 !.protected = s.content.protected,
                                 !.aad = IF wire.doc.form = "compact" THEN Empty
                                         ELSE s.content.aad])

\* Recipients dropped, repeated or put in another order.
Rearrange ==
    /\ wire.doc.form = "general"
    /\ \E n \in 0..MaxEntries : \E f \in [1..n -> 1..Len(wire.doc.recipients)] :
         Edit([wire.doc EXCEPT !.recipients = [k \in 1..n |-> wire.doc.recipients[f[k]]]])

\* A document for one recipient moves between the serializations that can
\* hold it.
Reserialize ==
    /\ Len(wire.doc.recipients) = 1
    /\ \E form \in {"compact", "general", "flattened"} \ {wire.doc.form} :
         /\ form = "compact" => /\ wire.doc.recipients[1].header = NoHeader
                                /\ wire.doc.unprotected = NoHeader
                                /\ wire.doc.aad = Empty
         /\ Edit([wire.doc EXCEPT !.form = form])

\* Top-level flattened members added to "recipients"; octets lost.
Mangle ==
    \/ wire.doc.form = "general" /\ wire.doc.recipients # <<>>
       /\ Edit([wire.doc EXCEPT !.form = "mixed"])
    \/ Edit([wire.doc EXCEPT !.form = "broken"])

Transit == \/ EditHeader \/ EditProtected \/ EditKey \/ EditContent \/ EditAAD
           \/ SpliceEntry \/ SpliceContent \/ Rearrange \/ Reserialize \/ Mangle

-----------------------------------------------------------------------------
(* The consumer calls the function for the serialization it holds: given   *)
(* the other one, each only fails to parse it.                             *)

Decrypt ==
    /\ Idle
    /\ wire.doc.form \in {"compact", "broken"}
    /\ \E r \in Readers :
         decrypting' = [Decrypting(r) EXCEPT !.phase = "done",
                          !.result = DecryptWithOptions(wire.doc, r.key, r.opts)]
    /\ UNCHANGED <<encrypting, wire, sealed, drawn>>

StartDecryptJSON ==
    /\ Idle
    /\ wire.doc.form \notin {"none", "compact"}
    /\ \E r \in Readers :
         decrypting' =
            IF jsonErr(wire.doc) # nil
            THEN [Decrypting(r) EXCEPT !.phase = "done",
                                       !.result = failed(jsonErr(wire.doc))]
            ELSE [Decrypting(r) EXCEPT !.phase = "running", !.i = 1,
                                       !.order = recipientOrder(wire.doc, r.key),
                                       !.result = failed("ErrDecryptFailed")]
    /\ UNCHANGED <<encrypting, wire, sealed, drawn>>

\* The mutant returns the first error instead of going on.
MutNextDecrypting(d, r) == [d EXCEPT !.phase = "done", !.result = r]

\* The mutant tries again from the start when no recipient was decrypted.
MutEndlessDecrypting(d, r) ==
    IF r.err = nil THEN [d EXCEPT !.phase = "done", !.result = r]
    ELSE [d EXCEPT !.i = IF @ = Len(d.order) THEN 1 ELSE @ + 1, !.result = r]

\* The loop's locals after recipient order[i] gave r.
nextDecrypting(d, r) ==
    IF r.err = nil \/ d.i = Len(d.order) THEN [d EXCEPT !.phase = "done", !.result = r]
    ELSE [d EXCEPT !.i = @ + 1, !.result = r]

DecryptNext ==
    /\ decrypting.phase = "running"
    /\ decrypting' = nextDecrypting(decrypting,
                         decryptRecipient(wire.doc,
                            recipientsOf(wire.doc)[decrypting.order[decrypting.i]],
                            decrypting.key, decrypting.opts))
    /\ UNCHANGED <<encrypting, wire, sealed, drawn>>

\* The caller has seen what its call returned.
ResultSeen ==
    /\ decrypting.phase = "done"
    /\ decrypting' = NoDecrypting
    /\ UNCHANGED <<encrypting, wire, sealed, drawn>>

-----------------------------------------------------------------------------

Next == \/ EncryptCompact \/ StartEncryptJSONMulti \/ EncryptNext \/ EncryptReturn
        \/ Transit
        \/ Decrypt \/ StartDecryptJSON \/ DecryptNext \/ ResultSeen

\* The loops run to their end once a call is made; no caller must call.  These
\* are weak fairness with its ENABLED written out, which TLC would evaluate by
\* encrypting and decrypting the document several times over.
Fairness ==
    /\ \/ []<>(encrypting.call.recipients = <<>>)
       \/ []<><<EncryptNext \/ EncryptReturn>>_vars
    /\ []<>(decrypting.phase # "running") \/ []<><<DecryptNext>>_vars

Spec == Init /\ [][Next]_vars /\ Fairness
=============================================================================

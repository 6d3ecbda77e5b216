---------------------------- MODULE JWEProperties ----------------------------
(***************************************************************************)
(* What makes the JWE implementation correct.                              *)
(***************************************************************************)
EXTENDS JWE

Accepted == decrypting.phase = "done" /\ decrypting.result.err = nil

\* The Go key an accepted recipient's CEK was recovered with.
UsedKey == resolveKey(decrypting.key, KeyID(decrypting.result.header)).key

\* The key pairs and secrets that call c encrypts to.
Addressed(c) ==
    {resolveKey(c.recipients[k].Key, c.recipients[k].KeyID).key.pair :
        k \in 1..Len(c.recipients)}

\* s sealed the plaintext returned under exactly these protected parameters.
Opened(s) ==
    /\ decrypting.result.plaintext = Body(s.call.plaintext)
    /\ \A n \in Name : Has(s.content.protected.hdr, n) =>
          decrypting.result.header[n] = s.content.protected.hdr[n]
    /\ s.content.aad = wire.doc.aad

(***************************************************************************)
(* Whatever happens to a document on its way, a decryption call that       *)
(* succeeds returns a plaintext that some call encrypted, as it was before *)
(* compression (neither the DEFLATE stream nor what octets nobody          *)
(* compressed expand to), with the protected parameters and the "aad" of   *)
(* that very call (decryptOne, jweAAD, "zip" from the protected header     *)
(* only).                                                                  *)
(***************************************************************************)
Authentic == Accepted => \E s \in sealed : Opened(s)

(***************************************************************************)
(* Only the holder of a key the producer encrypted to reads the plaintext, *)
(* even where recipients and their encrypted keys are moved from document  *)
(* to document and headers rewritten (encryptKey against decryptKey).      *)
(***************************************************************************)
OnlyAddressees ==
    Accepted => \E s \in sealed : Opened(s) /\ UsedKey.pair \in Addressed(s.call)

\* The parameters a call asks for in the protected header: with a single
\* recipient its own are folded in.
Asked(c) ==
    IF Len(c.recipients) = 1 THEN copyHeader(baseHeader(c.opts), c.recipients[1].Header)
    ELSE baseHeader(c.opts)

\* The extensions a call marks critical for all of its recipients.
Demands(c) == Critical(Asked(c))

(***************************************************************************)
(* A parameter that the producer listed in "crit" of the protected header  *)
(* is never accepted by a consumer that did not declare it understood, and *)
(* reaches the others with the producer's value, in both serializations    *)
(* (checkCriticalProduced and checkCritical).                              *)
(***************************************************************************)
CriticalHonoured ==
    Accepted => \E s \in sealed :
        /\ Opened(s)
        /\ \A k \in 1..Len(Demands(s.call)) :
              LET n == Demands(s.call)[k]
              IN  /\ containsString(decrypting.opts.KnownCritical, n)
                  /\ decrypting.result.header[n] = JSONValue(Asked(s.call)[n])

Permits(j, ops, algs) ==
    /\ j.use \in {"", "enc"}
    /\ j.alg \in {""} \cup algs
    /\ j.key_ops = {} \/ j.key_ops \cap ops # {}

\* Where key is a JWK or a set, the member with this key pair permits it.
PermittedBy(key, pair, ops, algs) ==
    key.kind \in {"*JWK", "*JWKSet"} =>
        \E k \in 1..Len(key.keys) :
            /\ key.keys[k].valid
            /\ key.keys[k].material.pair = pair
            /\ Permits(key.keys[k], ops, algs)

DecryptOps == {"decrypt", "unwrapKey", "deriveKey"}

\* The members recipient k of a document has in its three headers.
MergedOf(doc, k) ==
    copyHeader(copyHeader(protectedOf(doc).hdr, doc.unprotected), recipientsOf(doc)[k].header)
AlgsOf(h) == {Algorithm(h), HeaderString(h, "enc")}

(***************************************************************************)
(* No document is made for, and none read with, a JWK whose "use", "alg"   *)
(* or "key_ops" forbids it (checkJWKUsage against resolveKey, which select *)
(* a key independently, for every recipient of the loop).                  *)
(***************************************************************************)
KeyRestrictionsHonoured ==
    /\ wire.edits = 0 /\ Idle => \A k \in 1..Len(wire.call.recipients) :
          LET r == wire.call.recipients[k]
          IN  PermittedBy(r.Key, resolveKey(r.Key, r.KeyID).key.pair,
                          {"encrypt", "wrapKey", "deriveKey"}, AlgsOf(MergedOf(wire.doc, k)))
    /\ Accepted => PermittedBy(decrypting.key, UsedKey.pair, DecryptOps,
                               AlgsOf(decrypting.result.header))

-----------------------------------------------------------------------------
(* Producer and consumer agree.                                            *)

DecryptTypes(alg) ==
    CASE keyMgmts[alg].kind = "rsa"   -> {"*rsa.PrivateKey"}
      [] keyMgmts[alg].kind = "ecdh"  -> {"*ecdh.PrivateKey", "*ecdsa.PrivateKey"}
      [] keyMgmts[alg].kind = "pbes2" -> {"[]byte", "string"}
      [] OTHER -> {"[]byte"}

\* g is the decryption key to own under alg: the same secret or key pair, and
\* where a key is agreed on, on the same curve.
KeyTo(g, own, alg) ==
    /\ g.pair = own.pair
    /\ g.type \in DecryptTypes(alg)
    /\ g.size = "right"
    /\ keyMgmts[alg].kind = "ecdh" => g.crv = own.crv

\* The key that the call c encrypts to for its recipient k.
OwnKey(c, k) == resolveKey(c.recipients[k].Key, c.recipients[k].KeyID).key

\* The consumer holds the decryption key of recipient k: as a Go key, or in a
\* JWK or a set that resolves the document's "kid" to it and permits its use.
HoldsKeyOf(k) ==
    LET h     == MergedOf(wire.made, k)
        key   == decrypting.key
        at    == selectJWK(key, KeyID(h))
        is(g) == KeyTo(g, OwnKey(wire.call, k), Algorithm(h))
    IN  \/ key.kind = "go" /\ is(key.raw)
        \/ at # 0 /\ key.keys[at].valid /\ is(key.keys[at].material)
           /\ Permits(key.keys[at], DecryptOps, AlgsOf(h))

\* How many octets the consumer allows a plaintext to inflate to.
Limit == IF decrypting.opts.MaxDecompressed <= 0 THEN MaxDecompressedSize
         ELSE decrypting.opts.MaxDecompressed

\* The consumer's options do not refuse what the call made for recipient k.
ToleratesOptionsOf(k) ==
    LET o    == decrypting.opts
        h    == MergedOf(wire.made, k)
        crit == Critical(wire.made.protected.hdr)
    IN  /\ o.Algorithms = <<>> \/ containsString(o.Algorithms, Algorithm(h))
        /\ o.Encryptions = <<>> \/ containsString(o.Encryptions, HeaderString(h, "enc"))
        /\ \A i \in 1..Len(crit) : containsString(o.KnownCritical, crit[i])
        /\ Has(h, "zip") => TextSize[wire.call.plaintext] <= Limit

(***************************************************************************)
(* "This package must never emit a document it would itself refuse to      *)
(* read": a document that arrives unchanged is decrypted by every consumer *)
(* that holds the key of one of its recipients, understands its critical   *)
(* parameters and allows its size.  In this generality the code does not   *)
(* keep it.                                                                *)
(***************************************************************************)
EveryDocumentIsReadable ==
    (decrypting.phase = "done" /\ wire.edits = 0) =>
        \A k \in 1..Len(wire.call.recipients) :
            HoldsKeyOf(k) /\ ToleratesOptionsOf(k) =>
                /\ decrypting.result.err = nil
                /\ decrypting.result.plaintext = Body(wire.call.plaintext)

\* Key agreement inputs that stand where encryptKeyECDH does not look.
StrayPartyInfo(c) ==
    LET shared == baseHeader(c.opts)
    IN  \E n \in {"apu", "apv"} :
            \/ Has(c.opts.Unprotected, n)
            \/ Has(shared, n) /\ Len(c.recipients) > 1

\* A "zip" that asks for no compression and still stands in the header.
IdleZip(c) == LET h == baseHeader(c.opts) IN Has(h, "zip") /\ h["zip"] # Str("DEF")

(***************************************************************************)
(* The same promise where it holds: for every document but those with      *)
(* party info outside the header key agreement reads, and those with a     *)
(* "zip" that is not "DEF" (Encrypt and EncryptJSONMulti against           *)
(* DecryptWithOptions and DecryptJSONWithOptions: every algorithm, the     *)
(* bounds of "p2c" and "p2s", and the limit of inflation).                 *)
(***************************************************************************)
EmittedIsReadable ==
    StrayPartyInfo(wire.call) \/ IdleZip(wire.call) \/ EveryDocumentIsReadable

(***************************************************************************)
(* EncryptOptions.KeyID "is written to the protected 'kid' header".        *)
(* EncryptJSONMulti does not do so for several recipients.                 *)
(***************************************************************************)
KeyIDIsWritten ==
    (wire.edits = 0 /\ wire.call.opts.KeyID # "") =>
        KeyID(wire.doc.protected.hdr) = wire.call.opts.KeyID

\* What EncryptJSON makes of a call with one recipient.
encryptJSON(c, f) ==
    LET with(r) == orNotMade(r.err, finish(c, r.header, r.cek, <<entry(NoHeader, r.key)>>))
    IN  orNotMade(multiErr(c),
            with(encryptRecipient(c.recipients[1], 1, chooseEnc(c.opts), sharedHeader(c),
                                  NoSecret, f)))

\* The results of both for one call.
SameDocument(compact, general) ==
    /\ compact.err = nil /\ general.err = nil
    /\ general.doc = [compact.doc EXCEPT !.form = "general"]

(***************************************************************************)
(* "The algorithm reads its inputs from and writes its outputs into one    *)
(* header, exactly as the compact serialization does": Encrypt and         *)
(* EncryptJSON accept the same calls and make the same document, but for a *)
(* caller's own "alg", which the one overrides and the other refuses.      *)
(***************************************************************************)
ProducersAgree ==
    LET c == wire.call
        f == [cek |-> Random[drawn - 1], own |-> Random[drawn]]
    IN  (/\ wire.made.form # "none" /\ wire.edits = 0 /\ Idle /\ SingleCall(c)
         /\ c.opts.Unprotected = NoHeader /\ c.opts.AAD = Empty
         /\ ~Has(copyHeader(c.opts.Header, c.opts.AdditionalHeaders), "alg"))
        => SameDocument(Encrypt(c.plaintext, c.recipients[1].Key, c.opts, f), encryptJSON(c, f))

(***************************************************************************)
(* A document that the compact and the JSON serialization can both carry   *)
(* is read alike in both: accepted by both, with the same plaintext and    *)
(* header, or by neither, whatever was changed on its way                  *)
(* (DecryptWithOptions and DecryptJSONWithOptions check separately).       *)
(***************************************************************************)
ConsumersAgree ==
    LET doc        == [wire.doc EXCEPT !.form = "general"]
        alike(r)   == /\ decrypting.result.err = nil <=> r.err = nil
                      /\ r.err = nil => r = decrypting.result
    IN  (decrypting.phase = "done" /\ wire.doc.form = "compact") =>
            alike(orFailed(jsonErr(doc), decryptRecipient(doc, doc.recipients[1],
                                                          decrypting.key, decrypting.opts)))

-----------------------------------------------------------------------------
(* Failures.                                                               *)

\* The document is as it was made, but for octets of one recipient's
\* encrypted key, of the IV, the ciphertext or the tag.
OnlyOctetsChanged ==
    LET d == wire.doc  m == wire.made
    IN  /\ d.form = m.form /\ d.protected = m.protected /\ d.unprotected = m.unprotected
        /\ d.aad = m.aad
        /\ Len(d.recipients) = 1 /\ Len(m.recipients) = 1
        /\ d.recipients[1].header = m.recipients[1].header
        /\ partsErr(d) = nil
        /\ IF derivesCEK(Algorithm(MergedOf(m, 1)))
           THEN d.recipients[1].encrypted_key.form = ""
           ELSE /\ d.recipients[1].encrypted_key.form = "b64"
                /\ UnwrapLength(d.recipients[1].encrypted_key)

\* g has the type, the length and the curve that alg needs, as own has; any
\* password but the empty one will do.
Fits(g, own, alg) ==
    /\ g.type \in DecryptTypes(alg)
    /\ keyMgmts[alg].kind = "ecdh" => g.crv = own.crv
    /\ keyMgmts[alg].kind \in {"kw", "gcmkw", "dir"} => octets(g) = octets(own)
    /\ keyMgmts[alg].kind = "pbes2" => octets(g) # 0

FittingKey ==
    /\ decrypting.key.kind = "go"
    /\ Fits(decrypting.key.raw, OwnKey(wire.call, 1), Algorithm(MergedOf(wire.made, 1)))

(***************************************************************************)
(* "Every cryptographic failure (a wrong key, a corrupt tag, invalid       *)
(* padding) reports the same ErrDecryptFailed": from the error nobody      *)
(* learns which step of decryption failed (decryptKey of each kind,        *)
(* contentEnc.decrypt), the random CEK after bad RSA1_5 padding included.  *)
(* Documents the code cannot read in the first place are not meant, nor a  *)
(* consumer who allows less than some call has compressed.                 *)
(***************************************************************************)
UniformFailure ==
    (/\ decrypting.phase = "done" /\ OnlyOctetsChanged /\ FittingKey
     /\ ToleratesOptionsOf(1) /\ \A s \in sealed : TextSize[s.call.plaintext] <= Limit
     /\ ~StrayPartyInfo(wire.call) /\ ~IdleZip(wire.call))
    => decrypting.result.err \in {nil, "ErrDecryptFailed"}

-----------------------------------------------------------------------------
(* The loop over the recipients of a JSON document.                        *)

RecipientResult(i) ==
    decryptRecipient(wire.doc, recipientsOf(wire.doc)[i], decrypting.key, decrypting.opts)
Recipients == 1..Len(recipientsOf(wire.doc))
SomeRecipientDecrypts == \E i \in Recipients : RecipientResult(i).err = nil

JSONLoopDone ==
    decrypting.phase = "done" /\ wire.doc.form \notin {"none", "compact"} /\ jsonErr(wire.doc) = nil

(***************************************************************************)
(* A JSON document is decrypted exactly when some recipient would be on    *)
(* its own: no failure of another one, wherever it stands, and no "kid"    *)
(* that matches the wrong one hides it ("then fall back to trial           *)
(* decryption of the rest", recipientOrder and the loop).                  *)
(***************************************************************************)
OneGoodRecipientSuffices ==
    JSONLoopDone => (decrypting.result.err = nil <=> SomeRecipientDecrypts)

(***************************************************************************)
(* "The one whose 'kid' matches the supplied key is tried first": when a   *)
(* matching recipient can be decrypted, it is the result, wherever in the  *)
(* document it stands.                                                     *)
(***************************************************************************)
MatchingRecipientFirst ==
    LET matches(i) == effectiveKid(wire.doc, recipientsOf(wire.doc)[i]) = wantKid(decrypting.key)
        first(results) ==
            LET good == {i \in Recipients : matches(i) /\ results[i].err = nil}
            IN  good # {} => \E i \in good : /\ \A j \in good : i <= j
                                             /\ decrypting.result = results[i]
    IN  JSONLoopDone /\ wantKid(decrypting.key) # "" =>
            first([i \in Recipients |-> RecipientResult(i)])

(***************************************************************************)
(* A decryption call on a document with a good recipient ends by accepting *)
(* it.                                                                     *)
(***************************************************************************)
GoodRecipientIsFound ==
    (decrypting.phase = "running" /\ SomeRecipientDecrypts) ~> Accepted

(***************************************************************************)
(* Every call returns: EncryptJSONMulti after at most one pass over the    *)
(* recipients, DecryptJSONWithOptions after one pass over the order.       *)
(***************************************************************************)
CallsReturn ==
    /\ (encrypting.call.recipients # <<>>) ~> (encrypting.call.recipients = <<>>)
    /\ (decrypting.phase = "running") ~> (decrypting.phase = "done")

-----------------------------------------------------------------------------
(* Refinement: the whole exchange is a delivery of sealed messages.        *)

Members(h) == {<<n, h[n]>> : n \in {m \in Name : Has(h, m)}}

Message(s) == [readers |-> Addressed(s.call), plaintext |-> s.call.plaintext,
               members |-> Members(s.content.protected.hdr)]

Delivered == IF Accepted
             THEN {[reader |-> UsedKey.pair,
                    plaintext |-> decrypting.result.plaintext.text,
                    members |-> Members(decrypting.result.header)]}
             ELSE {}

Abstract == INSTANCE SealedDelivery WITH
                messages <- {Message(s) : s \in sealed}, delivered <- Delivered

(***************************************************************************)
(* jwe.go and jwe_json.go implement the abstract sealed channel: nothing   *)
(* is delivered but what was sealed, only to those it was sealed for, with *)
(* the protected parameters intact.                                        *)
(***************************************************************************)
ImplementsSealedDelivery == Abstract!Spec

-----------------------------------------------------------------------------
(* The inductive invariant behind Authentic, OnlyAddressees and            *)
(* CriticalHonoured.                                                       *)

\* The compact serialization has one recipient, and room for no other header
\* than the protected one.
WellFormed(doc) ==
    doc.form = "compact" => /\ Len(doc.recipients) = 1
                            /\ doc.recipients[1].header = NoHeader
                            /\ doc.unprotected = NoHeader
                            /\ doc.aad = Empty

\* w wraps cek, which was drawn at random, for an addressee of call c.
Carries(w, cek, c) == w.cek = cek /\ cek.from = "random" /\ w.kek.id \in Addressed(c)

\* cek is one of the first n random draws, or else an addressee's own secret.
CEKMade(cek, c, n) ==
    IF cek.from = "random" THEN \E i \in 1..n : cek.id = Random[i]
    ELSE cek.id \in Addressed(c)

BodyMade(s) ==
    LET h == s.content.protected.hdr
    IN  /\ ~Has(h, "zip") => s.content.body = Body(s.call.plaintext)
        /\ h["zip"] = Str("DEF") => s.content.body = deflate(s.call.plaintext)

\* The parameters "crit" can be about, and "crit" itself.
Extension(n) == n = "crit" \/ ~isRegisteredHeader(n)

\* What a call that returned a document has sealed.
SealMade(s) ==
    /\ s.content.protected.form = "json"
    /\ BodyMade(s)
    /\ CEKMade(s.content.cek, s.call, drawn)
    /\ \A n \in Name : Extension(n) =>
          s.content.protected.hdr[n] = JSONValue(Asked(s.call)[n])
    /\ \A e \in 1..Len(s.entries) :
          LET w == s.entries[e].encrypted_key.key
          IN  w # Junk => Carries(w, s.content.cek, s.call)

\* No CEK is drawn twice.
SealsDistinct ==
    \A s, t \in sealed :
        s.content.cek = t.content.cek /\ s.content.cek.from = "random" => s = t

\* What a call has made of its first recipients.
EncryptingMade ==
    LET c == encrypting.call
    IN  IF c.recipients = <<>> THEN encrypting = NoEncrypting
        ELSE /\ decrypting.phase = "idle"
             /\ lookupEnc(chooseEnc(c.opts)) = nil
             /\ drawn + 1 + Len(c.recipients) <= Len(Random)
             /\ IF encrypting.out = <<>> THEN encrypting.cek = NoSecret
                ELSE IF encrypting.cek.from = "random"
                THEN encrypting.cek.id = Random[drawn + 1]
                ELSE Len(c.recipients) = 1 /\ encrypting.cek.id \in Addressed(c)
             /\ IF encrypting.out = <<>> \/ Len(c.recipients) # 1
                THEN encrypting.protected = sharedHeader(c)
                ELSE \A n \in Name : Extension(n) => encrypting.protected[n] = Asked(c)[n]
             /\ \A k \in 1..Len(encrypting.out) :
                   LET w == encrypting.out[k].encrypted_key.key
                   IN  w # Junk => Carries(w, encrypting.cek, c)

\* Ciphertext and encrypted keys come from calls, wherever they stand.
WireSealed ==
    /\ wire.doc.content = NoContent \/ \E s \in sealed : wire.doc.content = s.content
    /\ \A i \in 1..Len(wire.doc.recipients) :
          LET w == wire.doc.recipients[i].encrypted_key.key
          IN  w # Junk => \E s \in sealed : Carries(w, s.content.cek, s.call)

LoopInRange ==
    decrypting.phase = "running" =>
        /\ decrypting.i \in 1..Len(decrypting.order)
        /\ \A p \in 1..Len(decrypting.order) : decrypting.order[p] \in Recipients

\* Authentic, OnlyAddressees and the consumer's half of CriticalHonoured are
\* about one and the same call.
Vouched ==
    Accepted => \E s \in sealed :
        /\ Opened(s)
        /\ UsedKey.pair \in Addressed(s.call)
        /\ checkCritical(s.content.protected.hdr, decrypting.opts.KnownCritical) = nil

(***************************************************************************)
(* Each call draws a CEK of its own and wraps it for its addressees only,  *)
(* and no change on the way makes a key or ciphertext that no call made:   *)
(* so the key that opens a document names the call it came from.           *)
(***************************************************************************)
IInv == /\ TypeOK
        /\ WellFormed(wire.doc)
        /\ \A s \in sealed : SealMade(s)
        /\ SealsDistinct
        /\ EncryptingMade
        /\ WireSealed
        /\ LoopInRange
        /\ Vouched

-----------------------------------------------------------------------------
(* The invariant behind OneGoodRecipientSuffices and                       *)
(* MatchingRecipientFirst.                                                 *)

\* The loop over the recipients has tried, in order, those before order[p].
Tried(p) ==
    LET order == recipientOrder(wire.doc, decrypting.key)
    IN  /\ p \in 1..Len(order)
        /\ \A q \in 1..(p - 1) : RecipientResult(order[q]).err # nil

(***************************************************************************)
(* DecryptJSONWithOptions goes on to the next recipient only after one     *)
(* failed, and what it returns is the first success or the last failure.   *)
(***************************************************************************)
LoopInv ==
    LET order == recipientOrder(wire.doc, decrypting.key)
    IN  /\ decrypting.phase = "running" =>
              /\ wire.doc.form \notin {"none", "compact"} /\ jsonErr(wire.doc) = nil
              /\ decrypting.order = order
              /\ Tried(decrypting.i)
        /\ JSONLoopDone =>
              \E p \in 1..Len(order) :
                 /\ Tried(p)
                 /\ decrypting.result = RecipientResult(order[p])
                 /\ decrypting.result.err = nil \/ p = Len(order)

(***************************************************************************)
(* The invariant behind ConsumersAgree and KeyRestrictionsHonoured: where  *)
(* no loop ran, what the consumer was returned is what DecryptWithOptions, *)
(* or the checks before the loop, make of the document it still holds.     *)
(***************************************************************************)
Returned ==
    decrypting.phase = "done" =>
        /\ wire.doc.form # "none"
        /\ IF wire.doc.form = "compact"
           THEN decrypting.result =
                   DecryptWithOptions(wire.doc, decrypting.key, decrypting.opts)
           ELSE jsonErr(wire.doc) # nil => decrypting.result = failed(jsonErr(wire.doc))

-----------------------------------------------------------------------------
(* The invariant behind KeyRestrictionsHonoured and ProducersAgree.        *)

\* fresh(k) of a call that draws from place d of Random on.
Draws(d, k) == [cek |-> Random[d + 1], own |-> Random[d + 1 + k]]

\* What such a call makes of its recipient k: the first one's CEK is given to
\* the others.
RecipientOf(c, d, k) ==
    LET of(i, cek) == encryptRecipient(c.recipients[i], Len(c.recipients), chooseEnc(c.opts),
                                       sharedHeader(c), cek, Draws(d, i))
    IN  IF k = 1 THEN of(1, NoSecret) ELSE of(k, of(1, NoSecret).cek)

\* EncryptJSONMulti's locals after the first n recipients.
Locals(c, d, n) ==
    LET single == Len(c.recipients) = 1
        r(k)   == RecipientOf(c, d, k)
    IN  [call      |-> c,
         protected |-> IF single /\ n = 1 THEN r(1).header ELSE sharedHeader(c),
         cek       |-> IF n = 0 THEN NoSecret ELSE r(1).cek,
         out       |-> [k \in 1..n |-> entry(IF single THEN NoHeader ELSE r(k).header,
                                             r(k).key)]]

\* Its loop has got through the first n recipients.
Looped(c, d, n) == multiErr(c) = nil /\ \A k \in 1..n : RecipientOf(c, d, k).err = nil

\* Encrypt, or EncryptJSONMulti with its loop run to the end, makes doc of c.
MadeBy(doc, c, d) ==
    LET n       == Len(c.recipients)
        l       == Locals(c, d, n)
        from(r) == r.err = nil /\ doc = r.doc
    IN  \/ /\ SingleCall(c)
           /\ from(Encrypt(c.plaintext, c.recipients[1].Key, c.opts, Draws(d, 1)))
        \/ Looped(c, d, n) /\ from(finish(c, l.protected, l.cek, l.out))

(***************************************************************************)
(* EncryptJSONMulti's loop is under way at what its first iterations make  *)
(* of the call and nothing else; the document last made, which is the one  *)
(* in transit until somebody changes it, is what one of the producer's     *)
(* functions makes of its call and of the octets it drew.                  *)
(***************************************************************************)
MadeInv ==
    /\ LET c == encrypting.call
           n == Len(encrypting.out)
       IN  c.recipients # <<>> =>
              encrypting = Locals(c, drawn, n) /\ Looped(c, drawn, n)
    /\ LET c == wire.call
           d == drawn - 1 - Len(c.recipients)
       IN  IF c.recipients = <<>> THEN wire.made = NoDoc
           ELSE d \in Nat /\ MadeBy(wire.made, c, d)
    /\ wire.edits = 0 => wire.doc = wire.made
=============================================================================

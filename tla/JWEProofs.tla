----------------------------- MODULE JWEProofs -----------------------------
(***************************************************************************)
(* What holds of the JWE calls for every value of the constants: the       *)
(* inductive invariant, the theorems about its parts, and the refinement   *)
(* of SealedDelivery.                                                      *)
(***************************************************************************)
EXTENDS JWELemmas

-----------------------------------------------------------------------------
(* Initial states, and the parts of a step.                                *)

EncryptingLocals == [call : Call, protected : Headers, cek : Secrets, out : Seq(Entries)]
DecryptingLocals == [phase : {"idle", "running", "done"}, key : KeyArgs,
                     opts : DecryptOptions, order : Seq(Nat), i : Nat, result : Results]
Wires == [doc : Docs, made : Docs, call : Call, edits : Nat]

\* The call that no one makes.
LEMMA NoCallType == NoCall \in Call /\ NoCall.recipients = <<>>
<1>1. "" \in Text /\ "" \in Symbol
  BY TextAssumption, SymbolAssumption
<1>2. NoCall.opts \in EncryptOptions
  BY <1>1, NoHeaderType, EmptyType DEF NoCall, EncryptOptions
<1>3. NoCall = [plaintext |-> "", opts |-> NoCall.opts, recipients |-> <<>>]
  BY Zenon DEF NoCall
<1>4. ASSUME NEW t \in Text, NEW o \in EncryptOptions
      PROVE  [plaintext |-> t, opts |-> o, recipients |-> <<>>] \in Call
  BY DEF Call
<1>5. NoCall \in Call
  <2> HIDE DEF NoCall
  <2> QED BY <1>1, <1>2, <1>3, <1>4, Zenon
<1>6. NoCall.recipients = <<>>
  BY DEF NoCall
<1> QED BY <1>5, <1>6

\* The state outside EncryptJSONMulti.
LEMMA NoEncryptingType ==
  /\ NoEncrypting \in EncryptingLocals
  /\ NoEncrypting.call = NoCall /\ NoEncrypting.call.recipients = <<>>
  /\ NoEncrypting.out = <<>> /\ NoEncrypting.cek = NoSecret
<1> HIDE DEF NoCall, NoHeader, NoSecret
<1>1. NoEncrypting \in EncryptingLocals
  BY NoCallType, NoHeaderType, NoSecretType DEF NoEncrypting, EncryptingLocals
<1> QED BY <1>1, NoCallType DEF NoEncrypting

\* A decryption call that has not begun is well typed and holds no result.
LEMMA DecryptingType ==
  ASSUME NEW r \in Readers
  PROVE  /\ r.key \in KeyArgs /\ r.opts \in DecryptOptions
         /\ Decrypting(r) \in DecryptingLocals /\ Decrypting(r).phase = "idle"
         /\ Decrypting(r) = [phase |-> "idle", key |-> r.key, opts |-> r.opts,
                             order |-> <<>>, i |-> 0, result |-> failed(nil)]
<1>1. r.key \in KeyArgs /\ r.opts \in DecryptOptions
  BY JWEAssumption DEF Reader
<1>2. failed(nil) \in Results
  BY JWEErrorTypes, FailedType
<1> QED BY <1>1, <1>2 DEF Decrypting, DecryptingLocals

\* The state before any decryption call.
LEMMA NoDecryptingType == NoDecrypting \in DecryptingLocals /\ NoDecrypting.phase = "idle"
<1> DEFINE r == CHOOSE w \in Readers : TRUE
<1>1. r \in Readers
  BY JWEAssumption
<1>2. NoDecrypting = Decrypting(r)
  BY DEF NoDecrypting
<1> HIDE DEF r
<1> QED BY <1>1, <1>2, DecryptingType

\* The octets the random source yields.
LEMMA RandomType ==
  /\ Len(Random) \in Nat
  /\ \A i \in 1..Len(Random) : Random[i] \in DOMAIN SegLen /\ Random[i] # ""
<1> DEFINE S == DOMAIN SegLen \ {""}
<1>1. Random \in Seq(S)
  BY JWEAssumption
<1>2. ASSUME NEW x \in S PROVE x \in DOMAIN SegLen /\ x # ""
  OBVIOUS
<1> HIDE DEF S
<1>3. Len(Random) \in Nat /\ \A i \in 1..Len(Random) : Random[i] \in S
  BY <1>1
<1> QED BY <1>2, <1>3

LEMMA RandomLen == Len(Random) \in Nat
  BY RandomType

\* What a call draws at random.
LEMMA FreshType ==
  ASSUME drawn \in Nat, NEW k \in Nat \ {0}, drawn + 1 + k <= Len(Random)
  PROVE  /\ fresh(k).cek = Random[drawn + 1]
         /\ fresh(k).cek \in Symbol /\ fresh(k).own \in Symbol
         /\ fresh(k).cek # ""
<1>1. drawn + 1 \in 1..Len(Random) /\ drawn + 1 + k \in 1..Len(Random)
  BY RandomLen
<1>2. /\ Random[drawn + 1] \in Symbol /\ Random[drawn + 1] # ""
      /\ Random[drawn + 1 + k] \in Symbol
  BY <1>1, RandomType, SegTexts
<1> QED BY <1>2 DEF fresh

\* A key that is junk, or that a call wrapped for one of its addressees.
SealedKey(w) == w # Junk => \E s \in sealed : Carries(w, s.content.cek, s.call)

\* A document of which no one but a call made ciphertext or a key.
SealedDoc(doc) ==
    /\ doc.content = NoContent \/ \E s \in sealed : doc.content = s.content
    /\ \A i \in 1..Len(doc.recipients) : SealedKey(doc.recipients[i].encrypted_key.key)

\* Before any call there is nothing to vouch for.
LEMMA InitIInv == Init => IInv
<1> SUFFICES ASSUME Init PROVE IInv
  OBVIOUS
<1>1. NoWire \in Wires
  <2> HIDE DEF NoDoc, NoCall
  <2> QED BY NoDocType, NoCallType DEF NoWire, Wires
<1>2. TypeOK
  BY <1>1, NoEncryptingType, NoDecryptingType
     DEF Init, TypeOK, EncryptingLocals, DecryptingLocals, Wires
<1>3. wire.doc = NoDoc
  BY DEF Init, NoWire
<1>4. WellFormed(wire.doc) /\ WireSealed
  BY <1>3, NoDocType DEF WellFormed, WireSealed
<1>5. (\A s \in sealed : SealMade(s)) /\ SealsDistinct
  BY DEF Init, SealsDistinct
<1>6. EncryptingMade
  BY NoEncryptingType DEF Init, EncryptingMade
<1>7. LoopInRange /\ Vouched
  BY NoDecryptingType DEF Init, LoopInRange, Vouched, Accepted
<1> QED BY <1>2, <1>4, <1>5, <1>6, <1>7 DEF IInv

\* What is sealed stays as it was made when more random octets are drawn.
LEMMA SealMadeLater ==
  ASSUME NEW s, SealMade(s), drawn \in Nat, drawn' \in Nat, drawn <= drawn'
  PROVE  SealMade(s)'
<1>1. CEKMade(s.content.cek, s.call, drawn')
  <2>1. CEKMade(s.content.cek, s.call, drawn)
    BY DEF SealMade
  <2>2. ASSUME NEW i \in 1..drawn PROVE i \in 1..drawn'
    OBVIOUS
  <2> QED BY <2>1, <2>2 DEF CEKMade
<1> QED BY <1>1 DEF SealMade

(***************************************************************************)
(* A call that returns a document keeps the invariant, if it sealed the    *)
(* content itself, under a CEK of its own.                                 *)
(***************************************************************************)
LEMMA EmitKeeps ==
  ASSUME IInv, NEW c \in Call, NEW doc, MadeDoc(doc, c, Random[drawn + 1]),
         drawn + 1 + Len(c.recipients) <= Len(Random),
         decrypting.phase = "idle", encrypting' = NoEncrypting, Emit(doc, c)
  PROVE  IInv'
<1> DEFINE n == [content |-> doc.content, entries |-> doc.recipients, call |-> c]
<1>1. /\ wire' = [doc |-> doc, made |-> doc, call |-> c, edits |-> 0]
      /\ sealed' = sealed \cup {n}
      /\ drawn' = drawn + 1 + Len(c.recipients)
      /\ decrypting' = decrypting
  BY DEF Emit
<1>2. drawn \in Nat /\ Len(c.recipients) \in Nat /\ Len(Random) \in Nat
  <2>1. c.recipients \in Seq(Recipient)
    BY DEF Call
  <2>2. drawn \in 0..Len(Random)
    BY DEF IInv, TypeOK
  <2> QED BY <2>1, <2>2, RandomLen
<1>3. drawn' \in 0..Len(Random) /\ drawn' \in Nat /\ drawn <= drawn' /\ drawn + 1 \in 1..drawn'
  <2>1. ASSUME NEW d \in Nat, NEW m \in Nat, NEW r \in Nat, NEW e, e = d + 1 + m, e <= r
        PROVE  e \in 0..r /\ e \in Nat /\ d <= e /\ d + 1 \in 1..e
    BY <2>1
  <2>2. drawn' <= Len(Random)
    BY <1>1
  <2> QED BY <1>1, <1>2, <2>1, <2>2
<1>4. doc \in Docs /\ WellFormed(doc)
  BY DEF MadeDoc
<1>5. n \in Seals /\ n.content = doc.content /\ n.call = c /\ n.entries = doc.recipients
  BY <1>4 DEF Docs, Seals
<1>6. wire'.doc = doc /\ wire' \in Wires
  BY <1>1, <1>4 DEF Wires
<1>7. SealMade(n)'
  <2>1. CEKMade(doc.content.cek, c, drawn')
    BY <1>3 DEF MadeDoc, CEKMade
  <2> QED BY <1>5, <2>1 DEF MadeDoc, SealMade
<1> HIDE DEF n
<1>8. \A s \in sealed' : SealMade(s)'
  <2>1. ASSUME NEW s \in sealed PROVE SealMade(s)'
    BY <1>2, <1>3, SealMadeLater DEF IInv
  <2> QED BY <1>1, <1>7, <2>1
<1>9. TypeOK'
  BY <1>1, <1>3, <1>5, <1>6, NoEncryptingType
     DEF IInv, TypeOK, Wires, EncryptingLocals
<1>10. SealsDistinct'
  <2>1. ASSUME NEW s \in sealed, s.content.cek = n.content.cek, n.content.cek.from = "random"
        PROVE  FALSE
    <3>1. n.content.cek.id = Random[drawn + 1]
      BY <1>5, <2>1 DEF MadeDoc
    <3>2. PICK i \in 1..drawn : s.content.cek.id = Random[i]
      BY <2>1 DEF IInv, SealMade, CEKMade
    <3>3. i \in 1..Len(Random) /\ drawn + 1 \in 1..Len(Random) /\ i # drawn + 1
      BY <1>2, <1>3
    <3> QED BY <2>1, <3>1, <3>2, <3>3, JWEAssumption
  <2>2. SealsDistinct
    BY DEF IInv
  <2> QED BY <1>1, <2>1, <2>2 DEF SealsDistinct
<1>11. WireSealed'
  <2>1. n \in sealed'
    BY <1>1
  <2> QED BY <1>5, <1>6, <2>1 DEF WireSealed, MadeDoc
<1>12. EncryptingMade'
  BY NoEncryptingType DEF EncryptingMade
<1>13. WellFormed(wire.doc)'
  BY <1>4, <1>6
<1>14. LoopInRange' /\ Vouched'
  BY <1>1 DEF LoopInRange, Vouched, Accepted
<1> QED BY <1>8, <1>9, <1>10, <1>11, <1>12, <1>13, <1>14 DEF IInv

\* Every change on the way is one of the document alone.
LEMMA TransitEdits == ASSUME Transit PROVE \E doc : Edit(doc)
<1>1. ASSUME NEW i, NEW e, EditEntry(i, e) PROVE \E doc : Edit(doc)
  BY <1>1, Zenon DEF EditEntry
<1>2. CASE EditHeader \/ EditProtected \/ EditContent \/ EditAAD
  BY <1>2, ZenonT(30) DEF EditHeader, EditProtected, EditContent, EditAAD
<1>3. CASE EditKey \/ SpliceEntry
  BY <1>1, <1>3, ZenonT(30) DEF EditKey, SpliceEntry
<1>4. CASE SpliceContent \/ Rearrange \/ Reserialize \/ Mangle
  BY <1>4, ZenonT(30) DEF SpliceContent, Rearrange, Reserialize, Mangle
<1> QED BY <1>2, <1>3, <1>4 DEF Transit

(***************************************************************************)
(* A change on the way keeps the invariant, if what it brings in is junk   *)
(* or was made by a call.                                                  *)
(***************************************************************************)
LEMMA EditKeeps ==
  ASSUME IInv, NEW doc \in Docs, WellFormed(doc), SealedDoc(doc), Edit(doc)
  PROVE  IInv'
<1>1. /\ wire' = [wire EXCEPT !.doc = doc, !.edits = @ + 1]
      /\ decrypting' = decrypting /\ decrypting.phase = "idle"
      /\ encrypting' = encrypting /\ sealed' = sealed /\ drawn' = drawn
  BY DEF Edit, Idle
<1>2. wire'.doc = doc /\ wire' \in Wires
  <2>1. wire \in Wires
    BY DEF IInv, TypeOK, Wires
  <2>2. wire.edits + 1 \in Nat
    BY <2>1 DEF Wires
  <2> QED BY <1>1, <2>1, <2>2 DEF Wires
<1>3. TypeOK'
  BY <1>1, <1>2 DEF IInv, TypeOK, Wires
<1>4. WireSealed'
  BY <1>1, <1>2 DEF WireSealed, SealedDoc, SealedKey
<1>5. (\A s \in sealed : SealMade(s))' /\ SealsDistinct'
  BY <1>1 DEF IInv, SealMade, SealsDistinct
<1>6. EncryptingMade'
  BY <1>1 DEF IInv, EncryptingMade
<1>7. WellFormed(wire.doc)'
  BY <1>2
<1>8. LoopInRange' /\ Vouched'
  BY <1>1 DEF LoopInRange, Vouched, Accepted
<1> QED BY <1>3, <1>4, <1>5, <1>6, <1>7, <1>8 DEF IInv

-----------------------------------------------------------------------------
(* The changes on the way.                                                 *)

\* The document in transit.
LEMMA DocFacts ==
  ASSUME IInv
  PROVE  /\ wire.doc \in Docs /\ WellFormed(wire.doc) /\ SealedDoc(wire.doc)
         /\ wire.doc.recipients \in Seq(Entries) /\ Len(wire.doc.recipients) \in Nat
<1>1. wire.doc \in Docs
  BY DEF IInv, TypeOK
<1>2. WellFormed(wire.doc) /\ SealedDoc(wire.doc)
  BY DEF IInv, WireSealed, SealedDoc, SealedKey
<1>3. wire.doc.recipients \in Seq(Entries)
  BY <1>1 DEF Docs
<1>4. ASSUME NEW seq \in Seq(Entries) PROVE Len(seq) \in Nat
  OBVIOUS
<1> QED BY <1>1, <1>2, <1>3, <1>4

\* A recipient of a compact document has no header of its own.
LEMMA CompactHeader ==
  ASSUME IInv, NEW i \in 1..Len(wire.doc.recipients)
  PROVE  /\ wire.doc.recipients[i] \in Entries
         /\ wire.doc.form = "compact" => wire.doc.recipients[i].header = NoHeader
<1>1. wire.doc.recipients[i] \in Entries
  BY DocFacts
<1>2. CASE wire.doc.form = "compact"
  <2>1. Len(wire.doc.recipients) = 1 /\ wire.doc.recipients[1].header = NoHeader
    BY <1>2, DocFacts DEF WellFormed
  <2>2. i = 1
    BY <2>1
  <2> QED BY <1>1, <2>1, <2>2
<1> QED BY <1>1, <1>2

\* d with other members around the same ciphertext and recipients.
Rewrapped(doc, d) ==
    /\ doc \in Docs
    /\ doc.content = d.content /\ doc.recipients = d.recipients

\* Such a change keeps the invariant.
LEMMA RewrapKeeps ==
  ASSUME IInv, NEW doc, Rewrapped(doc, wire.doc), WellFormed(doc), Edit(doc)
  PROVE  IInv'
<1>1. doc \in Docs /\ SealedDoc(doc)
  BY DocFacts DEF Rewrapped, SealedDoc
<1> QED BY <1>1, EditKeeps

\* d with other recipients.
Readdressed(doc, d, entries) ==
    /\ doc \in Docs /\ doc.recipients = entries
    /\ doc.form = d.form /\ doc.content = d.content
    /\ doc.unprotected = d.unprotected /\ doc.aad = d.aad

\* Assigning one field of a document.
LEMMA DocExcept ==
  ASSUME NEW d \in Docs
  PROVE  /\ \A f \in DocForm : Rewrapped([d EXCEPT !.form = f], d)
                              /\ [d EXCEPT !.form = f].form = f
                              /\ [d EXCEPT !.form = f].unprotected = d.unprotected
                              /\ [d EXCEPT !.form = f].aad = d.aad
         /\ \A p \in ProtectedSegs : Rewrapped([d EXCEPT !.protected = p], d)
                              /\ [d EXCEPT !.protected = p].form = d.form
                              /\ [d EXCEPT !.protected = p].unprotected = d.unprotected
                              /\ [d EXCEPT !.protected = p].aad = d.aad
         /\ \A u \in Headers : Rewrapped([d EXCEPT !.unprotected = u], d)
                              /\ [d EXCEPT !.unprotected = u].form = d.form
         /\ \A a \in Octets : Rewrapped([d EXCEPT !.aad = a], d)
                              /\ [d EXCEPT !.aad = a].form = d.form
         /\ \A p \in Parts : Rewrapped([d EXCEPT !.parts = p], d)
                              /\ [d EXCEPT !.parts = p].form = d.form
                              /\ [d EXCEPT !.parts = p].unprotected = d.unprotected
                              /\ [d EXCEPT !.parts = p].aad = d.aad
         /\ \A entries \in Seq(Entries) :
               Readdressed([d EXCEPT !.recipients = entries], d, entries)
<1>1. \A f \in DocForm : Rewrapped([d EXCEPT !.form = f], d)
                         /\ [d EXCEPT !.form = f].form = f
                         /\ [d EXCEPT !.form = f].unprotected = d.unprotected
                         /\ [d EXCEPT !.form = f].aad = d.aad
  BY DEF Docs, Rewrapped
<1>2. \A p \in ProtectedSegs : Rewrapped([d EXCEPT !.protected = p], d)
                         /\ [d EXCEPT !.protected = p].form = d.form
                         /\ [d EXCEPT !.protected = p].unprotected = d.unprotected
                         /\ [d EXCEPT !.protected = p].aad = d.aad
  BY DEF Docs, Rewrapped
<1>3. \A u \in Headers : Rewrapped([d EXCEPT !.unprotected = u], d)
                         /\ [d EXCEPT !.unprotected = u].form = d.form
  BY DEF Docs, Rewrapped
<1>4. \A a \in Octets : Rewrapped([d EXCEPT !.aad = a], d)
                        /\ [d EXCEPT !.aad = a].form = d.form
  BY DEF Docs, Rewrapped
<1>5. \A p \in Parts : Rewrapped([d EXCEPT !.parts = p], d)
                         /\ [d EXCEPT !.parts = p].form = d.form
                         /\ [d EXCEPT !.parts = p].unprotected = d.unprotected
                         /\ [d EXCEPT !.parts = p].aad = d.aad
  BY DEF Docs, Rewrapped
<1>6. \A entries \in Seq(Entries) :
         Readdressed([d EXCEPT !.recipients = entries], d, entries)
  BY DEF Docs, Readdressed
<1> QED BY <1>1, <1>2, <1>3, <1>4, <1>5, <1>6

\* Other recipients keep the invariant, if each of their keys was sealed.
LEMMA ReaddressKeeps ==
  ASSUME IInv, NEW entries \in Seq(Entries),
         \A k \in 1..Len(entries) : SealedKey(entries[k].encrypted_key.key),
         wire.doc.form = "compact" => Len(entries) = 1 /\ entries[1].header = NoHeader,
         NEW doc, Readdressed(doc, wire.doc, entries), Edit(doc)
  PROVE  IInv'
<1>1. doc \in Docs /\ SealedDoc(doc)
  BY DocFacts DEF Readdressed, SealedDoc
<1>2. WellFormed(doc)
  BY DocFacts DEF Readdressed, WellFormed
<1> QED BY <1>1, <1>2, EditKeeps

\* Replacing one recipient, or a part of it.
LEMMA EntryExcept ==
  ASSUME NEW d \in Docs, NEW i \in 1..Len(d.recipients), NEW e
  PROVE  [d EXCEPT !.recipients[i] = e] =
            [d EXCEPT !.recipients = [d.recipients EXCEPT ![i] = e]]
  BY DEF Docs

LEMMA HeaderExcept ==
  ASSUME NEW e \in Entries, NEW h
  PROVE  [e EXCEPT !.header = h] = entry(h, e.encrypted_key)
  BY DEF Entries, entry

\* The parts of a recipient.
LEMMA EntryParts ==
  /\ \A e \in Entries : e.header \in Headers /\ e.encrypted_key \in EncryptedKeys
  /\ \A h \in Headers, ek \in EncryptedKeys :
        /\ entry(h, ek) \in Entries
        /\ entry(h, ek).header = h /\ entry(h, ek).encrypted_key = ek
  BY DEF Entries, entry

\* Replacing one recipient by one whose key was sealed.
LEMMA EditEntryKeeps ==
  ASSUME IInv, NEW i \in 1..Len(wire.doc.recipients), NEW e \in Entries,
         SealedKey(e.encrypted_key.key),
         wire.doc.form = "compact" => e.header = NoHeader,
         EditEntry(i, e)
  PROVE  IInv'
<1> DEFINE entries == [wire.doc.recipients EXCEPT ![i] = e]
           doc     == [wire.doc EXCEPT !.recipients = entries]
<1>1. /\ entries \in Seq(Entries) /\ Len(entries) = Len(wire.doc.recipients)
      /\ \A j \in 1..Len(entries) : entries[j] = IF j = i THEN e ELSE wire.doc.recipients[j]
  BY DocFacts
<1>2. Edit(doc)
  <2>1. [wire.doc EXCEPT !.recipients[i] = e] = doc
    BY DocFacts, EntryExcept, Zenon
  <2> QED BY <2>1, Zenon DEF EditEntry
<1> HIDE DEF entries
<1>3. Readdressed(doc, wire.doc, entries)
  BY <1>1, DocFacts, DocExcept
<1>4. \A k \in 1..Len(entries) : SealedKey(entries[k].encrypted_key.key)
  BY <1>1, DocFacts DEF SealedDoc
<1>5. wire.doc.form = "compact" => Len(entries) = 1 /\ entries[1].header = NoHeader
  BY <1>1, DocFacts DEF WellFormed
<1> HIDE DEF doc
<1> QED BY <1>1, <1>2, <1>3, <1>4, <1>5, ReaddressKeeps

\* Editing an unprotected header keeps the invariant.
LEMMA EditHeaderKeeps == ASSUME IInv, EditHeader PROVE IInv'
<1>1. PICK c \in HeaderEdits :
         \/ Edit([wire.doc EXCEPT !.unprotected = With(@, c.name, c.value)])
         \/ \E i \in 1..Len(wire.doc.recipients) :
              Edit([wire.doc EXCEPT !.recipients[i].header = With(@, c.name, c.value)])
  BY DEF EditHeader
<1>2. c.value \in Value /\ wire.doc.form # "compact"
  BY JWEAssumption DEF EditHeader
<1>3. CASE Edit([wire.doc EXCEPT !.unprotected = With(@, c.name, c.value)])
  <2> DEFINE u == With(wire.doc.unprotected, c.name, c.value)
             doc == [wire.doc EXCEPT !.unprotected = u]
  <2>1. wire.doc.unprotected \in Headers
    BY DocFacts DEF Docs
  <2>2. u \in Headers
    BY <1>2, <2>1, WithType
  <2>3. Edit(doc)
    BY <1>3, Zenon
  <2> HIDE DEF u
  <2>4. Rewrapped(doc, wire.doc) /\ doc.form = wire.doc.form
    BY <2>2, DocFacts, DocExcept, Zenon
  <2> HIDE DEF doc
  <2>5. WellFormed(doc)
    BY <1>2, <2>4 DEF WellFormed
  <2> QED BY <2>3, <2>4, <2>5, RewrapKeeps
<1>4. ASSUME NEW i \in 1..Len(wire.doc.recipients),
             Edit([wire.doc EXCEPT !.recipients[i].header = With(@, c.name, c.value)])
      PROVE  IInv'
  <2> DEFINE r == wire.doc.recipients[i]
             e == entry(With(r.header, c.name, c.value), r.encrypted_key)
  <2>1. r \in Entries /\ SealedKey(r.encrypted_key.key)
    BY DocFacts DEF SealedDoc
  <2>2. EditEntry(i, e)
    <3>1. [r EXCEPT !.header = With(@, c.name, c.value)] = e
      <4> HIDE DEF r
      <4> QED BY <2>1, HeaderExcept
    <3> HIDE DEF e
    <3> QED BY <1>4, <3>1, Zenon DEF EditEntry
  <2> HIDE DEF r
  <2>3. e \in Entries /\ e.encrypted_key = r.encrypted_key
    BY <1>2, <2>1, EntryParts, WithType
  <2> HIDE DEF e
  <2> QED BY <1>2, <2>1, <2>2, <2>3, EditEntryKeeps
<1> QED BY <1>1, <1>3, <1>4

\* Editing the protected segment keeps the invariant.
LEMMA EditProtectedKeeps == ASSUME IInv, EditProtected PROVE IInv'
<1>1. PICK p \in ProtectedEdits \cup {Seg("respelled", wire.doc.protected.hdr)} :
         Edit([wire.doc EXCEPT !.protected = p])
  BY DEF EditProtected
<1> DEFINE doc == [wire.doc EXCEPT !.protected = p]
<1>2. wire.doc.protected.hdr \in Headers
  BY DocFacts DEF Docs, ProtectedSegs
<1>3. Seg("respelled", wire.doc.protected.hdr) \in ProtectedSegs
  BY <1>2, SegType DEF SegForm
<1>4. p \in ProtectedSegs
  BY <1>3, JWEAssumption
<1>5. /\ Rewrapped(doc, wire.doc) /\ doc.form = wire.doc.form
      /\ doc.unprotected = wire.doc.unprotected /\ doc.aad = wire.doc.aad
  BY <1>4, DocFacts, DocExcept, Zenon
<1>6. Edit(doc)
  BY <1>1
<1> HIDE DEF doc
<1>7. WellFormed(doc)
  BY <1>5, DocFacts DEF WellFormed, Rewrapped
<1> QED BY <1>5, <1>6, <1>7, RewrapKeeps

\* Junk in place of an encrypted key keeps the invariant.
LEMMA EditKeyKeeps == ASSUME IInv, EditKey PROVE IInv'
<1>1. PICK i \in 1..Len(wire.doc.recipients), form \in {"", "b64", "notb64"} :
        EditEntry(i, entry(wire.doc.recipients[i].header, [form |-> form, key |-> Junk]))
  BY DEF EditKey
<1> DEFINE r  == wire.doc.recipients[i]
           ek == [form |-> form, key |-> Junk]
           e  == entry(r.header, ek)
<1>2. r \in Entries /\ (wire.doc.form = "compact" => r.header = NoHeader)
  BY CompactHeader
<1>3. ek \in EncryptedKeys /\ ek.key = Junk
  BY JunkType DEF EncryptedKeys
<1>4. EditEntry(i, e)
  BY <1>1, Zenon
<1> HIDE DEF r, ek
<1>5. e \in Entries /\ e.encrypted_key = ek /\ e.header = r.header
  BY <1>2, <1>3, EntryParts
<1> HIDE DEF e
<1>6. SealedKey(e.encrypted_key.key)
  BY <1>3, <1>5 DEF SealedKey
<1> QED BY <1>2, <1>4, <1>5, <1>6, EditEntryKeeps

\* Changed octets of the ciphertext, the IV or the tag keep the invariant.
LEMMA EditContentKeeps == ASSUME IInv, EditContent PROVE IInv'
<1>1. PICK part \in {"iv", "ciphertext", "tag"}, form \in PartForm \ {"made"} :
        Edit([wire.doc EXCEPT !.parts[part] = form])
  BY DEF EditContent
<1> DEFINE parts == [wire.doc.parts EXCEPT ![part] = form]
           doc   == [wire.doc EXCEPT !.parts = parts]
<1>2. wire.doc.parts \in Parts
  BY DocFacts DEF Docs
<1>3. ASSUME NEW p \in Parts PROVE [p EXCEPT ![part] = form] \in Parts
  BY DEF Parts
<1>4. parts \in Parts
  BY <1>2, <1>3
<1>5. Edit(doc)
  BY <1>1, Zenon
<1> HIDE DEF parts
<1>6. /\ Rewrapped(doc, wire.doc) /\ doc.form = wire.doc.form
      /\ doc.unprotected = wire.doc.unprotected /\ doc.aad = wire.doc.aad
  BY <1>4, DocFacts, DocExcept, Zenon
<1> HIDE DEF doc
<1>7. WellFormed(doc)
  BY <1>6, DocFacts DEF WellFormed, Rewrapped
<1> QED BY <1>5, <1>6, <1>7, RewrapKeeps

\* Another "aad" keeps the invariant.
LEMMA EditAADKeeps == ASSUME IInv, EditAAD PROVE IInv'
<1>1. PICK a \in AADEdits : Edit([wire.doc EXCEPT !.aad = a])
  BY DEF EditAAD
<1>2. a \in Octets /\ wire.doc.form # "compact"
  BY JWEAssumption DEF EditAAD
<1> DEFINE doc == [wire.doc EXCEPT !.aad = a]
<1>3. Rewrapped(doc, wire.doc) /\ doc.form = wire.doc.form
  BY <1>2, DocFacts, DocExcept, Zenon
<1>4. Edit(doc)
  BY <1>1
<1> HIDE DEF doc
<1>5. WellFormed(doc)
  BY <1>2, <1>3 DEF WellFormed
<1> QED BY <1>3, <1>4, <1>5, RewrapKeeps

\* What a call sealed.
LEMMA SealFacts ==
  ASSUME IInv, NEW s \in sealed
  PROVE  /\ s.content \in Contents /\ s.call \in Call
         /\ s.content.protected \in ProtectedSegs /\ s.content.aad \in Octets
         /\ s.entries \in Seq(Entries)
         /\ \A e \in 1..Len(s.entries) :
               s.entries[e] \in Entries /\ SealedKey(s.entries[e].encrypted_key.key)
<1>1. s.content \in Contents /\ s.call \in Call /\ s.entries \in Seq(Entries)
  BY DEF IInv, TypeOK, Seals
<1>2. s.content.protected \in ProtectedSegs /\ s.content.aad \in Octets
  BY <1>1 DEF Contents
<1>3. ASSUME NEW e \in 1..Len(s.entries)
      PROVE  s.entries[e] \in Entries /\ SealedKey(s.entries[e].encrypted_key.key)
  <2>1. SealMade(s)
    BY DEF IInv
  <2> QED BY <1>1, <2>1 DEF SealMade, SealedKey
<1> QED BY <1>1, <1>2, <1>3

\* A recipient of another document keeps the invariant.
LEMMA SpliceEntryKeeps == ASSUME IInv, SpliceEntry PROVE IInv'
<1>1. PICK i \in 1..Len(wire.doc.recipients), s \in sealed : \E e \in 1..Len(s.entries) :
        \/ EditEntry(i, entry(wire.doc.recipients[i].header, s.entries[e].encrypted_key))
        \/ wire.doc.form # "compact" /\ EditEntry(i, s.entries[e])
  BY DEF SpliceEntry
<1>2. PICK e \in 1..Len(s.entries) :
        \/ EditEntry(i, entry(wire.doc.recipients[i].header, s.entries[e].encrypted_key))
        \/ wire.doc.form # "compact" /\ EditEntry(i, s.entries[e])
  BY <1>1
<1>3. s.entries[e] \in Entries /\ SealedKey(s.entries[e].encrypted_key.key)
  BY SealFacts
<1>4. CASE EditEntry(i, entry(wire.doc.recipients[i].header, s.entries[e].encrypted_key))
  <2> DEFINE r == wire.doc.recipients[i]
             f == entry(r.header, s.entries[e].encrypted_key)
  <2>1. r \in Entries /\ (wire.doc.form = "compact" => r.header = NoHeader)
    BY CompactHeader
  <2>2. EditEntry(i, f)
    BY <1>4
  <2> HIDE DEF r
  <2>3. f \in Entries /\ f.encrypted_key = s.entries[e].encrypted_key /\ f.header = r.header
    BY <1>3, <2>1, EntryParts
  <2> HIDE DEF f
  <2> QED BY <1>3, <2>1, <2>2, <2>3, EditEntryKeeps
<1>5. CASE wire.doc.form # "compact" /\ EditEntry(i, s.entries[e])
  BY <1>3, <1>5, EditEntryKeeps
<1> QED BY <1>2, <1>4, <1>5

\* d with the ciphertext c and the "aad" a.
Spliced(doc, d, c, a) ==
    /\ doc \in Docs /\ doc.content = c /\ doc.aad = a
    /\ doc.recipients = d.recipients
    /\ doc.form = d.form /\ doc.unprotected = d.unprotected

\* Replacing the ciphertext, alone or with what its tag covers.
LEMMA ContentExcept ==
  ASSUME NEW d \in Docs, NEW c \in Contents, NEW p \in ProtectedSegs, NEW a \in Octets
  PROVE  /\ Spliced([d EXCEPT !.content = c, !.parts = AsMade], d, c, d.aad)
         /\ Spliced([d EXCEPT !.content = c, !.parts = AsMade, !.protected = p, !.aad = a],
                    d, c, a)
<1>1. AsMade \in Parts
  BY DEF AsMade, Parts, PartForm
<1> HIDE DEF AsMade
<1>2. Spliced([d EXCEPT !.content = c, !.parts = AsMade], d, c, d.aad)
  BY <1>1 DEF Docs, Spliced
<1>3. Spliced([d EXCEPT !.content = c, !.parts = AsMade, !.protected = p, !.aad = a], d, c, a)
  BY <1>1 DEF Docs, Spliced
<1> QED BY <1>2, <1>3

\* Ciphertext of another document keeps the invariant.
LEMMA SpliceContentKeeps == ASSUME IInv, SpliceContent PROVE IInv'
<1>1. PICK s \in sealed :
        \/ Edit([wire.doc EXCEPT !.content = s.content, !.parts = AsMade])
        \/ Edit([wire.doc EXCEPT !.content = s.content, !.parts = AsMade,
                                 !.protected = s.content.protected,
                                 !.aad = IF wire.doc.form = "compact" THEN Empty
                                         ELSE s.content.aad])
  BY DEF SpliceContent
<1> DEFINE a == IF wire.doc.form = "compact" THEN Empty ELSE s.content.aad
           x == [wire.doc EXCEPT !.content = s.content, !.parts = AsMade]
           y == [wire.doc EXCEPT !.content = s.content, !.parts = AsMade,
                                 !.protected = s.content.protected, !.aad = a]
<1>2. a \in Octets /\ (wire.doc.form = "compact" => a = Empty)
  BY SealFacts, EmptyType
<1>3. Edit(x) \/ Edit(y)
  BY <1>1, Zenon
<1> HIDE DEF a
<1>4. Spliced(x, wire.doc, s.content, wire.doc.aad) /\ Spliced(y, wire.doc, s.content, a)
  <2>1. wire.doc \in Docs /\ s.content \in Contents /\ s.content.protected \in ProtectedSegs
    BY DocFacts, SealFacts
  <2> QED BY <1>2, <2>1, ContentExcept
<1> HIDE DEF x, y
<1>5. SealedDoc(x) /\ SealedDoc(y)
  BY <1>4, DocFacts DEF SealedDoc, Spliced
<1>6. WellFormed(x) /\ WellFormed(y)
  BY <1>2, <1>4, DocFacts DEF WellFormed, Spliced
<1>7. x \in Docs /\ y \in Docs
  BY <1>4 DEF Spliced
<1> QED BY <1>3, <1>5, <1>6, <1>7, EditKeeps

\* Rearranged recipients are recipients of the document.
LEMMA RearrangeKeeps == ASSUME IInv, Rearrange PROVE IInv'
<1>1. PICK n \in 0..MaxEntries : \E f \in [1..n -> 1..Len(wire.doc.recipients)] :
        Edit([wire.doc EXCEPT !.recipients = [k \in 1..n |-> wire.doc.recipients[f[k]]]])
  BY DEF Rearrange
<1>2. PICK f \in [1..n -> 1..Len(wire.doc.recipients)] :
        Edit([wire.doc EXCEPT !.recipients = [k \in 1..n |-> wire.doc.recipients[f[k]]]])
  BY <1>1
<1> DEFINE entries == [k \in 1..n |-> wire.doc.recipients[f[k]]]
           doc     == [wire.doc EXCEPT !.recipients = entries]
<1>3. n \in Nat
  <2>1. MaxEntries \in Nat
    BY JWEAssumption
  <2>2. ASSUME NEW m \in Nat, NEW k \in 0..m PROVE k \in Nat
    OBVIOUS
  <2> QED BY <2>1, <2>2
<1>4. /\ entries \in Seq(Entries) /\ Len(entries) = n
      /\ \A k \in 1..n : entries[k] = wire.doc.recipients[f[k]] /\ f[k] \in 1..Len(wire.doc.recipients)
  BY <1>3, DocFacts
<1>5. Edit(doc)
  BY <1>2, Zenon
<1> HIDE DEF entries
<1>6. Readdressed(doc, wire.doc, entries)
  BY <1>4, DocFacts, DocExcept
<1>7. \A k \in 1..Len(entries) : SealedKey(entries[k].encrypted_key.key)
  BY <1>4, DocFacts DEF SealedDoc
<1>8. wire.doc.form # "compact"
  BY DEF Rearrange
<1> HIDE DEF doc
<1> QED BY <1>4, <1>5, <1>6, <1>7, <1>8, ReaddressKeeps

\* Another form of the document keeps the invariant.
LEMMA EditFormKeeps ==
  ASSUME IInv, NEW form \in DocForm,
         form = "compact" => WellFormed([wire.doc EXCEPT !.form = form]),
         Edit([wire.doc EXCEPT !.form = form])
  PROVE  IInv'
<1> DEFINE doc == [wire.doc EXCEPT !.form = form]
<1>1. Rewrapped(doc, wire.doc) /\ doc.form = form
  BY DocFacts, DocExcept, Zenon
<1>2. Edit(doc) /\ (form = "compact" => WellFormed(doc))
  OBVIOUS
<1> HIDE DEF doc
<1>3. WellFormed(doc)
  BY <1>1, <1>2 DEF WellFormed
<1> QED BY <1>1, <1>2, <1>3, RewrapKeeps

\* Another serialization keeps the invariant: the compact one has room for it.
LEMMA ReserializeKeeps == ASSUME IInv, Reserialize PROVE IInv'
<1>1. PICK form \in {"compact", "general", "flattened"} \ {wire.doc.form} :
         /\ form = "compact" => /\ wire.doc.recipients[1].header = NoHeader
                                /\ wire.doc.unprotected = NoHeader
                                /\ wire.doc.aad = Empty
         /\ Edit([wire.doc EXCEPT !.form = form])
  BY DEF Reserialize
<1> DEFINE doc == [wire.doc EXCEPT !.form = form]
<1>2. form \in DocForm
  BY DEF DocForm
<1>3. /\ Rewrapped(doc, wire.doc) /\ doc.form = form
      /\ doc.unprotected = wire.doc.unprotected /\ doc.aad = wire.doc.aad
  BY <1>2, DocFacts, DocExcept, Zenon
<1>4. Len(wire.doc.recipients) = 1
  BY DEF Reserialize
<1>5. form = "compact" => WellFormed(doc)
  <2> HIDE DEF doc
  <2> QED BY <1>1, <1>3, <1>4 DEF WellFormed, Rewrapped
<1> QED BY <1>1, <1>2, <1>5, EditFormKeeps

\* A broken document keeps what was sealed.
LEMMA MangleKeeps == ASSUME IInv, Mangle PROVE IInv'
<1>1. PICK form \in {"mixed", "broken"} : Edit([wire.doc EXCEPT !.form = form])
  BY DEF Mangle
<1>2. form \in DocForm /\ form # "compact"
  BY DEF DocForm
<1> QED BY <1>1, <1>2, EditFormKeeps

\* Every change on the way keeps the invariant.
LEMMA TransitKeeps == ASSUME IInv, Transit PROVE IInv'
  BY EditHeaderKeeps, EditProtectedKeeps, EditKeyKeeps, EditContentKeeps, EditAADKeeps,
     SpliceEntryKeeps, SpliceContentKeeps, RearrangeKeeps, ReserializeKeeps, MangleKeeps
     DEF Transit

-----------------------------------------------------------------------------
(* The producer's actions.                                                 *)

\* What the types say of the state.
LEMMA StateFacts ==
  ASSUME IInv
  PROVE  /\ encrypting \in EncryptingLocals /\ decrypting \in DecryptingLocals
         /\ encrypting.call \in Call /\ encrypting.protected \in Headers
         /\ encrypting.cek \in Secrets
         /\ encrypting.out \in Seq(Entries) /\ Len(encrypting.out) \in Nat
         /\ encrypting.call.recipients \in Seq(Recipient)
         /\ Len(encrypting.call.recipients) \in Nat
         /\ drawn \in Nat /\ drawn <= Len(Random)
<1>1. encrypting \in EncryptingLocals /\ decrypting \in DecryptingLocals
  BY DEF IInv, TypeOK, EncryptingLocals, DecryptingLocals
<1>2. /\ encrypting.call \in Call /\ encrypting.protected \in Headers
      /\ encrypting.cek \in Secrets /\ encrypting.out \in Seq(Entries)
  BY <1>1 DEF EncryptingLocals
<1>3. encrypting.call.recipients \in Seq(Recipient)
  BY <1>2 DEF Call
<1>4. drawn \in 0..Len(Random)
  BY DEF IInv, TypeOK
<1>5. drawn \in Nat /\ drawn <= Len(Random)
  BY <1>4, RandomLen
<1> QED BY <1>1, <1>2, <1>3, <1>5

\* Encrypt seals what it writes.
LEMMA EncryptCompactKeeps == ASSUME IInv, EncryptCompact PROVE IInv'
<1>1. PICK c \in Calls :
        /\ MayMake(c) /\ SingleCall(c)
        /\ \E r \in {Encrypt(c.plaintext, c.recipients[1].Key, c.opts, fresh(1))} :
             r.err = nil /\ Emit(r.doc, c)
  BY DEF EncryptCompact
<1> DEFINE r == Encrypt(c.plaintext, c.recipients[1].Key, c.opts, fresh(1))
<1>2. r.err = nil /\ Emit(r.doc, c)
  BY <1>1
<1>3. c \in Call
  BY JWEAssumption
<1>4. /\ Len(c.recipients) = 1 /\ drawn + 1 + Len(c.recipients) <= Len(Random)
      /\ drawn + 1 + 1 <= Len(Random)
  <2>1. Len(c.recipients) = 1 /\ drawn + 1 + Len(c.recipients) <= Len(Random)
    BY <1>1 DEF MayMake, SingleCall
  <2> QED BY <2>1
<1>5. fresh(1).cek = Random[drawn + 1] /\ fresh(1).cek \in Symbol /\ fresh(1).own \in Symbol
  <2>1. drawn \in Nat /\ 1 \in Nat \ {0}
    BY StateFacts
  <2> QED BY <1>4, <2>1, FreshType
<1>6. MadeDoc(r.doc, c, fresh(1).cek)
  BY <1>1, <1>2, <1>3, <1>5, EncryptMade
<1> HIDE DEF r
<1>7. decrypting.phase = "idle" /\ encrypting' = NoEncrypting
  BY DEF EncryptCompact, Idle, IInv, EncryptingMade
<1> QED BY <1>2, <1>3, <1>4, <1>5, <1>6, <1>7, EmitKeeps

\* A step of EncryptJSONMulti before its end keeps the invariant.
LEMMA EncryptingKeeps ==
  ASSUME IInv, NEW e \in EncryptingLocals, encrypting' = e,
         UNCHANGED <<wire, decrypting, sealed, drawn>>,
         EncryptingMade'
  PROVE  IInv'
<1>1. TypeOK'
  BY DEF IInv, TypeOK, EncryptingLocals
<1>2. WellFormed(wire.doc)' /\ WireSealed' /\ LoopInRange' /\ SealsDistinct'
  BY DEF IInv, WireSealed, LoopInRange, SealsDistinct, Recipients
<1>3. (\A s \in sealed : SealMade(s))'
  BY DEF IInv, SealMade
<1>4. Vouched'
  BY DEF IInv, Vouched, Accepted, Opened, UsedKey
<1> QED BY <1>1, <1>2, <1>3, <1>4 DEF IInv

\* EncryptJSONMulti starts with no CEK.
LEMMA StartEncryptKeeps == ASSUME IInv, StartEncryptJSONMulti PROVE IInv'
<1>1. PICK c \in Calls :
        /\ MayMake(c) /\ multiErr(c) = nil
        /\ encrypting' = [NoEncrypting EXCEPT !.call = c, !.protected = sharedHeader(c)]
  BY DEF StartEncryptJSONMulti
<1>2. c \in Call /\ sharedHeader(c) \in Headers
  BY JWEAssumption, SharedHeaderType
<1> DEFINE h == sharedHeader(c)
           e == [NoEncrypting EXCEPT !.call = c, !.protected = h]
<1>3. e \in EncryptingLocals /\ e.call = c /\ e.protected = h /\ e.out = <<>> /\ e.cek = NoSecret
  <2> HIDE DEF h
  <2>1. h \in Headers
    BY <1>2 DEF h
  <2> QED BY <1>2, <2>1, NoEncryptingType DEF EncryptingLocals
<1>4. encrypting' = e
  BY <1>1
<1> HIDE DEF e
<1>5. lookupEnc(chooseEnc(c.opts)) = nil
  BY <1>1 DEF multiErr, nil
<1>6. UNCHANGED <<wire, decrypting, sealed, drawn>> /\ decrypting.phase = "idle"
  BY DEF StartEncryptJSONMulti, Idle
<1>7. c.recipients # <<>>
  BY JWEAssumption
<1>8. EncryptingMade'
  <2>1. drawn' + 1 + Len(c.recipients) <= Len(Random) /\ decrypting'.phase = "idle"
    BY <1>1, <1>6 DEF MayMake
  <2>2. \A k \in 1..Len(e.out) : FALSE
    BY <1>3
  <2> QED BY <1>3, <1>4, <1>5, <1>7, <2>1, <2>2 DEF EncryptingMade
<1> QED BY <1>3, <1>4, <1>6, <1>8, EncryptingKeeps

LEMMA NoSecretFrom == NoSecret.from # "random"
  BY DEF NoSecret

\* What EncryptNext makes of the recipient it has come to.
NextKey == encryptRecipient(encrypting.call.recipients[Len(encrypting.out) + 1],
                            Len(encrypting.call.recipients), chooseEnc(encrypting.call.opts),
                            encrypting.protected, encrypting.cek,
                            fresh(Len(encrypting.out) + 1))

\* Its header, encrypted key and CEK fit the call and its other recipients.
LEMMA NextKeyMade ==
  ASSUME IInv, Len(encrypting.out) + 1 <= Len(encrypting.call.recipients), NextKey.err = nil
  PROVE  /\ encrypting.call.recipients # <<>>
         /\ RecipientMade(NextKey, encrypting.call, Len(encrypting.out) + 1, encrypting.cek,
                          Random[drawn + 1])
<1> DEFINE c == encrypting.call
           k == Len(encrypting.out) + 1
<1>1. k \in 1..Len(c.recipients) /\ k \in Nat \ {0} /\ c.recipients # <<>>
  BY StateFacts
<1>2. drawn + 1 + Len(c.recipients) <= Len(Random) /\ lookupEnc(chooseEnc(c.opts)) = nil
  BY <1>1 DEF IInv, EncryptingMade
<1>3. drawn + 1 + k <= Len(Random)
  BY <1>1, <1>2, StateFacts, RandomLen
<1>4. fresh(k).cek = Random[drawn + 1] /\ fresh(k).cek \in Symbol /\ fresh(k).own \in Symbol
  <2> HIDE DEF k
  <2> QED BY <1>1, <1>3, StateFacts, FreshType
<1>5. Len(c.recipients) = 1 => encrypting.out = <<>>
  <2>1. Len(c.recipients) = 1 => Len(encrypting.out) = 0
    BY <1>1, StateFacts
  <2> QED BY <2>1, StateFacts
<1>6. encrypting.protected = sharedHeader(c)
  BY <1>1, <1>5 DEF IInv, EncryptingMade
<1>7. encrypting.cek = NoSecret \/ encrypting.cek.from = "random"
  BY <1>1, <1>5 DEF IInv, EncryptingMade
<1> HIDE DEF k
<1>8. NextKey = encryptRecipient(c.recipients[k], Len(c.recipients), chooseEnc(c.opts),
                                 sharedHeader(c), encrypting.cek, fresh(k))
  BY <1>6 DEF NextKey, k
<1> HIDE DEF c
<1>9. RecipientMade(NextKey, c, k, encrypting.cek, fresh(k).cek)
  <2>1. c \in Call /\ encrypting.cek \in Secrets
    BY StateFacts DEF c
  <2> QED BY <1>1, <1>2, <1>4, <1>7, <1>8, <2>1, EncryptRecipientMade
<1> QED BY <1>1, <1>4, <1>9 DEF c, k

\* Appending to a sequence of entries.
LEMMA AppendEntry ==
  ASSUME NEW seq \in Seq(Entries), NEW e \in Entries
  PROVE  /\ Append(seq, e) \in Seq(Entries) /\ Append(seq, e) # <<>>
         /\ Len(Append(seq, e)) = Len(seq) + 1
         /\ \A k \in 1..Len(Append(seq, e)) : \/ k \in 1..Len(seq) /\ Append(seq, e)[k] = seq[k]
                                              \/ Append(seq, e)[k] = e
<1>1. Append(seq, e) \in Seq(Entries) /\ Len(Append(seq, e)) = Len(seq) + 1
  OBVIOUS
<1>2. Append(seq, e) # <<>>
  <2>1. Len(seq) + 1 # 0
    OBVIOUS
  <2> QED BY <1>1, <2>1
<1>3. ASSUME NEW k \in 1..Len(Append(seq, e))
      PROVE  \/ k \in 1..Len(seq) /\ Append(seq, e)[k] = seq[k]
             \/ Append(seq, e)[k] = e
  BY <1>1
<1> QED BY <1>1, <1>2, <1>3

\* One more recipient keeps the invariant.
LEMMA EncryptNextKeeps == ASSUME IInv, EncryptNext PROVE IInv'
<1> DEFINE c == encrypting.call
           x == NextKey
<1>1. /\ Len(encrypting.out) + 1 <= Len(c.recipients)
      /\ encrypting' = nextEncrypting(encrypting, x)
      /\ UNCHANGED <<wire, decrypting, sealed, drawn>>
  BY DEF EncryptNext, NextKey
<1>2. CASE x.err # nil
  <2>1. encrypting' = NoEncrypting
    BY <1>1, <1>2 DEF nextEncrypting
  <2>2. EncryptingMade'
    BY <2>1, NoEncryptingType DEF EncryptingMade
  <2> QED BY <1>1, <2>1, <2>2, NoEncryptingType, EncryptingKeeps
<1>3. CASE x.err = nil
  <2>1. /\ c.recipients # <<>>
        /\ RecipientMade(x, c, Len(encrypting.out) + 1, encrypting.cek, Random[drawn + 1])
    BY <1>1, <1>3, NextKeyMade
  <2>2. /\ decrypting.phase = "idle" /\ lookupEnc(chooseEnc(c.opts)) = nil
        /\ drawn + 1 + Len(c.recipients) <= Len(Random)
    BY <2>1 DEF IInv, EncryptingMade
  <2>3. /\ x.cek \in Secrets /\ x.key \in EncryptedKeys /\ x.header \in Headers
        /\ x.key.key # Junk => Carries(x.key.key, x.cek, c)
    BY <2>1 DEF RecipientMade
  <2> HIDE DEF x
  <2>4. CASE Len(c.recipients) = 1
    <3> DEFINE own == entry(NoHeader, x.key)
               out == <<own>>
               e   == [encrypting EXCEPT !.cek = x.cek, !.protected = x.header, !.out = out]
    <3>1. encrypting' = e
      BY <1>1, <1>3, <2>4 DEF nextEncrypting
    <3>2. encrypting.out = <<>>
      <4>1. Len(encrypting.out) = 0
        BY <1>1, <2>4, StateFacts
      <4> QED BY <4>1, StateFacts
    <3>3. own \in Entries /\ own.encrypted_key = x.key
      BY <2>3, NoHeaderType, EntryParts
    <3> HIDE DEF own
    <3>4. out \in Seq(Entries) /\ out # <<>> /\ \A k \in 1..Len(out) : out[k] = own
      BY <3>3
    <3> HIDE DEF out
    <3>5. /\ e \in EncryptingLocals /\ e.call = c /\ e.cek = x.cek
          /\ e.protected = x.header /\ e.out = out
      BY <2>3, <3>4, StateFacts DEF EncryptingLocals
    <3> HIDE DEF e
    <3>6. IF x.cek.from = "random" THEN x.cek.id = Random[drawn + 1]
          ELSE x.cek.id \in Addressed(c)
      <4>1. encrypting.cek = NoSecret
        BY <2>1, <3>2 DEF IInv, EncryptingMade
      <4> QED BY <2>1, <4>1 DEF RecipientMade
    <3>7. \A n \in Name : Extension(n) => x.header[n] = Asked(c)[n]
      BY <2>1, <2>4 DEF RecipientMade
    <3>8. \A k \in 1..Len(out) :
             out[k].encrypted_key.key # Junk => Carries(out[k].encrypted_key.key, x.cek, c)
      BY <2>3, <3>3, <3>4
    <3> HIDE DEF c
    <3>9. EncryptingMade'
      BY <1>1, <2>1, <2>2, <2>4, <3>1, <3>4, <3>5, <3>6, <3>7, <3>8 DEF EncryptingMade
    <3> QED BY <1>1, <3>1, <3>5, <3>9, EncryptingKeeps
  <2>5. CASE Len(c.recipients) # 1
    <3> DEFINE own == entry(x.header, x.key)
               out == Append(encrypting.out, own)
               e   == [encrypting EXCEPT !.cek = x.cek, !.out = out]
    <3>1. encrypting' = e
      BY <1>1, <1>3, <2>5 DEF nextEncrypting
    <3>2. own \in Entries /\ own.encrypted_key = x.key
      BY <2>3, EntryParts
    <3> HIDE DEF own
    <3>3. /\ out \in Seq(Entries) /\ out # <<>>
          /\ \A k \in 1..Len(out) : \/ k \in 1..Len(encrypting.out) /\ out[k] = encrypting.out[k]
                                    \/ out[k] = own
      BY <3>2, StateFacts, AppendEntry
    <3> HIDE DEF out
    <3>4. /\ e \in EncryptingLocals /\ e.call = c /\ e.cek = x.cek
          /\ e.protected = encrypting.protected /\ e.out = out
      BY <2>3, <3>3, StateFacts DEF EncryptingLocals
    <3> HIDE DEF e
    <3>5. x.cek.from = "random" /\ x.cek.id = Random[drawn + 1]
      <4>1. CASE encrypting.out = <<>>
        <5>1. encrypting.cek = NoSecret
          BY <2>1, <4>1 DEF IInv, EncryptingMade
        <5> QED BY <2>1, <2>5, <5>1 DEF RecipientMade
      <4>2. CASE encrypting.out # <<>>
        <5>1. encrypting.cek.from = "random" /\ encrypting.cek.id = Random[drawn + 1]
          BY <2>1, <2>5, <4>2 DEF IInv, EncryptingMade
        <5>2. encrypting.cek # NoSecret
          BY <5>1, NoSecretFrom
        <5> QED BY <2>1, <5>1, <5>2 DEF RecipientMade
      <4> QED BY <4>1, <4>2
    <3>6. encrypting.protected = sharedHeader(c)
      BY <2>1, <2>5 DEF IInv, EncryptingMade
    <3>7. ASSUME NEW k \in 1..Len(out), out[k].encrypted_key.key # Junk
          PROVE  Carries(out[k].encrypted_key.key, x.cek, c)
      <4>1. CASE out[k] = own
        BY <2>3, <3>2, <3>7, <4>1
      <4>2. CASE k \in 1..Len(encrypting.out) /\ out[k] = encrypting.out[k]
        <5>1. Carries(out[k].encrypted_key.key, encrypting.cek, c)
          BY <2>1, <3>7, <4>2 DEF IInv, EncryptingMade
        <5>2. encrypting.out # <<>>
          BY <4>2
        <5>3. encrypting.cek # NoSecret
          BY <2>1, <2>5, <5>2, NoSecretFrom DEF IInv, EncryptingMade
        <5>4. x.cek = encrypting.cek
          BY <2>1, <5>3 DEF RecipientMade
        <5> QED BY <5>1, <5>4
      <4> QED BY <3>3, <4>1, <4>2
    <3> HIDE DEF c
    <3>8. EncryptingMade'
      BY <1>1, <2>1, <2>2, <2>5, <3>1, <3>3, <3>4, <3>5, <3>6, <3>7 DEF EncryptingMade
    <3> QED BY <1>1, <3>1, <3>4, <3>8, EncryptingKeeps
  <2> QED BY <2>4, <2>5
<1> QED BY <1>2, <1>3

\* EncryptJSONMulti seals what it writes.
LEMMA EncryptReturnKeeps == ASSUME IInv, EncryptReturn PROVE IInv'
<1> DEFINE c == encrypting.call
           r == finish(c, encrypting.protected, encrypting.cek, encrypting.out)
<1>1. /\ c.recipients # <<>> /\ Len(encrypting.out) = Len(c.recipients)
      /\ encrypting' = NoEncrypting
      /\ IF r.err = nil THEN Emit(r.doc, c) ELSE UNCHANGED <<wire, decrypting, sealed, drawn>>
  BY DEF EncryptReturn
<1>2. CASE r.err # nil
  <2>1. EncryptingMade'
    BY <1>1, NoEncryptingType DEF EncryptingMade
  <2> HIDE DEF r
  <2> QED BY <1>1, <1>2, <2>1, NoEncryptingType, EncryptingKeeps
<1>3. CASE r.err = nil
  <2>1. encrypting.out # <<>>
    <3>1. Len(encrypting.out) # 0
      BY <1>1, StateFacts
    <3> QED BY <3>1
  <2>2. /\ decrypting.phase = "idle"
        /\ drawn + 1 + Len(c.recipients) <= Len(Random)
        /\ IF encrypting.cek.from = "random" THEN encrypting.cek.id = Random[drawn + 1]
           ELSE encrypting.cek.id \in Addressed(c)
        /\ \A k \in 1..Len(encrypting.out) :
              LET w == encrypting.out[k].encrypted_key.key
              IN  w # Junk => Carries(w, encrypting.cek, c)
    BY <1>1, <2>1 DEF IInv, EncryptingMade
  <2>3. \A n \in Name : Extension(n) => encrypting.protected[n] = Asked(c)[n]
    <3>1. CASE Len(c.recipients) = 1
      BY <1>1, <2>1, <3>1 DEF IInv, EncryptingMade
    <3>2. CASE Len(c.recipients) # 1
      <4>1. encrypting.protected = sharedHeader(c) /\ Asked(c) = baseHeader(c.opts)
        BY <1>1, <3>2 DEF IInv, EncryptingMade, Asked
      <4>2. ASSUME NEW n \in Name, Extension(n) PROVE n \in Name \ {"kid"}
        BY <4>2, ExtensionNames
      <4> QED BY <4>1, <4>2, StateFacts, SharedHeaderType
    <3> QED BY <3>1, <3>2
  <2>4. MadeDoc(r.doc, c, Random[drawn + 1])
    BY <1>3, <2>2, <2>3, StateFacts, FinishMade
  <2>5. Emit(r.doc, c) /\ c \in Call
    BY <1>1, <1>3, StateFacts
  <2> HIDE DEF r
  <2> QED BY <1>1, <2>2, <2>4, <2>5, EmitKeeps
<1> QED BY <1>2, <1>3

-----------------------------------------------------------------------------
(* The consumer's actions.                                                 *)

\* s vouches for the result r of a decryption call with this key and options.
VouchedBy(s, r, key, opts) ==
    /\ r.plaintext = Body(s.call.plaintext)
    /\ \A n \in Name : Has(s.content.protected.hdr, n) =>
          r.header[n] = s.content.protected.hdr[n]
    /\ s.content.aad = wire.doc.aad
    /\ ResolvedOf(r.header, key).key.pair \in Addressed(s.call)
    /\ checkCritical(s.content.protected.hdr, opts.KnownCritical) = nil

\* The content that opens came from a call.
LEMMA OpenedContent ==
  ASSUME IInv, NEW r, NEW h, NEW ek, NEW key, NEW opts, Reads(r, h, ek, wire.doc, key, opts)
  PROVE  \E s \in sealed :
            /\ wire.doc.content = s.content /\ SealMade(s)
            /\ s.content.aad = wire.doc.aad
            /\ protectedOf(wire.doc).hdr = s.content.protected.hdr
<1>1. wire.doc.content.enc # "" /\ NoContent.enc = ""
  BY NoContentType DEF Reads
<1>2. PICK s \in sealed : wire.doc.content = s.content
  BY <1>1 DEF IInv, WireSealed
<1>3. SealMade(s)
  BY DEF IInv
<1>4. s.content.protected = wire.doc.protected /\ s.content.aad = wire.doc.aad
  BY <1>2 DEF Reads
<1>5. wire.doc.protected.form = "json"
  BY <1>3, <1>4 DEF SealMade
<1>6. protectedOf(wire.doc).hdr = wire.doc.protected.hdr
  BY <1>5 DEF protectedOf, decodeHeader
<1> QED BY <1>2, <1>3, <1>4, <1>6

\* The key that recovers its CEK is an addressee's.
LEMMA RecoveredForAddressee ==
  ASSUME IInv, NEW s \in sealed, NEW pair, NEW ek, Recovers(s.content.cek, pair, ek),
         \/ ek.key = Junk
         \/ \E i \in 1..Len(wire.doc.recipients) : ek = wire.doc.recipients[i].encrypted_key
  PROVE  pair \in Addressed(s.call)
<1>1. CEKMade(s.content.cek, s.call, drawn)
  BY DEF IInv, SealMade
<1>2. CASE ek.key # Junk /\ ek.key.kek.id = pair /\ s.content.cek = ek.key.cek
  <2>1. SealedKey(ek.key)
    BY <1>2, DocFacts DEF SealedDoc
  <2>2. PICK t \in sealed : Carries(ek.key, t.content.cek, t.call)
    BY <1>2, <2>1 DEF SealedKey
  <2>3. t.content.cek = s.content.cek /\ t.content.cek.from = "random"
    BY <1>2, <2>2 DEF Carries
  <2>4. t = s
    BY <2>3 DEF IInv, SealsDistinct
  <2> QED BY <1>2, <2>2, <2>4 DEF Carries
<1>3. CASE s.content.cek.from # "random" /\ s.content.cek.id = pair
  BY <1>1, <1>3 DEF CEKMade
<1>4. CASE s.content.cek.from = "random" /\ s.content.cek.id = ""
  <2>1. PICK i \in 1..drawn : s.content.cek.id = Random[i]
    BY <1>1, <1>4 DEF CEKMade
  <2>2. i \in 1..Len(Random)
    BY StateFacts, RandomLen
  <2>3. FALSE
    BY <1>4, <2>1, <2>2, RandomType
  <2> QED BY <2>3
<1> QED BY <1>2, <1>3, <1>4 DEF Recovers

(***************************************************************************)
(* Whatever a decryption call opens, one call vouches for: its plaintext,  *)
(* its protected parameters and "aad", its addressees and its "crit".      *)
(***************************************************************************)
LEMMA OpensVouched ==
  ASSUME IInv, NEW r, NEW key, NEW opts, Opens(r, wire.doc, key, opts)
  PROVE  \E s \in sealed : VouchedBy(s, r, key, opts)
<1> DEFINE P == protectedOf(wire.doc).hdr
<1>1. PICK h : \E ek :
        /\ Reads(r, h, ek, wire.doc, key, opts)
        /\ \/ ek.key = Junk
           \/ \E i \in 1..Len(wire.doc.recipients) : ek = wire.doc.recipients[i].encrypted_key
        /\ \A n \in Name : Has(P, n) => h[n] = P[n]
        /\ h["zip"] = P["zip"]
        /\ checkCritical(P, opts.KnownCritical) = nil
  BY DEF Opens
<1>2. PICK ek :
        /\ Reads(r, h, ek, wire.doc, key, opts)
        /\ \/ ek.key = Junk
           \/ \E i \in 1..Len(wire.doc.recipients) : ek = wire.doc.recipients[i].encrypted_key
        /\ \A n \in Name : Has(P, n) => h[n] = P[n]
        /\ h["zip"] = P["zip"]
        /\ checkCritical(P, opts.KnownCritical) = nil
  BY <1>1
<1>3. PICK s \in sealed :
        /\ wire.doc.content = s.content /\ SealMade(s)
        /\ s.content.aad = wire.doc.aad
        /\ P = s.content.protected.hdr
  BY <1>2, OpenedContent
<1> HIDE DEF P
<1>4. r.header = h /\ Recovers(s.content.cek, ResolvedOf(h, key).key.pair, ek)
  BY <1>2, <1>3 DEF Reads
<1>5. r.plaintext = Body(s.call.plaintext)
  <2>1. /\ ReadOf(h, wire.doc, opts).err = nil
        /\ r.plaintext = ReadOf(h, wire.doc, opts).body
        /\ ReadOf(h, wire.doc, opts) = maybeInflate(h, s.content.body, opts)
    BY <1>2, <1>3 DEF Reads, ReadOf
  <2>2. ~Has(h, "zip") => s.content.body = Body(s.call.plaintext)
    BY <1>2, <1>3 DEF Has, SealMade, BodyMade
  <2>3. h["zip"] = Str("DEF") => s.content.body = deflate(s.call.plaintext)
    BY <1>2, <1>3 DEF SealMade, BodyMade
  <2> QED BY <2>1, <2>2, <2>3, MaybeInflateSucceeds
<1>6. ResolvedOf(h, key).key.pair \in Addressed(s.call)
  BY <1>2, <1>4, RecoveredForAddressee
<1> QED BY <1>2, <1>3, <1>4, <1>5, <1>6 DEF VouchedBy

(***************************************************************************)
(* A step of a decryption call keeps the invariant, if a call vouches for  *)
(* what it returns and the recipients it goes on to exist.                 *)
(***************************************************************************)
LEMMA DecryptingKeeps ==
  ASSUME IInv, NEW d \in DecryptingLocals, decrypting' = d,
         UNCHANGED <<encrypting, wire, sealed, drawn>>,
         encrypting.call.recipients = <<>>,
         d.phase = "running" => /\ d.i \in 1..Len(d.order)
                                /\ \A p \in 1..Len(d.order) : d.order[p] \in Recipients,
         d.phase = "done" /\ d.result.err = nil =>
            \E s \in sealed : VouchedBy(s, d.result, d.key, d.opts)
  PROVE  IInv'
<1>1. TypeOK'
  BY DEF IInv, TypeOK, DecryptingLocals
<1>2. WellFormed(wire.doc)' /\ WireSealed' /\ SealsDistinct'
  BY DEF IInv, WireSealed, SealsDistinct
<1>3. (\A s \in sealed : SealMade(s))'
  BY DEF IInv, SealMade
<1>4. EncryptingMade'
  BY DEF IInv, EncryptingMade
<1>5. LoopInRange'
  BY DEF LoopInRange, Recipients
<1>6. Vouched'
  <2> SUFFICES ASSUME Accepted' PROVE Vouched'
    BY DEF Vouched
  <2>1. PICK s \in sealed : VouchedBy(s, d.result, d.key, d.opts)
    BY DEF Accepted
  <2> QED BY <2>1 DEF Vouched, VouchedBy, Opened, UsedKey, ResolvedOf
<1> QED BY <1>1, <1>2, <1>3, <1>4, <1>5, <1>6 DEF IInv

\* A decryption call that has returned.
LEMMA DecryptingDone ==
  ASSUME NEW r \in Readers, NEW result \in Results
  PROVE  LET d == [Decrypting(r) EXCEPT !.phase = "done", !.result = result]
         IN  /\ d \in DecryptingLocals /\ d.phase = "done"
             /\ d.key = r.key /\ d.opts = r.opts /\ d.result = result
<1> DEFINE d0 == Decrypting(r)
<1>1. d0 \in DecryptingLocals /\ d0.key = r.key /\ d0.opts = r.opts
  BY DecryptingType
<1> HIDE DEF d0
<1>2. LET d == [d0 EXCEPT !.phase = "done", !.result = result]
      IN  /\ d \in DecryptingLocals /\ d.phase = "done"
          /\ d.key = r.key /\ d.opts = r.opts /\ d.result = result
  BY <1>1 DEF DecryptingLocals
<1> QED BY <1>2 DEF d0

\* What DecryptWithOptions returns was sealed.
LEMMA DecryptKeeps == ASSUME IInv, Decrypt PROVE IInv'
<1>1. PICK r \in Readers :
        decrypting' = [Decrypting(r) EXCEPT !.phase = "done",
                         !.result = DecryptWithOptions(wire.doc, r.key, r.opts)]
  BY DEF Decrypt
<1> DEFINE result == DecryptWithOptions(wire.doc, r.key, r.opts)
           d      == [Decrypting(r) EXCEPT !.phase = "done", !.result = result]
<1>2. r.key \in KeyArgs
  BY DecryptingType
<1>3. result \in Results
  BY <1>2, DocFacts, DecryptWithOptionsType
<1>4. result.err = nil => \E s \in sealed : VouchedBy(s, result, r.key, r.opts)
  BY <1>2, DocFacts, DecryptWithOptionsSucceeds, OpensVouched
<1>5. decrypting' = d
  BY <1>1
<1> HIDE DEF result
<1>6. /\ d \in DecryptingLocals /\ d.phase = "done"
      /\ d.key = r.key /\ d.opts = r.opts /\ d.result = result
  BY <1>3, DecryptingDone
<1> HIDE DEF d
<1>7. UNCHANGED <<encrypting, wire, sealed, drawn>> /\ encrypting.call.recipients = <<>>
  BY DEF Decrypt, Idle
<1> QED BY <1>4, <1>5, <1>6, <1>7, DecryptingKeeps

\* The checks before the loop report errors of the package.
LEMMA JSONErrType == ASSUME NEW doc \in Docs PROVE jsonErr(doc) \in JWEErrors
  BY ProtectedOfType, PartsErrType, JWEErrorTypes DEF jsonErr, firstErr

\* DecryptJSONWithOptions starts with nothing decrypted.
LEMMA StartDecryptKeeps == ASSUME IInv, StartDecryptJSON PROVE IInv'
<1>1. PICK r \in Readers :
        decrypting' =
            IF jsonErr(wire.doc) # nil
            THEN [Decrypting(r) EXCEPT !.phase = "done",
                                       !.result = failed(jsonErr(wire.doc))]
            ELSE [Decrypting(r) EXCEPT !.phase = "running", !.i = 1,
                                       !.order = recipientOrder(wire.doc, r.key),
                                       !.result = failed("ErrDecryptFailed")]
  BY DEF StartDecryptJSON
<1>2. UNCHANGED <<encrypting, wire, sealed, drawn>> /\ encrypting.call.recipients = <<>>
  BY DEF StartDecryptJSON, Idle
<1>3. CASE jsonErr(wire.doc) # nil
  <2> DEFINE result == failed(jsonErr(wire.doc))
             d      == [Decrypting(r) EXCEPT !.phase = "done", !.result = result]
  <2>1. result \in Results /\ result.err # nil
    BY <1>3, DocFacts, JSONErrType, FailedType
  <2>2. decrypting' = d
    BY <1>1, <1>3
  <2> HIDE DEF result
  <2>3. d \in DecryptingLocals /\ d.phase = "done" /\ d.result = result
    BY <2>1, DecryptingDone
  <2> HIDE DEF d
  <2> QED BY <1>2, <2>1, <2>2, <2>3, DecryptingKeeps
<1>4. CASE jsonErr(wire.doc) = nil
  <2> DEFINE result == failed("ErrDecryptFailed")
             order  == recipientOrder(wire.doc, r.key)
             d0     == Decrypting(r)
             d      == [d0 EXCEPT !.phase = "running", !.i = 1, !.order = order,
                                  !.result = result]
  <2>1. result \in Results
    BY JWEErrorTypes, FailedType
  <2>2. decrypting' = d
    BY <1>1, <1>4
  <2>3. TriesAll(order, wire.doc, wantKid(r.key))
    BY DocFacts, RecipientOrderTriesAll
  <2>4. d0 \in DecryptingLocals
    BY DecryptingType
  <2> HIDE DEF result, order, d0
  <2>5. /\ order \in Seq(Nat) /\ 1 \in 1..Len(order)
        /\ \A p \in 1..Len(order) : order[p] \in Recipients
    <3>1. /\ order \in Seq(Nat) /\ Len(order) \in Nat \ {0}
          /\ \A p \in 1..Len(order) : order[p] \in Recipients
      BY <2>3, Zenon DEF TriesAll, Recipients
    <3>2. 1 \in 1..Len(order)
      BY <3>1
    <3> QED BY <3>1, <3>2
  <2>6. d \in DecryptingLocals /\ d.phase = "running" /\ d.i = 1 /\ d.order = order
    BY <2>1, <2>4, <2>5 DEF DecryptingLocals
  <2> HIDE DEF d
  <2> QED BY <1>2, <2>2, <2>5, <2>6, DecryptingKeeps
<1> QED BY <1>3, <1>4

\* The result of trying one recipient, with the locals of the call.
LEMMA TriedRecipient ==
  ASSUME IInv, NEW i \in Recipients
  PROVE  /\ RecipientResult(i) \in Results
         /\ RecipientResult(i).err = nil =>
              \E s \in sealed :
                 VouchedBy(s, RecipientResult(i), decrypting.key, decrypting.opts)
<1>1. decrypting.key \in KeyArgs /\ wire.doc \in Docs
  BY StateFacts, DocFacts DEF DecryptingLocals
<1>2. i \in 1..Len(recipientsOf(wire.doc)) /\ recipientsOf(wire.doc)[i] \in Entries
  BY <1>1, RecipientsOfType DEF Recipients
<1>3. RecipientResult(i) \in Results
  BY <1>1, <1>2, DecryptRecipientType DEF RecipientResult
<1>4. ASSUME RecipientResult(i).err = nil
      PROVE  \E s \in sealed :
                VouchedBy(s, RecipientResult(i), decrypting.key, decrypting.opts)
  <2>1. Opens(RecipientResult(i), wire.doc, decrypting.key, decrypting.opts)
    BY <1>1, <1>2, <1>4, DecryptRecipientSucceeds DEF RecipientResult
  <2> QED BY <2>1, OpensVouched
<1> QED BY <1>3, <1>4

\* The locals after one round of the loop.
LEMMA NextDecryptingIs ==
  ASSUME NEW d \in DecryptingLocals, NEW r \in Results, NEW e, e = nextDecrypting(d, r)
  PROVE  /\ e \in DecryptingLocals /\ e.key = d.key /\ e.opts = d.opts
         /\ e.order = d.order /\ e.result = r
         /\ IF r.err = nil \/ d.i = Len(d.order) THEN e.phase = "done" /\ e.i = d.i
            ELSE e.phase = d.phase /\ e.i = d.i + 1
<1>1. d.i \in Nat /\ d.i + 1 \in Nat
  BY DEF DecryptingLocals
<1>2. CASE r.err = nil \/ d.i = Len(d.order)
  <2>1. e = [d EXCEPT !.phase = "done", !.result = r]
    BY <1>2 DEF nextDecrypting
  <2> QED BY <1>2, <2>1 DEF DecryptingLocals
<1>3. CASE ~(r.err = nil \/ d.i = Len(d.order))
  <2> DEFINE j == d.i + 1
  <2>1. e = [d EXCEPT !.i = j, !.result = r]
    BY <1>3 DEF nextDecrypting
  <2>2. j \in Nat
    BY <1>1
  <2> HIDE DEF j
  <2>3. /\ e \in DecryptingLocals /\ e.key = d.key /\ e.opts = d.opts
        /\ e.order = d.order /\ e.result = r /\ e.phase = d.phase /\ e.i = j
    BY <2>1, <2>2 DEF DecryptingLocals
  <2> QED BY <1>3, <2>3 DEF j
<1> QED BY <1>2, <1>3

\* A round of DecryptJSONWithOptions's loop returns only what was sealed.
LEMMA DecryptNextKeeps == ASSUME IInv, DecryptNext PROVE IInv'
<1> DEFINE p == decrypting.i
           i == decrypting.order[p]
           r == RecipientResult(i)
<1>1. /\ decrypting.phase = "running" /\ decrypting' = nextDecrypting(decrypting, r)
      /\ UNCHANGED <<encrypting, wire, sealed, drawn>>
  BY DEF DecryptNext, RecipientResult
<1>2. /\ p \in 1..Len(decrypting.order)
      /\ \A q \in 1..Len(decrypting.order) : decrypting.order[q] \in Recipients
  BY <1>1 DEF IInv, LoopInRange
<1>3. i \in Recipients
  BY <1>2
<1>4. /\ r \in Results
      /\ r.err = nil => \E s \in sealed : VouchedBy(s, r, decrypting.key, decrypting.opts)
  BY <1>3, TriedRecipient
<1>5. encrypting.call.recipients = <<>>
  BY <1>1 DEF IInv, EncryptingMade
<1> HIDE DEF r
<1>6. decrypting \in DecryptingLocals /\ Len(decrypting.order) \in Nat
  <2>1. decrypting \in DecryptingLocals
    BY StateFacts
  <2>2. decrypting.order \in Seq(Nat)
    BY <2>1 DEF DecryptingLocals
  <2> QED BY <2>1, <2>2
<1>7. /\ decrypting' \in DecryptingLocals /\ decrypting'.key = decrypting.key
      /\ decrypting'.opts = decrypting.opts
      /\ decrypting'.order = decrypting.order /\ decrypting'.result = r
      /\ IF r.err = nil \/ p = Len(decrypting.order) THEN decrypting'.phase = "done"
         ELSE decrypting'.phase = "running" /\ decrypting'.i = p + 1
  <2>1. ASSUME NEW e, e = nextDecrypting(decrypting, r)
        PROVE  /\ e \in DecryptingLocals /\ e.key = decrypting.key /\ e.opts = decrypting.opts
               /\ e.order = decrypting.order /\ e.result = r
               /\ IF r.err = nil \/ p = Len(decrypting.order) THEN e.phase = "done"
                  ELSE e.phase = "running" /\ e.i = p + 1
    BY <1>1, <1>4, <1>6, <2>1, NextDecryptingIs
  <2> QED BY <1>1, <2>1
<1>8. decrypting'.phase = "running" =>
         /\ decrypting'.i \in 1..Len(decrypting'.order)
         /\ \A q \in 1..Len(decrypting'.order) : decrypting'.order[q] \in Recipients
  <2>1. ASSUME NEW n \in Nat, NEW q \in 1..n, q # n PROVE q + 1 \in 1..n
    BY <2>1
  <2> HIDE DEF p
  <2> QED BY <1>2, <1>6, <1>7, <2>1
<1>9. decrypting'.phase = "done" /\ decrypting'.result.err = nil =>
         \E s \in sealed : VouchedBy(s, decrypting'.result, decrypting'.key, decrypting'.opts)
  BY <1>4, <1>7
<1> DEFINE d == decrypting'
<1>10. d \in DecryptingLocals /\ decrypting' = d
  BY <1>7
<1> HIDE DEF p, i
<1> QED BY <1>1, <1>5, <1>8, <1>9, <1>10, DecryptingKeeps

\* The caller of a decryption call takes its result.
LEMMA ResultSeenKeeps == ASSUME IInv, ResultSeen PROVE IInv'
<1>1. decrypting' = NoDecrypting /\ UNCHANGED <<encrypting, wire, sealed, drawn>>
  BY DEF ResultSeen
<1>2. encrypting.call.recipients = <<>>
  BY DEF ResultSeen, IInv, EncryptingMade
<1> QED BY <1>1, <1>2, NoDecryptingType, DecryptingKeeps

-----------------------------------------------------------------------------
(* The theorems.                                                           *)

\* Doing nothing keeps the invariant.
LEMMA StutterKeeps == ASSUME IInv, UNCHANGED vars PROVE IInv'
<1>1. EncryptingMade'
  BY DEF vars, IInv, EncryptingMade
<1>2. encrypting \in EncryptingLocals /\ encrypting' = encrypting
  BY StateFacts DEF vars
<1>3. UNCHANGED <<wire, decrypting, sealed, drawn>>
  BY DEF vars
<1> QED BY <1>1, <1>2, <1>3, EncryptingKeeps

\* Every step keeps the invariant.
LEMMA NextIInv == IInv /\ [Next]_vars => IInv'
<1> SUFFICES ASSUME IInv, [Next]_vars PROVE IInv'
  OBVIOUS
<1>1. CASE EncryptCompact
  BY <1>1, EncryptCompactKeeps
<1>2. CASE StartEncryptJSONMulti
  BY <1>2, StartEncryptKeeps
<1>3. CASE EncryptNext
  BY <1>3, EncryptNextKeeps
<1>4. CASE EncryptReturn
  BY <1>4, EncryptReturnKeeps
<1>5. CASE Transit
  BY <1>5, TransitKeeps
<1>6. CASE Decrypt
  BY <1>6, DecryptKeeps
<1>7. CASE StartDecryptJSON
  BY <1>7, StartDecryptKeeps
<1>8. CASE DecryptNext
  BY <1>8, DecryptNextKeeps
<1>9. CASE ResultSeen
  BY <1>9, ResultSeenKeeps
<1>10. CASE UNCHANGED vars
  BY <1>10, StutterKeeps
<1> QED BY <1>1, <1>2, <1>3, <1>4, <1>5, <1>6, <1>7, <1>8, <1>9, <1>10 DEF Next

(***************************************************************************)
(* Each call of jwe.go and jwe_json.go draws a CEK of its own and wraps it *)
(* for its addressees only, and no change on the way makes a key or        *)
(* ciphertext that no call made.                                           *)
(***************************************************************************)
THEOREM Invariance == Spec => []IInv
<1>1. Init => IInv
  BY InitIInv
<1>2. IInv /\ [Next]_vars => IInv'
  BY NextIInv
<1> QED BY <1>1, <1>2, PTL DEF Spec

(***************************************************************************)
(* The calls of jwe.go and jwe_json.go only ever hold and return values of *)
(* their types.                                                            *)
(***************************************************************************)
THEOREM TypeCorrect == Spec => []TypeOK
<1>1. IInv => TypeOK
  BY DEF IInv
<1> QED BY <1>1, Invariance, PTL

(***************************************************************************)
(* For all keys, headers, options and plaintexts, and any number of        *)
(* documents, recipients and changes on the way: what a decryption call    *)
(* returns without an error was encrypted by a call, under the protected   *)
(* parameters and the "aad" it returns.                                    *)
(***************************************************************************)
THEOREM Authenticity == Spec => []Authentic
<1>1. IInv => Authentic
  BY DEF IInv, Vouched, Authentic
<1> QED BY <1>1, Invariance, PTL

(***************************************************************************)
(* And only with a key that the very same call encrypted to.               *)
(***************************************************************************)
THEOREM Confidentiality == Spec => []OnlyAddressees
<1>1. IInv => OnlyAddressees
  BY DEF IInv, Vouched, OnlyAddressees
<1> QED BY <1>1, Invariance, PTL

\* Whoever checked "crit" of a sealed document knows what its call demanded.
LEMMA DemandsKnown ==
  ASSUME NEW s, SealMade(s), s.content.protected.hdr \in Headers, NEW known,
         checkCritical(s.content.protected.hdr, known) = nil,
         NEW k \in 1..Len(Demands(s.call))
  PROVE  LET n == Demands(s.call)[k]
         IN  /\ containsString(known, n)
             /\ n \in Name /\ Has(s.content.protected.hdr, n)
             /\ s.content.protected.hdr[n] = JSONValue(Asked(s.call)[n])
<1> DEFINE P == s.content.protected.hdr
           A == Asked(s.call)
           n == Demands(s.call)[k]
<1>1. CriticalOK(A) /\ Demands(s.call) = A["crit"].items
  <2>1. CASE CriticalOK(A)
    BY <2>1 DEF Demands, Critical
  <2>2. CASE ~CriticalOK(A)
    <3>1. Demands(s.call) = <<>>
      BY <2>2 DEF Demands, Critical
    <3> QED BY <3>1
  <2> QED BY <2>1, <2>2
<1>2. "crit" \in Name /\ P["crit"] = JSONValue(A["crit"])
  BY NameAssumption DEF SealMade, Extension
<1>3. P["crit"].go = "[]any" /\ P["crit"].items = A["crit"].items
  BY <1>1, <1>2 DEF CriticalOK, JSONValue, Anys
<1>4. Has(P, "crit")
  BY <1>2, <1>3 DEF Has, Absent
<1>5. /\ ~isRegisteredHeader(n) /\ Has(P, n) /\ containsString(known, n)
  BY <1>1, <1>3, <1>4, CheckCriticalSucceeds
<1>6. n \in Name /\ Extension(n)
  BY <1>5 DEF Has, Extension
<1> QED BY <1>5, <1>6 DEF SealMade

(***************************************************************************)
(* For every choice of extensions: what a producer marked critical, in the *)
(* protected header of either serialization, an accepting consumer has     *)
(* declared understood and gets with the producer's value.                 *)
(***************************************************************************)
THEOREM CriticalAgreement == Spec => []CriticalHonoured
<1>1. ASSUME IInv PROVE CriticalHonoured
  <2> SUFFICES ASSUME Accepted PROVE CriticalHonoured
    BY DEF CriticalHonoured
  <2>1. PICK s \in sealed :
          /\ Opened(s)
          /\ checkCritical(s.content.protected.hdr, decrypting.opts.KnownCritical) = nil
    BY <1>1 DEF IInv, Vouched
  <2>2. SealMade(s) /\ s.content.protected.hdr \in Headers
    BY <1>1, SealFacts DEF IInv, ProtectedSegs
  <2>3. ASSUME NEW k \in 1..Len(Demands(s.call))
        PROVE  LET n == Demands(s.call)[k]
               IN  /\ containsString(decrypting.opts.KnownCritical, n)
                   /\ decrypting.result.header[n] = JSONValue(Asked(s.call)[n])
    BY <2>1, <2>2, DemandsKnown DEF Opened
  <2> QED BY <2>1, <2>3 DEF CriticalHonoured
<1> QED BY <1>1, Invariance, PTL

-----------------------------------------------------------------------------
(* Refinement of SealedDelivery.                                           *)

\* A step either seals one message and holds no result, or seals none.
LEMMA StepKinds ==
  ASSUME IInv, [Next]_vars
  PROVE  \/ sealed' = sealed
         \/ (\E n : sealed' = sealed \cup {n}) /\ decrypting'.phase = "idle"
<1>1. ASSUME NEW doc, NEW c, Emit(doc, c), decrypting.phase = "idle"
      PROVE  (\E n : sealed' = sealed \cup {n}) /\ decrypting'.phase = "idle"
  BY <1>1 DEF Emit
<1>2. CASE EncryptCompact
  <2>1. \E doc, c : Emit(doc, c)
    BY <1>2, Zenon DEF EncryptCompact
  <2>2. decrypting.phase = "idle"
    BY <1>2 DEF EncryptCompact, Idle
  <2> QED BY <1>1, <2>1, <2>2
<1>3. CASE EncryptReturn
  <2>1. (\E doc, c : Emit(doc, c)) \/ UNCHANGED <<wire, decrypting, sealed, drawn>>
    BY <1>3, Zenon DEF EncryptReturn
  <2>2. decrypting.phase = "idle"
    BY <1>3 DEF EncryptReturn, IInv, EncryptingMade
  <2> QED BY <1>1, <2>1, <2>2
<1>4. CASE Transit
  BY <1>4, TransitEdits DEF Edit
<1>5. CASE \/ StartEncryptJSONMulti \/ EncryptNext
           \/ Decrypt \/ StartDecryptJSON \/ DecryptNext \/ ResultSeen
  BY <1>5 DEF StartEncryptJSONMulti, EncryptNext, Decrypt, StartDecryptJSON, DecryptNext,
              ResultSeen
<1>6. CASE UNCHANGED vars
  BY <1>6 DEF vars
<1> QED BY <1>2, <1>3, <1>4, <1>5, <1>6 DEF Next

\* Initially nothing is sealed and nothing delivered.
LEMMA InitRefines == Init => Abstract!Init
<1> SUFFICES ASSUME Init PROVE Abstract!Init
  OBVIOUS
<1>1. {Message(s) : s \in sealed} = {}
  BY DEF Init
<1>2. Delivered = {}
  BY NoDecryptingType DEF Init, Delivered, Accepted
<1> QED BY <1>1, <1>2 DEF Abstract!Init

\* Whoever is delivered a message may open it.
LEMMA DeliveredOpens ==
  ASSUME NEW s, Opened(s), UsedKey.pair \in Addressed(s.call)
  PROVE  Abstract!Opens(Message(s), [reader |-> UsedKey.pair,
                                     plaintext |-> decrypting.result.plaintext.text,
                                     members |-> Members(decrypting.result.header)])
<1>1. decrypting.result.plaintext.text = s.call.plaintext
  BY DEF Opened, Body
<1>2. ASSUME NEW n \in Name, Has(s.content.protected.hdr, n)
      PROVE  decrypting.result.header[n] = s.content.protected.hdr[n]
             /\ Has(decrypting.result.header, n)
  BY <1>2 DEF Opened, Has
<1>3. Members(s.content.protected.hdr) \subseteq Members(decrypting.result.header)
  BY <1>2 DEF Members
<1> HIDE DEF Members, Addressed
<1> QED BY <1>1, <1>3 DEF Abstract!Opens, Message

\* Every step seals, delivers something sealed, or is none of the channel's.
LEMMA StepRefines == IInv /\ IInv' /\ [Next]_vars => [Abstract!Next]_Abstract!vars
<1> SUFFICES ASSUME IInv, IInv', [Next]_vars PROVE Abstract!Next
  OBVIOUS
<1> DEFINE msgs == {Message(s) : s \in sealed}
<1>1. CASE sealed' = sealed
  <2>1. msgs' = msgs
    BY <1>1 DEF Message, Addressed, Members
  <2>2. CASE Accepted'
    <3> DEFINE d == [reader |-> UsedKey.pair,
                     plaintext |-> decrypting.result.plaintext.text,
                     members |-> Members(decrypting.result.header)]
    <3>1. PICK s \in sealed : (Opened(s) /\ UsedKey.pair \in Addressed(s.call))'
      BY <1>1, <2>2 DEF IInv, Vouched, Addressed
    <3>2. (Opened(s) /\ UsedKey.pair \in Addressed(s.call) => Abstract!Opens(Message(s), d))'
      BY DeliveredOpens, PTL
    <3>3. Delivered' = {d'}
      BY <2>2 DEF Delivered
    <3>4. Abstract!Opens(Message(s), d')
      BY <3>1, <3>2 DEF Abstract!Opens, Message, Addressed, Members
    <3> HIDE DEF d
    <3>5. Abstract!Deliver
      BY <2>1, <3>1, <3>3, <3>4 DEF Abstract!Deliver
    <3> QED BY <3>5 DEF Abstract!Next
  <2>3. CASE ~Accepted'
    <3>1. Delivered' = {}
      BY <2>3 DEF Delivered
    <3> QED BY <2>1, <3>1 DEF Abstract!Next, Abstract!Refuse
  <2> QED BY <2>2, <2>3
<1>2. CASE (\E n : sealed' = sealed \cup {n}) /\ decrypting'.phase = "idle"
  <2>1. Delivered' = {}
    BY <1>2 DEF Delivered, Accepted
  <2>2. PICK n : sealed' = sealed \cup {n}
    BY <1>2
  <2>3. Message(n) \in msgs' /\ msgs' = msgs \cup {Message(n)}
    BY <2>2 DEF Message, Addressed, Members
  <2> QED BY <2>1, <2>3 DEF Abstract!Next, Abstract!SealMessage
<1> QED BY <1>1, <1>2, StepKinds

(***************************************************************************)
(* jwe.go and jwe_json.go implement the abstract sealed channel: every     *)
(* step seals one message, delivers a sealed one to one of its readers,    *)
(* refuses, or changes nothing.                                            *)
(***************************************************************************)
THEOREM Refinement == Spec => ImplementsSealedDelivery
<1>1. Init => Abstract!Init
  BY InitRefines
<1>2. IInv /\ IInv' /\ [Next]_vars => [Abstract!Next]_Abstract!vars
  BY StepRefines
<1> QED BY <1>1, <1>2, Invariance, PTL DEF Spec, ImplementsSealedDelivery, Abstract!Spec

-----------------------------------------------------------------------------
(* The loop over the recipients.                                           *)

\* A step of producer or transport finds no decryption call under way.
LEMMA OutsideDecryption ==
  ASSUME IInv, \/ EncryptCompact \/ StartEncryptJSONMulti \/ EncryptNext \/ EncryptReturn
               \/ Transit
  PROVE  decrypting'.phase = "idle"
<1>1. decrypting.phase = "idle"
  <2>1. CASE EncryptCompact
    BY <2>1 DEF EncryptCompact, Idle
  <2>2. CASE StartEncryptJSONMulti
    BY <2>2 DEF StartEncryptJSONMulti, Idle
  <2>3. CASE EncryptNext
    <3>1. Len(encrypting.out) + 1 <= Len(encrypting.call.recipients)
      BY <2>3 DEF EncryptNext
    <3>2. encrypting.call.recipients # <<>>
      <4>1. Len(encrypting.call.recipients) # 0
        BY <3>1, StateFacts
      <4> QED BY <4>1
    <3> QED BY <3>2 DEF IInv, EncryptingMade
  <2>4. CASE EncryptReturn
    BY <2>4 DEF EncryptReturn, IInv, EncryptingMade
  <2>5. CASE Transit
    BY <2>5, TransitEdits DEF Edit, Idle
  <2> QED BY <2>1, <2>2, <2>3, <2>4, <2>5
<1>2. ASSUME NEW doc, NEW c, Emit(doc, c) PROVE decrypting' = decrypting
  BY <1>2 DEF Emit
<1>3. decrypting' = decrypting
  <2>1. CASE EncryptCompact
    BY <1>2, <2>1, Zenon DEF EncryptCompact
  <2>2. CASE StartEncryptJSONMulti \/ EncryptNext
    BY <2>2 DEF StartEncryptJSONMulti, EncryptNext
  <2>3. CASE EncryptReturn
    <3>1. (\E doc, c : Emit(doc, c)) \/ UNCHANGED <<wire, decrypting, sealed, drawn>>
      BY <2>3, Zenon DEF EncryptReturn
    <3> QED BY <1>2, <3>1
  <2>4. CASE Transit
    BY <2>4, TransitEdits DEF Edit
  <2> QED BY <2>1, <2>2, <2>3, <2>4
<1> QED BY <1>1, <1>3

\* Where no decryption call runs or has returned, there is no loop.
LEMMA NoLoop == ASSUME decrypting.phase = "idle" PROVE LoopInv
  BY DEF LoopInv, JSONLoopDone

\* A broken document fails before the loop, and a compact one has none.
LEMMA BrokenHasNoLoop == ASSUME NEW doc, doc.form = "broken" PROVE jsonErr(doc) # nil
  BY DEF jsonErr, nil

\* The loop starts with the first recipient of the order.
LEMMA LoopStarts == ASSUME IInv, StartDecryptJSON PROVE LoopInv'
<1>1. PICK r \in Readers :
        decrypting' =
            IF jsonErr(wire.doc) # nil
            THEN [Decrypting(r) EXCEPT !.phase = "done",
                                       !.result = failed(jsonErr(wire.doc))]
            ELSE [Decrypting(r) EXCEPT !.phase = "running", !.i = 1,
                                       !.order = recipientOrder(wire.doc, r.key),
                                       !.result = failed("ErrDecryptFailed")]
  BY DEF StartDecryptJSON
<1>2. wire' = wire /\ wire.doc.form \notin {"none", "compact"}
  BY DEF StartDecryptJSON
<1>3. CASE jsonErr(wire.doc) # nil
  <2>1. decrypting'.phase = "done"
    BY <1>1, <1>3, Zenon DEF Decrypting
  <2>2. ~JSONLoopDone'
    BY <1>2, <1>3 DEF JSONLoopDone
  <2> QED BY <2>1, <2>2 DEF LoopInv
<1>4. CASE jsonErr(wire.doc) = nil
  <2> DEFINE order == recipientOrder(wire.doc, r.key)
  <2>1. /\ decrypting'.phase = "running" /\ decrypting'.i = 1
        /\ decrypting'.order = order /\ decrypting'.key = r.key
    <3> HIDE DEF order
    <3> QED BY <1>1, <1>4 DEF Decrypting, order
  <2>2. 1 \in 1..Len(order) /\ \A q \in 1..(1 - 1) : FALSE
    <3>1. TriesAll(order, wire.doc, wantKid(r.key))
      BY DocFacts, RecipientOrderTriesAll
    <3>2. Len(order) \in Nat \ {0}
      BY <3>1, Zenon DEF TriesAll
    <3> HIDE DEF order
    <3> QED BY <3>2
  <2>3. Tried(1)'
    BY <1>2, <2>1, <2>2 DEF Tried
  <2>4. ~JSONLoopDone'
    BY <2>1 DEF JSONLoopDone
  <2> QED BY <1>2, <1>4, <2>1, <2>3, <2>4 DEF LoopInv
<1> QED BY <1>3, <1>4

\* A round that fails is followed by the next, until the order is at its end.
LEMMA LoopGoesOn == ASSUME IInv, LoopInv, DecryptNext PROVE LoopInv'
<1>p. PICK p : p = decrypting.i
  OBVIOUS
<1>o. PICK order : order = recipientOrder(wire.doc, decrypting.key)
  OBVIOUS
<1>r. PICK r : r = RecipientResult(order[p])
  OBVIOUS
<1>1. decrypting.phase = "running" /\ UNCHANGED <<encrypting, wire, sealed, drawn>>
  BY DEF DecryptNext
<1>2. /\ wire.doc.form \notin {"none", "compact"} /\ jsonErr(wire.doc) = nil
      /\ decrypting.order = order /\ Tried(p)
  BY <1>p, <1>o, <1>1 DEF LoopInv
<1>3. /\ p \in 1..Len(order)
      /\ \A q \in 1..(p - 1) : RecipientResult(order[q]).err # nil
  BY <1>o, <1>2 DEF Tried
<1>4. decrypting' = nextDecrypting(decrypting, r)
  BY <1>p, <1>r, <1>2 DEF DecryptNext, RecipientResult
<1>5. decrypting \in DecryptingLocals
  BY StateFacts
<1>6. TriesAll(order, wire.doc, wantKid(decrypting.key))
  BY <1>o, DocFacts, RecipientOrderTriesAll
<1>7. Len(order) \in Nat /\ order[p] \in Recipients
  BY <1>3, <1>6 DEF TriesAll, Recipients
<1>8. r \in Results
  BY <1>r, <1>7, TriedRecipient
<1>9. /\ decrypting'.key = decrypting.key /\ decrypting'.opts = decrypting.opts
      /\ decrypting'.order = order /\ decrypting'.result = r
      /\ IF r.err = nil \/ p = Len(order) THEN decrypting'.phase = "done"
         ELSE decrypting'.phase = "running" /\ decrypting'.i = p + 1
  <2>1. ASSUME NEW e, e = nextDecrypting(decrypting, r)
        PROVE  /\ e.key = decrypting.key /\ e.opts = decrypting.opts
               /\ e.order = order /\ e.result = r
               /\ IF r.err = nil \/ p = Len(order) THEN e.phase = "done"
                  ELSE e.phase = "running" /\ e.i = p + 1
    BY <1>p, <1>1, <1>2, <1>5, <1>8, <2>1, NextDecryptingIs
  <2> QED BY <1>4, <2>1
<1>10. recipientOrder(wire'.doc, decrypting'.key) = order
  BY <1>o, <1>1, <1>9
<1>11. ASSUME NEW i PROVE RecipientResult(i)' = RecipientResult(i)
  BY <1>1, <1>9 DEF RecipientResult
<1>12. Tried(p)'
  BY <1>3, <1>10, <1>11 DEF Tried
<1>13. CASE r.err = nil \/ p = Len(order)
  <2>1. decrypting'.phase = "done"
    BY <1>9, <1>13
  <2>2. decrypting'.result = RecipientResult(order[p])'
    BY <1>r, <1>9, <1>11
  <2>3. decrypting'.result.err = nil \/ p = Len(order)
    BY <1>9, <1>13
  <2> QED BY <1>3, <1>10, <1>12, <2>1, <2>2, <2>3 DEF LoopInv
<1>14. CASE ~(r.err = nil \/ p = Len(order))
  <2>1. decrypting'.phase = "running" /\ decrypting'.i = p + 1
    BY <1>9, <1>14
  <2>2. p + 1 \in 1..Len(order) /\ \A q \in 1..((p + 1) - 1) : q \in 1..(p - 1) \/ q = p
    BY <1>3, <1>7, <1>14
  <2>3. \A q \in 1..((p + 1) - 1) : RecipientResult(order[q]).err # nil
    BY <1>r, <1>3, <1>14, <2>2
  <2>4. Tried(p + 1)'
    BY <1>10, <1>11, <2>2, <2>3 DEF Tried
  <2>5. ~JSONLoopDone'
    BY <2>1 DEF JSONLoopDone
  <2>6. wire'.doc.form \notin {"none", "compact"} /\ jsonErr(wire'.doc) = nil
    BY <1>1, <1>2
  <2> QED BY <1>9, <1>10, <2>1, <2>4, <2>5, <2>6 DEF LoopInv
<1> QED BY <1>13, <1>14

\* Every step keeps the loop in order.
LEMMA NextLoopInv == IInv /\ LoopInv /\ [Next]_vars => LoopInv'
<1> SUFFICES ASSUME IInv, LoopInv, [Next]_vars PROVE LoopInv'
  OBVIOUS
<1>0. ASSUME decrypting'.phase = "idle" PROVE LoopInv'
  BY <1>0 DEF LoopInv, JSONLoopDone
<1>1. CASE \/ EncryptCompact \/ StartEncryptJSONMulti \/ EncryptNext \/ EncryptReturn
           \/ Transit
  BY <1>0, <1>1, OutsideDecryption
<1>2. CASE Decrypt
  <2>1. PICK r \in Readers :
          decrypting' = [Decrypting(r) EXCEPT !.phase = "done",
                           !.result = DecryptWithOptions(wire.doc, r.key, r.opts)]
    BY <1>2 DEF Decrypt
  <2>2. decrypting'.phase = "done"
    BY <2>1, Zenon DEF Decrypting
  <2>3. wire' = wire /\ wire.doc.form \in {"compact", "broken"}
    BY <1>2 DEF Decrypt
  <2>4. ~JSONLoopDone'
    BY <2>3, BrokenHasNoLoop DEF JSONLoopDone
  <2> QED BY <2>2, <2>4 DEF LoopInv
<1>3. CASE StartDecryptJSON
  BY <1>3, LoopStarts
<1>4. CASE DecryptNext
  BY <1>4, LoopGoesOn
<1>5. CASE ResultSeen
  BY <1>0, <1>5, NoDecryptingType DEF ResultSeen
<1>6. CASE UNCHANGED vars
  BY <1>6 DEF vars, LoopInv, JSONLoopDone, Tried, RecipientResult
<1> QED BY <1>1, <1>2, <1>3, <1>4, <1>5, <1>6 DEF Next

(***************************************************************************)
(* DecryptJSONWithOptions tries recipients in recipientOrder's order, goes *)
(* on only after one failed, and returns the first success or the last     *)
(* failure.                                                                *)
(***************************************************************************)
THEOREM LoopInvariance == Spec => []LoopInv
<1>1. Init => LoopInv
  BY NoDecryptingType, NoLoop DEF Init
<1>2. IInv /\ LoopInv /\ [Next]_vars => LoopInv'
  BY NextLoopInv
<1> QED BY <1>1, <1>2, Invariance, PTL DEF Spec

(***************************************************************************)
(* For every document, key and options: DecryptJSONWithOptions succeeds    *)
(* exactly when some recipient decrypts on its own.                        *)
(***************************************************************************)
THEOREM OneGoodRecipient == Spec => []OneGoodRecipientSuffices
<1>1. ASSUME IInv, LoopInv PROVE OneGoodRecipientSuffices
  <2> SUFFICES ASSUME JSONLoopDone
               PROVE  decrypting.result.err = nil <=> SomeRecipientDecrypts
    BY DEF OneGoodRecipientSuffices
  <2> DEFINE order == recipientOrder(wire.doc, decrypting.key)
  <2>1. PICK p \in 1..Len(order) :
          /\ Tried(p) /\ decrypting.result = RecipientResult(order[p])
          /\ decrypting.result.err = nil \/ p = Len(order)
    BY <1>1 DEF LoopInv
  <2>2. TriesAll(order, wire.doc, wantKid(decrypting.key))
    BY <1>1, DocFacts, RecipientOrderTriesAll
  <2>3. \A q \in 1..(p - 1) : RecipientResult(order[q]).err # nil
    BY <2>1 DEF Tried
  <2> HIDE DEF order
  <2>4. ASSUME decrypting.result.err = nil PROVE SomeRecipientDecrypts
    BY <2>1, <2>2, <2>4 DEF TriesAll, SomeRecipientDecrypts, Recipients
  <2>5. ASSUME SomeRecipientDecrypts, decrypting.result.err # nil PROVE FALSE
    <3>1. PICK i \in Recipients : RecipientResult(i).err = nil
      BY <2>5 DEF SomeRecipientDecrypts
    <3>2. PICK q \in 1..Len(order) : order[q] = i
      BY <2>2 DEF TriesAll, Recipients
    <3>3. p = Len(order) /\ Len(order) \in Nat
      BY <2>1, <2>2, <2>5 DEF TriesAll
    <3>4. q = p \/ q \in 1..(p - 1)
      BY <3>3
    <3> QED BY <2>1, <2>3, <2>5, <3>1, <3>2, <3>4
  <2> QED BY <2>4, <2>5
<1> QED BY <1>1, Invariance, LoopInvariance, PTL

(***************************************************************************)
(* For every document, key and options: the result is that of the first    *)
(* recipient whose "kid" is the key's, if that one decrypts.               *)
(***************************************************************************)
THEOREM MatchingFirst == Spec => []MatchingRecipientFirst
<1>1. ASSUME IInv, LoopInv PROVE MatchingRecipientFirst
  <2> DEFINE order      == recipientOrder(wire.doc, decrypting.key)
             kid        == wantKid(decrypting.key)
             matches(i) == effectiveKid(wire.doc, recipientsOf(wire.doc)[i]) = kid
             good       == {i \in Recipients : matches(i) /\ RecipientResult(i).err = nil}
  <2>1. SUFFICES ASSUME JSONLoopDone, kid # "", good # {}
                 PROVE  \E i \in good : /\ \A j \in good : i <= j
                                        /\ decrypting.result = RecipientResult(i)
    BY DEF MatchingRecipientFirst
  <2>2. PICK p \in 1..Len(order) :
          /\ Tried(p) /\ decrypting.result = RecipientResult(order[p])
          /\ decrypting.result.err = nil \/ p = Len(order)
    BY <1>1, <2>1 DEF LoopInv
  <2>3. TriesAll(order, wire.doc, kid)
    BY <1>1, DocFacts, RecipientOrderTriesAll
  <2>4. \A q \in 1..(p - 1) : RecipientResult(order[q]).err # nil
    BY <2>2 DEF Tried
  <2> HIDE DEF order, kid
  <2>5. /\ order \in Seq(Nat) /\ Len(order) \in Nat
        /\ \A q \in 1..Len(order) : order[q] \in Recipients
        /\ \A i \in Recipients : \E q \in 1..Len(order) : order[q] = i
        /\ \A m, q \in 1..Len(order) :
              q < m /\ matches(order[m]) => matches(order[q]) /\ order[q] < order[m]
    BY <2>1, <2>3 DEF TriesAll, Recipients
  <2> HIDE DEF matches
  <2>6. ASSUME NEW j \in good
        PROVE  \E q \in p..Len(order) : order[q] = j
    <3>1. j \in Recipients /\ RecipientResult(j).err = nil
      OBVIOUS
    <3>2. PICK q \in 1..Len(order) : order[q] = j
      BY <2>5, <3>1
    <3>3. q \notin 1..(p - 1)
      BY <2>4, <3>1, <3>2
    <3>4. q \in p..Len(order)
      BY <2>5, <3>3
    <3> QED BY <3>2, <3>4
  <2>7. ASSUME NEW j \in good PROVE matches(j) /\ RecipientResult(j).err = nil
    OBVIOUS
  <2> HIDE DEF good
  <2>8. ASSUME NEW j \in good PROVE matches(order[p]) /\ order[p] <= j
    <3>1. PICK q \in p..Len(order) : order[q] = j
      BY <2>6
    <3>2. p = q \/ p < q
      BY <2>5
    <3>3. q \in 1..Len(order) /\ order[p] \in Nat
      BY <2>5
    <3> QED BY <2>5, <2>7, <3>1, <3>2, <3>3
  <2>9. PICK g \in good : TRUE
    BY <2>1
  <2>10. RecipientResult(order[p]).err = nil
    <3>1. CASE decrypting.result.err = nil
      BY <2>2, <3>1
    <3>2. CASE p = Len(order)
      <4>1. PICK q \in p..Len(order) : order[q] = g
        BY <2>6
      <4>2. q = p
        BY <2>5, <3>2
      <4> QED BY <2>7, <4>1, <4>2
    <3> QED BY <2>2, <3>1, <3>2
  <2>11. order[p] \in good
    BY <2>5, <2>8, <2>9, <2>10 DEF good
  <2> QED BY <2>2, <2>8, <2>11
<1> QED BY <1>1, Invariance, LoopInvariance, PTL

-----------------------------------------------------------------------------
(* What decryption calls return, and the two serializations.               *)

\* A broken document is refused by both calls with the same error.
LEMMA BrokenResult ==
  ASSUME NEW doc, doc.form = "broken", NEW key, NEW opts
  PROVE  /\ jsonErr(doc) # nil
         /\ DecryptWithOptions(doc, key, opts) = failed(jsonErr(doc))
<1>1. jsonErr(doc) = "ErrMalformed" /\ nil # "ErrMalformed"
  BY DEF jsonErr, nil
<1>2. DecryptWithOptions(doc, key, opts) = failed("ErrMalformed")
  BY DEF DecryptWithOptions
<1> QED BY <1>1, <1>2

\* Every step keeps what was returned.
LEMMA NextReturned == IInv /\ LoopInv /\ Returned /\ [Next]_vars => Returned'
<1> SUFFICES ASSUME IInv, LoopInv, Returned, [Next]_vars PROVE Returned'
  OBVIOUS
<1>0. ASSUME decrypting'.phase = "idle" PROVE Returned'
  BY <1>0 DEF Returned
<1>1. CASE \/ EncryptCompact \/ StartEncryptJSONMulti \/ EncryptNext \/ EncryptReturn
           \/ Transit
  BY <1>0, <1>1, OutsideDecryption
<1>2. CASE Decrypt
  <2>1. PICK r \in Readers :
          decrypting' = [Decrypting(r) EXCEPT !.phase = "done",
                           !.result = DecryptWithOptions(wire.doc, r.key, r.opts)]
    BY <1>2 DEF Decrypt
  <2> DEFINE x == DecryptWithOptions(wire.doc, r.key, r.opts)
  <2> HIDE DEF x
  <2>2. decrypting'.key = r.key /\ decrypting'.opts = r.opts /\ decrypting'.result = x
    BY <2>1, DecryptingType DEF x
  <2>3. wire' = wire /\ wire.doc.form \in {"compact", "broken"}
    BY <1>2 DEF Decrypt
  <2>4. wire.doc.form # "none"
    BY <2>3
  <2>5. wire.doc.form # "compact" => x = failed(jsonErr(wire.doc))
    BY <2>3, BrokenResult DEF x
  <2> QED BY <2>2, <2>3, <2>4, <2>5 DEF Returned, x
<1>3. CASE StartDecryptJSON
  <2>1. PICK r \in Readers :
          decrypting' =
            IF jsonErr(wire.doc) # nil
            THEN [Decrypting(r) EXCEPT !.phase = "done",
                                       !.result = failed(jsonErr(wire.doc))]
            ELSE [Decrypting(r) EXCEPT !.phase = "running", !.i = 1,
                                       !.order = recipientOrder(wire.doc, r.key),
                                       !.result = failed("ErrDecryptFailed")]
    BY <1>3 DEF StartDecryptJSON
  <2>2. wire' = wire /\ wire.doc.form \notin {"none", "compact"}
    BY <1>3 DEF StartDecryptJSON
  <2> DEFINE x == failed(jsonErr(wire.doc))
  <2>3. jsonErr(wire.doc) # nil => decrypting'.result = x
    <3> HIDE DEF x
    <3> QED BY <2>1, DecryptingType DEF x
  <2> QED BY <2>2, <2>3 DEF Returned
<1>4. CASE DecryptNext
  <2>1. wire' = wire /\ decrypting.phase = "running"
    BY <1>4 DEF DecryptNext
  <2>2. wire.doc.form \notin {"none", "compact"} /\ jsonErr(wire.doc) = nil
    BY <2>1 DEF LoopInv
  <2> QED BY <2>1, <2>2 DEF Returned
<1>5. CASE ResultSeen
  BY <1>0, <1>5, NoDecryptingType DEF ResultSeen
<1>6. CASE UNCHANGED vars
  BY <1>6 DEF vars, Returned
<1> QED BY <1>1, <1>2, <1>3, <1>4, <1>5, <1>6 DEF Next

(***************************************************************************)
(* A call that ran no loop returns what DecryptWithOptions, or the checks  *)
(* before the loop, make of the document its caller still holds.           *)
(***************************************************************************)
THEOREM ReturnedInvariance == Spec => []Returned
<1>1. Init => Returned
  BY NoDecryptingType DEF Init, Returned
<1>2. IInv /\ LoopInv /\ Returned /\ [Next]_vars => Returned'
  BY NextReturned
<1> QED BY <1>1, <1>2, Invariance, LoopInvariance, PTL DEF Spec

\* One result is as good as the other.
Alike(compact, general) ==
    /\ compact.err = nil <=> general.err = nil
    /\ general.err = nil => general = compact

\* orFailed of a failure is one.
LEMMA OrFailedFails ==
  ASSUME NEW e, NEW r, e # nil \/ r.err # nil PROVE orFailed(e, r).err # nil
  BY DEF orFailed, failed

(***************************************************************************)
(* A compact document is read by DecryptJSONWithOptions, once it is put    *)
(* into the JSON serialization, as DecryptWithOptions reads it.            *)
(***************************************************************************)
LEMMA ReadAlike ==
  ASSUME NEW doc \in Docs, WellFormed(doc), doc.form = "compact",
         NEW key \in KeyArgs, NEW opts,
         NEW g, g = [doc EXCEPT !.form = "general"]
  PROVE  Alike(DecryptWithOptions(doc, key, opts),
               orFailed(jsonErr(g), decryptRecipient(g, g.recipients[1], key, opts)))
<1> DEFINE e       == doc.recipients[1]
           ek      == e.encrypted_key
           decoded == decodeHeader(doc.protected)
           p       == decoded.hdr
           crit    == checkCritical(p, opts.KnownCritical)
           parts   == partsErr(doc)
           segs    == IF ek.form = "notb64" THEN "ErrMalformed" ELSE parts
           one     == decryptOne(p, ek, doc, key, opts)
           c       == DecryptWithOptions(doc, key, opts)
           d       == decryptRecipient(g, g.recipients[1], key, opts)
           j       == orFailed(jsonErr(g), d)
<1>1. /\ g.form = "general" /\ g.protected = doc.protected /\ g.unprotected = doc.unprotected
      /\ g.recipients = doc.recipients /\ g.aad = doc.aad /\ g.content = doc.content
      /\ g.parts = doc.parts
  BY DEF Docs
<1>2. e.header = NoHeader /\ doc.unprotected = NoHeader /\ doc.aad = Empty
  BY DEF WellFormed
<1>3. nil # "ErrMalformed" /\ nil # "ErrInvalidHeader"
  BY DEF nil
<1>4. c = IF decoded.err # nil THEN failed(decoded.err)
          ELSE orFailed(firstErr(crit, segs), one)
  BY DEF DecryptWithOptions
<1>5. jsonErr(g) = firstErr(protectedOf(g).err, firstErr(parts, nil))
  <2>1. DecodeSegment(g.aad).err = nil
    BY <1>1, <1>2 DEF DecodeSegment
  <2>2. partsErr(g) = parts
    BY <1>1 DEF partsErr
  <2> QED BY <1>1, <2>1, <2>2 DEF jsonErr
<1> HIDE DEF c, d
<1>6. CASE decoded.err # nil
  <2>1. c.err # nil
    BY <1>4, <1>6 DEF failed
  <2>2. CASE doc.protected.form # ""
    <3>1. protectedOf(g).err # nil
      BY <1>1, <1>6, <2>2 DEF protectedOf
    <3>2. jsonErr(g) # nil
      BY <1>5, <3>1 DEF firstErr
    <3>3. j.err # nil
      BY <3>2, OrFailedFails
    <3> HIDE DEF j
    <3>4. Alike(c, j)
      BY <2>1, <3>3 DEF Alike
    <3> QED BY <3>4 DEF c, d, j
  <2>3. CASE doc.protected.form = ""
    <3> DEFINE merged == mergeThree(NoHeader, NoHeader, NoHeader)
               known  == checkCritical(NoHeader, opts.KnownCritical)
               none   == decryptOne(NoHeader, ek, g, key, opts)
               next   == IF ek.form = "notb64" THEN failed("ErrMalformed") ELSE none
    <3>1. protectedOf(g).hdr = NoHeader
      BY <1>1, <2>3 DEF protectedOf
    <3>2. merged.hdr = NoHeader
      BY NoHeaderType, MergeNothing
    <3>3. "alg" \in Name /\ "zip" \in Name
      BY NameAssumption, KeyMgmtAssumption
    <3>4. Algorithm(NoHeader) = ""
      BY <3>3 DEF Algorithm, HeaderString, NoHeader, Absent
    <3>5. none.err # nil
      <4>1. PermitOf(NoHeader, key, opts) = "ErrInvalidHeader"
        BY <3>4 DEF PermitOf, AlgOf, permitErr
      <4> QED BY <1>3, <4>1, DecryptOneParts, OrFailedFails
    <3> HIDE DEF none
    <3>6. next.err # nil
      BY <1>3, <3>5 DEF failed
    <3>7. d = IF unprotectedZip(g, e) THEN failed("ErrInvalidHeader")
              ELSE orFailed(firstErr(merged.err, known), next)
      BY <1>1, <1>2, <3>1, <3>2 DEF decryptRecipient, d, none
    <3> HIDE DEF next, merged, known
    <3>8. d.err # nil
      <4>1. failed("ErrInvalidHeader").err # nil
        BY <1>3 DEF failed
      <4> QED BY <3>6, <3>7, <4>1, OrFailedFails
    <3>9. j.err # nil
      BY <3>8, OrFailedFails
    <3> HIDE DEF j
    <3>10. Alike(c, j)
      BY <2>1, <3>9 DEF Alike
    <3> QED BY <3>10 DEF c, d, j
  <2> QED BY <2>2, <2>3
<1>7. CASE decoded.err = nil
  <2> DEFINE next == IF ek.form = "notb64" THEN failed("ErrMalformed") ELSE one
  <2>1. protectedOf(g) = decoded
    BY <1>1, <1>3, <1>7 DEF protectedOf, decodeHeader
  <2>2. p \in Headers
    BY DecodeHeaderType DEF Docs
  <2>3. ~unprotectedZip(g, e)
    BY <1>1, <1>2 DEF unprotectedZip, Has, NoHeader
  <2>4. decryptOne(p, ek, g, key, opts) = one
    BY <1>1 DEF decryptOne
  <2>5. mergeThree(p, g.unprotected, e.header).err = nil
        /\ mergeThree(p, g.unprotected, e.header).hdr = p
    BY <1>1, <1>2, <2>2, MergeNothing
  <2>6. d = orFailed(crit, next)
    <3>1. firstErr(nil, crit) = crit
      BY DEF firstErr
    <3> HIDE DEF one, crit
    <3> QED BY <1>1, <2>1, <2>3, <2>4, <2>5, <3>1 DEF decryptRecipient, d, crit
  <2>7. jsonErr(g) = parts
    BY <1>5, <1>7, <2>1 DEF firstErr
  <2>8. c = orFailed(firstErr(crit, segs), one) /\ j = orFailed(parts, orFailed(crit, next))
    BY <1>4, <1>7, <2>6, <2>7
  <2> HIDE DEF one, crit, parts, j
  <2>9. CASE crit = nil /\ parts = nil /\ ek.form # "notb64"
    <3>1. c = one /\ j = one
      BY <2>8, <2>9 DEF firstErr, orFailed
    <3> QED BY <3>1 DEF Alike, c, d, j
  <2>10. CASE ~(crit = nil /\ parts = nil /\ ek.form # "notb64")
    <3>1. firstErr(crit, segs) # nil
      BY <1>3, <2>10 DEF firstErr
    <3>2. c.err # nil
      BY <2>8, <3>1, OrFailedFails
    <3>3. parts # nil \/ crit # nil \/ next.err # nil
      BY <1>3, <2>10 DEF failed
    <3> HIDE DEF next
    <3>4. j.err # nil
      BY <2>8, <3>3, OrFailedFails
    <3> QED BY <3>2, <3>4 DEF Alike, c, d, j
  <2> QED BY <2>9, <2>10
<1> QED BY <1>6, <1>7

(***************************************************************************)
(* For every document, key and options: what both serializations can carry *)
(* both calls accept, with the same plaintext and header, or neither does. *)
(***************************************************************************)
THEOREM SerializationsAgree == Spec => []ConsumersAgree
<1>1. ASSUME IInv, Returned PROVE ConsumersAgree
  <2> DEFINE g == [wire.doc EXCEPT !.form = "general"]
             c == DecryptWithOptions(wire.doc, decrypting.key, decrypting.opts)
             j == orFailed(jsonErr(g), decryptRecipient(g, g.recipients[1],
                                                        decrypting.key, decrypting.opts))
  <2> SUFFICES ASSUME decrypting.phase = "done", wire.doc.form = "compact"
               PROVE  /\ decrypting.result.err = nil <=> j.err = nil
                      /\ j.err = nil => j = decrypting.result
    BY DEF ConsumersAgree
  <2>1. decrypting.key \in KeyArgs
    BY <1>1, StateFacts DEF DecryptingLocals
  <2>2. Alike(c, j)
    BY <1>1, <2>1, DocFacts, ReadAlike
  <2>3. decrypting.result = c
    BY <1>1 DEF Returned
  <2> HIDE DEF c, j
  <2> QED BY <2>2, <2>3 DEF Alike, j
<1> QED BY <1>1, Invariance, ReturnedInvariance, PTL

-----------------------------------------------------------------------------
(* What producers make.                                                    *)

\* MadeInv's parts, of the locals or the document and the octets drawn so far.
LoopMade(e, d) ==
    LET c == e.call
        n == Len(e.out)
    IN  c.recipients # <<>> => e = Locals(c, d, n) /\ Looped(c, d, n)
WireMade(w, d) ==
    LET c == w.call
        k == d - 1 - Len(c.recipients)
    IN  IF c.recipients = <<>> THEN w.made = NoDoc ELSE k \in Nat /\ MadeBy(w.made, c, k)

LEMMA MadeParts ==
  MadeInv <=> /\ LoopMade(encrypting, drawn) /\ WireMade(wire, drawn)
              /\ wire.edits = 0 => wire.doc = wire.made
  BY DEF MadeInv, LoopMade, WireMade

LEMMA MadePartsNext ==
  ASSUME LoopMade(encrypting', drawn'), WireMade(wire', drawn'),
         wire'.edits = 0 => wire'.doc = wire'.made
  PROVE  MadeInv'
  BY DEF MadeInv, LoopMade, WireMade

\* A document made of the octets from place k on.
LEMMA WireMadeAt ==
  ASSUME NEW doc, NEW c \in Call, c.recipients # <<>>, NEW k \in Nat, MadeBy(doc, c, k),
         NEW w, w.call = c, w.made = doc
  PROVE  WireMade(w, k + 1 + Len(c.recipients))
<1>1. Len(c.recipients) \in Nat
  BY DEF Call
<1>2. (k + 1 + Len(c.recipients)) - 1 - Len(c.recipients) = k
  <2>1. PICK n \in Nat : n = Len(c.recipients)
    BY <1>1
  <2>2. (k + 1 + n) - 1 - n = k
    OBVIOUS
  <2> QED BY <2>1, <2>2
<1> QED BY <1>2 DEF WireMade

\* A document that a call returns is made by it, of the octets it drew.
LEMMA EmitMade ==
  ASSUME IInv, NEW c \in Call, c.recipients # <<>>, NEW doc, MadeBy(doc, c, drawn),
         Emit(doc, c),
         encrypting'.call.recipients = <<>>
  PROVE  MadeInv'
<1>1. /\ wire' = [doc |-> doc, made |-> doc, call |-> c, edits |-> 0]
      /\ drawn' = drawn + 1 + Len(c.recipients)
  BY DEF Emit
<1>2. wire'.call = c /\ wire'.made = doc /\ wire'.doc = doc
  BY <1>1
<1>3. WireMade(wire', drawn')
  BY <1>1, <1>2, StateFacts, WireMadeAt
<1>4. LoopMade(encrypting', drawn')
  BY DEF LoopMade
<1> QED BY <1>2, <1>3, <1>4, MadePartsNext

\* A step that makes no document.
LEMMA MadeKept ==
  ASSUME MadeInv, LoopMade(encrypting', drawn), UNCHANGED <<wire, drawn>>
  PROVE  MadeInv'
  BY MadeParts, MadePartsNext

\* A step that changes neither a call's locals nor what was made.
LEMMA MadeUndisturbed ==
  ASSUME MadeInv, UNCHANGED <<encrypting, drawn>>,
         wire' = wire \/ (/\ wire'.call = wire.call /\ wire'.made = wire.made
                          /\ wire'.edits # 0)
  PROVE  MadeInv'
<1>1. WireMade(wire', drawn')
  BY MadeParts DEF WireMade
<1> QED BY <1>1, MadeParts, MadePartsNext

\* What Locals(c, d, n) holds, and that nothing else does.
LocalsHold(e, c, d, n) ==
    /\ e.call = c
    /\ e.protected = IF Len(c.recipients) = 1 /\ n = 1 THEN RecipientOf(c, d, 1).header
                     ELSE sharedHeader(c)
    /\ e.cek = IF n = 0 THEN NoSecret ELSE RecipientOf(c, d, 1).cek
    /\ Len(e.out) = n
    /\ \A k \in 1..n :
          e.out[k] = entry(IF Len(c.recipients) = 1 THEN NoHeader
                           ELSE RecipientOf(c, d, k).header,
                           RecipientOf(c, d, k).key)

LEMMA LocalsParts ==
  ASSUME NEW c, NEW d, NEW n \in Nat
  PROVE  LocalsHold(Locals(c, d, n), c, d, n)
  BY DEF LocalsHold, Locals

LEMMA LocalsIs ==
  ASSUME NEW c, NEW d, NEW n \in Nat, NEW e \in EncryptingLocals, LocalsHold(e, c, d, n)
  PROVE  e = Locals(c, d, n)
<1> DEFINE own(k) == entry(IF Len(c.recipients) = 1 THEN NoHeader
                           ELSE RecipientOf(c, d, k).header, RecipientOf(c, d, k).key)
           l      == Locals(c, d, n)
<1>1. e = [call |-> e.call, protected |-> e.protected, cek |-> e.cek, out |-> e.out]
  BY DEF EncryptingLocals
<1>2. e.out = [k \in 1..n |-> own(k)]
  <2>1. e.out \in Seq(Entries) /\ Len(e.out) = n /\ \A k \in 1..n : e.out[k] = own(k)
    BY DEF EncryptingLocals, LocalsHold
  <2> HIDE DEF own
  <2> QED BY <2>1
<1>3. l = [call |-> l.call, protected |-> l.protected, cek |-> l.cek,
           out |-> [k \in 1..n |-> own(k)]]
  BY DEF Locals
<1>4. l.call = e.call /\ l.protected = e.protected /\ l.cek = e.cek
  BY DEF Locals, LocalsHold
<1> QED BY <1>1, <1>2, <1>3, <1>4

\* The initial state.
LEMMA InitMadeInv == Init => MadeInv
<1> SUFFICES ASSUME Init PROVE MadeInv
  OBVIOUS
<1>1. encrypting.call.recipients = <<>>
  BY NoEncryptingType DEF Init
<1>2. wire.call.recipients = <<>> /\ wire.doc = wire.made /\ wire.made = NoDoc
  BY NoCallType DEF Init, NoWire
<1> QED BY <1>1, <1>2, MadeParts DEF LoopMade, WireMade

\* Encrypt makes what it returns.
LEMMA EncryptCompactMade == ASSUME IInv, MadeInv, EncryptCompact PROVE MadeInv'
<1>1. PICK c \in Calls :
        /\ MayMake(c) /\ SingleCall(c)
        /\ \E r \in {Encrypt(c.plaintext, c.recipients[1].Key, c.opts, fresh(1))} :
             r.err = nil /\ Emit(r.doc, c)
  BY DEF EncryptCompact
<1> DEFINE r == Encrypt(c.plaintext, c.recipients[1].Key, c.opts, fresh(1))
<1>2. r.err = nil /\ Emit(r.doc, c) /\ c \in Call /\ c.recipients # <<>>
  BY <1>1, JWEAssumption
<1>3. r = Encrypt(c.plaintext, c.recipients[1].Key, c.opts, Draws(drawn, 1))
  BY DEF fresh, Draws
<1>4. MadeBy(r.doc, c, drawn)
  <2> HIDE DEF r
  <2> QED BY <1>1, <1>2, <1>3 DEF MadeBy
<1>5. encrypting'.call.recipients = <<>>
  BY DEF EncryptCompact, Idle
<1> HIDE DEF r
<1> QED BY <1>2, <1>4, <1>5, EmitMade

\* EncryptJSONMulti begins with no recipient done.
LEMMA StartEncryptMade == ASSUME IInv, MadeInv, StartEncryptJSONMulti PROVE MadeInv'
<1>1. PICK c \in Calls :
        /\ MayMake(c) /\ multiErr(c) = nil
        /\ encrypting' = [NoEncrypting EXCEPT !.call = c, !.protected = sharedHeader(c)]
  BY DEF StartEncryptJSONMulti
<1>2. c \in Call /\ sharedHeader(c) \in Headers
  BY JWEAssumption, SharedHeaderType
<1> DEFINE h == sharedHeader(c)
           e == [NoEncrypting EXCEPT !.call = c, !.protected = h]
<1>3. e \in EncryptingLocals /\ e.call = c /\ e.protected = h /\ e.out = <<>> /\ e.cek = NoSecret
  <2> HIDE DEF h
  <2>1. h \in Headers
    BY <1>2 DEF h
  <2> QED BY <1>2, <2>1, NoEncryptingType DEF EncryptingLocals
<1>4. encrypting' = e
  BY <1>1
<1> HIDE DEF e
<1>5. LocalsHold(e, c, drawn, 0) /\ Len(e.out) = 0
  BY <1>3 DEF LocalsHold
<1>6. Looped(c, drawn, 0)
  BY <1>1 DEF Looped
<1>7. e = Locals(c, drawn, 0)
  BY <1>3, <1>5, LocalsIs
<1>8. LoopMade(e, drawn)
  BY <1>3, <1>5, <1>6, <1>7 DEF LoopMade
<1> QED BY <1>4, <1>8, MadeKept DEF StartEncryptJSONMulti

\* The loop is at recipient n + 1 of the call it works on.
LEMMA LoopAt ==
  ASSUME MadeInv, IInv, encrypting.call.recipients # <<>>
  PROVE  /\ LocalsHold(encrypting, encrypting.call, drawn, Len(encrypting.out))
         /\ encrypting = Locals(encrypting.call, drawn, Len(encrypting.out))
         /\ Looped(encrypting.call, drawn, Len(encrypting.out))
<1> DEFINE n == Len(encrypting.out)
<1>1. encrypting = Locals(encrypting.call, drawn, n) /\ Looped(encrypting.call, drawn, n)
  BY MadeParts DEF LoopMade
<1>2. n \in Nat
  BY StateFacts
<1> HIDE DEF n
<1>3. LocalsHold(Locals(encrypting.call, drawn, n), encrypting.call, drawn, n)
  BY <1>2, LocalsParts
<1>4. LocalsHold(encrypting, encrypting.call, drawn, n)
  BY <1>1, <1>3
<1> QED BY <1>1, <1>4 DEF n

\* What it makes of that recipient.
LEMMA NextKeyIs ==
  ASSUME MadeInv, IInv, Len(encrypting.out) + 1 <= Len(encrypting.call.recipients)
  PROVE  NextKey = RecipientOf(encrypting.call, drawn, Len(encrypting.out) + 1)
<1> DEFINE c == encrypting.call
           n == Len(encrypting.out)
<1>1. n \in Nat /\ c.recipients # <<>>
  BY StateFacts
<1>2. LocalsHold(encrypting, c, drawn, n)
  BY <1>1, LoopAt
<1>3. fresh(n + 1) = Draws(drawn, n + 1)
  BY DEF fresh, Draws
<1>4. ~(Len(c.recipients) = 1 /\ n = 1)
  <2>1. PICK m \in Nat : m = Len(c.recipients)
    BY StateFacts
  <2>2. n + 1 <= m
    BY <2>1
  <2>3. ~(m = 1 /\ n = 1)
    BY <2>2
  <2> QED BY <2>1, <2>3
<1>5. encrypting.protected = sharedHeader(c)
  BY <1>2, <1>4 DEF LocalsHold
<1> HIDE DEF n
<1>6. NextKey = encryptRecipient(c.recipients[n + 1], Len(c.recipients), chooseEnc(c.opts),
                                 sharedHeader(c), encrypting.cek, Draws(drawn, n + 1))
  BY <1>3, <1>5 DEF NextKey, n
<1>7. CASE n = 0
  <2>1. encrypting.cek = NoSecret /\ n + 1 = 1
    BY <1>2, <1>7 DEF LocalsHold
  <2> QED BY <1>6, <2>1 DEF RecipientOf, n
<1>8. CASE n # 0
  <2>1. n + 1 # 1
    BY <1>1, <1>8
  <2>2. encrypting.cek = RecipientOf(c, drawn, 1).cek
    BY <1>2, <1>8 DEF LocalsHold
  <2> HIDE DEF c
  <2>3. RecipientOf(c, drawn, 1) = encryptRecipient(c.recipients[1], Len(c.recipients),
                                     chooseEnc(c.opts), sharedHeader(c), NoSecret,
                                     Draws(drawn, 1))
    BY DEF RecipientOf
  <2>4. RecipientOf(c, drawn, n + 1) =
          encryptRecipient(c.recipients[n + 1], Len(c.recipients), chooseEnc(c.opts),
                           sharedHeader(c), RecipientOf(c, drawn, 1).cek,
                           Draws(drawn, n + 1))
    BY <2>1, <2>3 DEF RecipientOf
  <2> QED BY <1>6, <2>2, <2>4 DEF c, n
<1> QED BY <1>7, <1>8

\* One more recipient is done as the others are.
LEMMA EncryptNextMade == ASSUME IInv, MadeInv, EncryptNext PROVE MadeInv'
<1> DEFINE c == encrypting.call
           n == Len(encrypting.out)
           x == NextKey
<1>1. /\ n + 1 <= Len(c.recipients)
      /\ encrypting' = nextEncrypting(encrypting, x)
      /\ UNCHANGED <<wire, drawn>>
  BY DEF EncryptNext, NextKey
<1>2. n \in Nat /\ c.recipients # <<>> /\ n + 1 \in Nat
  BY <1>1, StateFacts
<1>3. CASE x.err # nil
  <2>1. encrypting' = NoEncrypting
    BY <1>1, <1>3 DEF nextEncrypting
  <2>2. LoopMade(encrypting', drawn)
    BY <2>1, NoEncryptingType DEF LoopMade
  <2> QED BY <1>1, <2>2, MadeKept
<1>4. CASE x.err = nil
  <2>1. x = RecipientOf(c, drawn, n + 1)
    BY <1>1, NextKeyIs
  <2>2. /\ LocalsHold(encrypting, c, drawn, n) /\ Looped(c, drawn, n)
        /\ encrypting \in EncryptingLocals
    BY <1>2, LoopAt, StateFacts
  <2>3. RecipientMade(x, c, n + 1, encrypting.cek, Random[drawn + 1])
    BY <1>1, <1>4, NextKeyMade
  <2>4. /\ x.cek \in Secrets /\ x.key \in EncryptedKeys /\ x.header \in Headers
        /\ encrypting.cek # NoSecret => x.cek = encrypting.cek
    BY <2>3 DEF RecipientMade
  <2> HIDE DEF x
  <2>5. Looped(c, drawn, n + 1)
    <3>1. ASSUME NEW k \in 1..(n + 1) PROVE RecipientOf(c, drawn, k).err = nil
      <4>1. CASE k = n + 1
        BY <1>4, <2>1, <4>1
      <4>2. CASE k # n + 1
        <5>1. k \in 1..n
          BY <1>2, <4>2
        <5> QED BY <2>2, <5>1 DEF Looped
      <4> QED BY <4>1, <4>2
    <3> QED BY <2>2, <3>1 DEF Looped
  <2>6. PICK e : e = encrypting'
    OBVIOUS
  <2>7. e \in EncryptingLocals /\ LocalsHold(e, c, drawn, n + 1)
    <3>1. CASE Len(c.recipients) = 1
      <4> DEFINE own == entry(NoHeader, x.key)
                 out == <<own>>
      <4>1. e = [encrypting EXCEPT !.cek = x.cek, !.protected = x.header, !.out = out]
        BY <1>1, <1>4, <2>6, <3>1 DEF nextEncrypting
      <4>2. n = 0
        BY <1>1, <1>2, <3>1
      <4>3. own \in Entries
        BY <2>4, NoHeaderType, EntryParts
      <4> HIDE DEF own
      <4>4. out \in Seq(Entries) /\ Len(out) = 1 /\ \A k \in 1..1 : out[k] = own
        BY <4>3
      <4> HIDE DEF out
      <4>5. /\ e \in EncryptingLocals /\ e.call = c /\ e.cek = x.cek
            /\ e.protected = x.header /\ e.out = out
        BY <2>2, <2>4, <4>1, <4>4 DEF EncryptingLocals
      <4>6. x = RecipientOf(c, drawn, 1) /\ n + 1 = 1
        BY <2>1, <4>2
      <4> HIDE DEF c, n
      <4>7. \A k \in 1..1 : out[k] = entry(NoHeader, RecipientOf(c, drawn, k).key)
        BY <4>4, <4>6 DEF own
      <4> QED BY <3>1, <4>4, <4>5, <4>6, <4>7 DEF LocalsHold
    <3>2. CASE Len(c.recipients) # 1
      <4> DEFINE own == entry(x.header, x.key)
                 out == Append(encrypting.out, own)
      <4>1. e = [encrypting EXCEPT !.cek = x.cek, !.out = out]
        BY <1>1, <1>4, <2>6, <3>2 DEF nextEncrypting
      <4>2. own \in Entries
        BY <2>4, EntryParts
      <4> HIDE DEF own
      <4>3. /\ out \in Seq(Entries) /\ Len(out) = n + 1
            /\ \A k \in 1..n : out[k] = encrypting.out[k]
            /\ out[n + 1] = own
        BY <4>2, StateFacts
      <4> HIDE DEF out
      <4>4. /\ e \in EncryptingLocals /\ e.call = c /\ e.cek = x.cek
            /\ e.protected = encrypting.protected /\ e.out = out
        BY <2>2, <2>4, <4>1, <4>3 DEF EncryptingLocals
      <4>5. e.protected = sharedHeader(c) /\ n + 1 # 0
        BY <1>2, <2>2, <3>2, <4>4 DEF LocalsHold
      <4>6. x.cek = RecipientOf(c, drawn, 1).cek
        <5>1. CASE n = 0
          BY <2>1, <5>1
        <5>2. CASE n # 0
          <6>1. encrypting.cek = RecipientOf(c, drawn, 1).cek
            BY <2>2, <5>2 DEF LocalsHold
          <6>2. encrypting.out # <<>>
            BY <5>2
          <6>3. encrypting.cek.from = "random"
            BY <1>2, <3>2, <6>2 DEF IInv, EncryptingMade
          <6>4. encrypting.cek # NoSecret
            BY <6>3, NoSecretFrom
          <6> QED BY <2>4, <6>1, <6>4
        <5> QED BY <5>1, <5>2
      <4> HIDE DEF c
      <4>7. ASSUME NEW k \in 1..(n + 1)
            PROVE  out[k] = entry(RecipientOf(c, drawn, k).header, RecipientOf(c, drawn, k).key)
        <5>1. CASE k = n + 1
          BY <2>1, <4>3, <5>1 DEF own
        <5>2. CASE k # n + 1
          <6>1. k \in 1..n
            BY <1>2, <5>2
          <6>2. encrypting.out[k] = entry(RecipientOf(c, drawn, k).header,
                                          RecipientOf(c, drawn, k).key)
            BY <2>2, <3>2, <6>1 DEF LocalsHold
          <6> QED BY <4>3, <6>1, <6>2
        <5> QED BY <5>1, <5>2
      <4> HIDE DEF n
      <4> QED BY <3>2, <4>3, <4>4, <4>5, <4>6, <4>7 DEF LocalsHold
    <3> QED BY <3>1, <3>2
  <2>8. e.call = c /\ Len(e.out) = n + 1
    BY <2>7 DEF LocalsHold
  <2> HIDE DEF c, n
  <2>9. e = Locals(c, drawn, n + 1)
    BY <1>2, <2>7, LocalsIs
  <2>10. LoopMade(e, drawn)
    BY <2>5, <2>8, <2>9 DEF LoopMade
  <2> QED BY <1>1, <2>6, <2>10, MadeKept
<1> QED BY <1>3, <1>4

\* EncryptJSONMulti makes what it returns.
LEMMA EncryptReturnMade == ASSUME IInv, MadeInv, EncryptReturn PROVE MadeInv'
<1> DEFINE c == encrypting.call
           r == finish(c, encrypting.protected, encrypting.cek, encrypting.out)
<1>1. /\ c.recipients # <<>> /\ Len(encrypting.out) = Len(c.recipients)
      /\ encrypting' = NoEncrypting
      /\ IF r.err = nil THEN Emit(r.doc, c) ELSE UNCHANGED <<wire, decrypting, sealed, drawn>>
  BY DEF EncryptReturn
<1>2. encrypting'.call.recipients = <<>>
  BY <1>1, NoEncryptingType
<1>3. CASE r.err # nil
  <2>1. LoopMade(encrypting', drawn)
    BY <1>2 DEF LoopMade
  <2> QED BY <1>1, <1>3, <2>1, MadeKept
<1>4. CASE r.err = nil
  <2> DEFINE l == Locals(c, drawn, Len(c.recipients))
  <2>1. encrypting = l /\ Looped(c, drawn, Len(c.recipients))
    BY <1>1, LoopAt
  <2>2. r = finish(c, l.protected, l.cek, l.out)
    BY <2>1
  <2>3. MadeBy(r.doc, c, drawn)
    <3> HIDE DEF r, c
    <3> QED BY <1>4, <2>1, <2>2 DEF MadeBy
  <2>4. Emit(r.doc, c) /\ c \in Call
    BY <1>1, <1>4, StateFacts
  <2>5. c.recipients # <<>>
    BY <1>1
  <2> HIDE DEF r, c
  <2> QED BY <1>2, <2>3, <2>4, <2>5, EmitMade
<1> QED BY <1>3, <1>4

LEMMA NextMadeInv == IInv /\ MadeInv /\ [Next]_vars => MadeInv'
<1> SUFFICES ASSUME IInv, MadeInv, [Next]_vars PROVE MadeInv'
  OBVIOUS
<1>1. CASE Transit
  <2>1. PICK doc : Edit(doc)
    BY <1>1, TransitEdits
  <2>2. wire \in Wires
    BY DEF IInv, TypeOK, Wires
  <2>3. /\ wire' = [wire EXCEPT !.doc = doc, !.edits = wire.edits + 1]
        /\ UNCHANGED <<encrypting, drawn>>
    BY <2>1 DEF Edit
  <2>4. wire.edits \in Nat /\ wire'.edits = wire.edits + 1
    BY <2>2, <2>3 DEF Wires
  <2>5. wire'.call = wire.call /\ wire'.made = wire.made /\ wire'.edits # 0
    BY <2>2, <2>3, <2>4 DEF Wires
  <2> QED BY <2>3, <2>5, MadeUndisturbed
<1>2. CASE Decrypt \/ StartDecryptJSON \/ DecryptNext \/ ResultSeen \/ UNCHANGED vars
  <2>1. UNCHANGED <<encrypting, wire, drawn>>
    BY <1>2 DEF Decrypt, StartDecryptJSON, DecryptNext, ResultSeen, vars
  <2> QED BY <2>1, MadeUndisturbed
<1> QED BY <1>1, <1>2, EncryptCompactMade, StartEncryptMade, EncryptNextMade,
           EncryptReturnMade DEF Next

\* The document last made is what Encrypt or EncryptJSONMulti make of their
\* call, and a loop under way has done its first recipients as they would.
THEOREM MadeInvariance == Spec => []MadeInv
<1>1. Init => MadeInv
  BY InitMadeInv
<1>2. IInv /\ MadeInv /\ [Next]_vars => MadeInv'
  BY NextMadeInv
<1> QED BY <1>1, <1>2, Invariance, PTL DEF Spec

-----------------------------------------------------------------------------
(* The restrictions of keys.                                               *)

\* A draw of the call that draws from place d on.
LEMMA DrawsType ==
  ASSUME NEW d \in Nat, NEW n \in Nat, NEW k \in 1..n, d + 1 + n <= Len(Random)
  PROVE  /\ Draws(d, k).cek = Random[d + 1]
         /\ Draws(d, k).cek \in Symbol /\ Draws(d, k).own \in Symbol
<1>1. d + 1 \in 1..Len(Random) /\ d + 1 + k \in 1..Len(Random)
  BY RandomLen
<1>2. Random[d + 1] \in Symbol /\ Random[d + 1 + k] \in Symbol
  BY <1>1, RandomType, SegTexts
<1> QED BY <1>2 DEF Draws

\* What EncryptJSONMulti makes of a recipient fits the call.
LEMMA RecipientOfMade ==
  ASSUME NEW c \in Call, NEW d \in Nat, d + 1 + Len(c.recipients) <= Len(Random),
         Looped(c, d, Len(c.recipients)), NEW k \in 1..Len(c.recipients)
  PROVE  RecipientMade(RecipientOf(c, d, k), c, k,
                       IF k = 1 THEN NoSecret ELSE RecipientOf(c, d, 1).cek, Random[d + 1])
<1> DEFINE n          == Len(c.recipients)
           of(i, cek) == encryptRecipient(c.recipients[i], n, chooseEnc(c.opts),
                                          sharedHeader(c), cek, Draws(d, i))
<1>1. n \in Nat /\ lookupEnc(chooseEnc(c.opts)) = nil
  BY DEF Call, Looped, multiErr, nil
<1>2. ASSUME NEW i \in 1..n, NEW given \in Secrets, given = NoSecret \/ given.from = "random",
             of(i, given).err = nil
      PROVE  RecipientMade(of(i, given), c, i, given, Random[d + 1])
  <2>1. /\ Draws(d, i).cek = Random[d + 1]
        /\ Draws(d, i).cek \in Symbol /\ Draws(d, i).own \in Symbol
    <3> HIDE DEF n
    <3>1. d + 1 + n <= Len(Random)
      BY DEF n
    <3> QED BY <1>1, <1>2, <3>1, DrawsType
  <2> QED BY <1>1, <1>2, <2>1, EncryptRecipientMade
<1> DEFINE x(i) == RecipientOf(c, d, i)
<1>3. x(1) = of(1, NoSecret) /\ (k # 1 => x(k) = of(k, x(1).cek))
  BY DEF RecipientOf
<1>4. \A i \in 1..n : x(i).err = nil
  BY DEF Looped
<1> HIDE DEF x, of
<1>5. 1 \in 1..n
  <2> HIDE DEF n
  <2>1. k \in 1..n
    BY DEF n
  <2> QED BY <1>1, <2>1
<1>6. RecipientMade(x(1), c, 1, NoSecret, Random[d + 1])
  BY <1>2, <1>3, <1>4, <1>5, NoSecretType
<1>7. CASE k = 1
  BY <1>6, <1>7 DEF x
<1>8. CASE k # 1
  <2>1. n # 1
    <3> HIDE DEF n
    <3>1. k \in 1..n
      BY DEF n
    <3> QED BY <1>1, <1>8, <3>1
  <2>2. x(1).cek \in Secrets /\ x(1).cek.from = "random"
    BY <1>6, <2>1 DEF RecipientMade
  <2>3. RecipientMade(x(k), c, k, x(1).cek, Random[d + 1])
    BY <1>2, <1>3, <1>4, <1>8, <2>2
  <2> QED BY <1>8, <2>3 DEF x
<1> QED BY <1>7, <1>8

\* The locals with which its loop ends.
LEMMA LocalsMade ==
  ASSUME NEW c \in Call, NEW d \in Nat, d + 1 + Len(c.recipients) <= Len(Random),
         Looped(c, d, Len(c.recipients)), c.recipients # <<>>
  PROVE  LET n == Len(c.recipients)
             l == Locals(c, d, n)
         IN  /\ l.protected \in Headers /\ l.cek \in Secrets /\ l.out \in Seq(Entries)
             /\ LocalsHold(l, c, d, n)
<1> DEFINE n      == Len(c.recipients)
           l      == Locals(c, d, n)
           own(k) == entry(IF n = 1 THEN NoHeader ELSE RecipientOf(c, d, k).header,
                           RecipientOf(c, d, k).key)
<1>1. n \in Nat /\ n # 0
  BY DEF Call
<1>2. LocalsHold(l, c, d, n)
  BY <1>1, LocalsParts
<1>3. ASSUME NEW k \in 1..n
      PROVE  /\ RecipientOf(c, d, k).cek \in Secrets /\ RecipientOf(c, d, k).header \in Headers
             /\ RecipientOf(c, d, k).key \in EncryptedKeys
  BY <1>3, RecipientOfMade DEF RecipientMade
<1>4. ASSUME NEW k \in 1..n PROVE own(k) \in Entries
  <2>1. (IF n = 1 THEN NoHeader ELSE RecipientOf(c, d, k).header) \in Headers
    BY <1>3, NoHeaderType
  <2> QED BY <1>3, <2>1, EntryParts
<1>5. l.out = [k \in 1..n |-> own(k)]
  BY DEF Locals
<1>6. 1 \in 1..n
  BY <1>1
<1> HIDE DEF own, l, n
<1>7. l.out \in Seq(Entries)
  BY <1>1, <1>4, <1>5
<1>8. l.protected \in Headers /\ l.cek \in Secrets
  <2>1. l.protected \in {RecipientOf(c, d, 1).header, sharedHeader(c)}
        /\ l.cek = RecipientOf(c, d, 1).cek
    BY <1>1, <1>2 DEF LocalsHold, n
  <2> QED BY <1>3, <1>6, <2>1, SharedHeaderType
<1> QED BY <1>2, <1>7, <1>8 DEF l, n

\* The document tells each recipient the "alg" and "enc" its key was checked
\* for.
LEMMA MadeEntitles ==
  ASSUME NEW doc, NEW c \in Call, NEW d \in Nat, d + 1 + Len(c.recipients) <= Len(Random),
         MadeBy(doc, c, d), NEW k \in 1..Len(c.recipients)
  PROVE  Entitled(doc, c, k)
<1> DEFINE n == Len(c.recipients)
           l == Locals(c, d, n)
<1>1. n \in Nat /\ n # 0 /\ c.recipients # <<>>
  BY DEF Call
<1>2. CASE /\ SingleCall(c)
           /\ Encrypt(c.plaintext, c.recipients[1].Key, c.opts, Draws(d, 1)).err = nil
           /\ doc = Encrypt(c.plaintext, c.recipients[1].Key, c.opts, Draws(d, 1)).doc
  <2>1. n = 1 /\ k = 1
    BY <1>2 DEF SingleCall
  <2>2. Draws(d, 1).cek \in Symbol /\ Draws(d, 1).own \in Symbol
    <3>1. 1 \in 1..1 /\ d + 1 + 1 <= Len(Random)
      BY <2>1
    <3> QED BY <3>1, DrawsType
  <2> QED BY <1>2, <2>1, <2>2, EncryptEntitles
<1>3. CASE /\ Looped(c, d, n)
           /\ finish(c, l.protected, l.cek, l.out).err = nil
           /\ doc = finish(c, l.protected, l.cek, l.out).doc
  <2> DEFINE enc == chooseEnc(c.opts)
             P   == l.protected
             H   == l.out[k].header
             U   == c.opts.Unprotected
             x   == RecipientOf(c, d, k)
  <2>1. /\ P \in Headers /\ l.cek \in Secrets /\ l.out \in Seq(Entries)
        /\ LocalsHold(l, c, d, n)
    BY <1>1, <1>3, LocalsMade
  <2>2. RecipientMade(x, c, k, IF k = 1 THEN NoSecret ELSE RecipientOf(c, d, 1).cek,
                      Random[d + 1])
    BY <1>3, RecipientOfMade
  <2>3. /\ Len(l.out) = n
        /\ l.out[k] = entry(IF n = 1 THEN NoHeader ELSE x.header, x.key)
        /\ P = IF n = 1 THEN RecipientOf(c, d, 1).header ELSE sharedHeader(c)
    BY <2>1 DEF LocalsHold
  <2>4. k \in 1..Len(l.out)
    BY <2>3
  <2> HIDE DEF l
  <2>5. /\ U \in Headers /\ H \in Headers
        /\ mergeThree(P, U, H).err = nil
        /\ MergedOf(doc, k) = copyHeader(copyHeader(JSON(P), JSON(U)), JSON(H))
    BY <1>3, <2>1, <2>4, FinishMerged
  <2>6. H = IF n = 1 THEN NoHeader ELSE x.header
    BY <2>3 DEF entry
  <2> HIDE DEF x, P, H, U
  <2>7. PICK alg \in Symbol : x.header["alg"] = Str(alg) /\ Permitted(c.recipients[k], alg, enc)
    BY <2>2 DEF RecipientMade
  <2>8. n = 1 => P = x.header /\ x.header["enc"] = Str(enc)
    BY <2>2, <2>3 DEF RecipientMade, x
  <2>9. n # 1 => P["enc"] = Str(enc)
    <3>1. c.opts \in EncryptOptions /\ "enc" \in Name \ {"kid"}
      BY KeyMgmtAssumption DEF Call
    <3>2. sharedHeader(c)["enc"] = Str(enc)
      BY <3>1, SharedHeaderType, BaseHeaderType
    <3> QED BY <2>3, <3>2
  <2>10. "alg" \in Name /\ "enc" \in Name
    BY NameAssumption, KeyMgmtAssumption
  <2>11. (P["alg"] = Str(alg) \/ H["alg"] = Str(alg)) /\ P["enc"] = Str(enc)
    BY <2>6, <2>7, <2>8, <2>9
  <2> HIDE DEF n, enc
  <2>12. MergedOf(doc, k)["alg"] = Str(alg) /\ MergedOf(doc, k)["enc"] = Str(enc)
    BY <2>1, <2>5, <2>10, <2>11, MergedMember DEF P
  <2> QED BY <2>7, <2>12 DEF Entitled, enc
<1> QED BY <1>2, <1>3 DEF MadeBy

\* What a consumer accepts, one of the functions has opened.
LEMMA AcceptedOpens ==
  ASSUME IInv, LoopInv, Returned, Accepted
  PROVE  /\ Opens(decrypting.result, wire.doc, decrypting.key, decrypting.opts)
         /\ decrypting.key \in KeyArgs
<1>1. wire.doc \in Docs /\ decrypting.key \in KeyArgs /\ WellFormed(wire.doc)
  BY DEF IInv, TypeOK
<1>2. decrypting.phase = "done" /\ decrypting.result.err = nil /\ wire.doc.form # "none"
  BY DEF Accepted, Returned
<1>3. CASE wire.doc.form = "compact"
  <2>1. decrypting.result = DecryptWithOptions(wire.doc, decrypting.key, decrypting.opts)
    BY <1>2, <1>3 DEF Returned
  <2> QED BY <1>1, <1>2, <2>1, DecryptWithOptionsSucceeds
<1>4. CASE wire.doc.form # "compact"
  <2>1. jsonErr(wire.doc) = nil
    <3>1. PICK e : e = jsonErr(wire.doc)
      OBVIOUS
    <3>2. e # nil => decrypting.result = failed(e)
      BY <1>2, <1>4, <3>1 DEF Returned
    <3>3. failed(e).err = e
      BY DEF failed
    <3> QED BY <1>2, <3>1, <3>2, <3>3
  <2> DEFINE order == recipientOrder(wire.doc, decrypting.key)
  <2>2. JSONLoopDone
    BY <1>2, <1>4, <2>1 DEF JSONLoopDone
  <2>3. PICK p \in 1..Len(order) : decrypting.result = RecipientResult(order[p])
    BY <2>2 DEF LoopInv
  <2>4. order[p] \in 1..Len(recipientsOf(wire.doc))
    BY <1>1, RecipientOrderTriesAll DEF TriesAll
  <2> HIDE DEF order
  <2> QED BY <1>1, <1>2, <2>3, <2>4, DecryptRecipientSucceeds DEF RecipientResult
<1> QED BY <1>1, <1>3, <1>4

(***************************************************************************)
(* For all keys, sets, calls and documents: no document is made for, and   *)
(* none read with, a JWK that does not permit it.                          *)
(***************************************************************************)
THEOREM KeyRestrictions == Spec => []KeyRestrictionsHonoured
<1>1. ASSUME IInv, LoopInv, Returned, MadeInv PROVE KeyRestrictionsHonoured
  <2>1. ASSUME wire.edits = 0, NEW k \in 1..Len(wire.call.recipients)
        PROVE  LET r == wire.call.recipients[k]
               IN  PermittedBy(r.Key, resolveKey(r.Key, r.KeyID).key.pair,
                               {"encrypt", "wrapKey", "deriveKey"},
                               AlgsOf(MergedOf(wire.doc, k)))
    <3>1. PICK c : c = wire.call
      OBVIOUS
    <3>2. PICK n : n = Len(c.recipients)
      OBVIOUS
    <3>3. PICK d : d = drawn - 1 - n
      OBVIOUS
    <3>4. c \in Call /\ wire.doc = wire.made /\ k \in 1..n /\ n \in Nat
      BY <1>1, <2>1, <3>1, <3>2 DEF IInv, TypeOK, MadeInv, Call
    <3>5. c.recipients # <<>>
      BY <3>2, <3>4
    <3>6. d \in Nat /\ MadeBy(wire.made, c, d)
      BY <1>1, <3>1, <3>2, <3>3, <3>5 DEF MadeInv
    <3>7. d + 1 + n <= Len(Random)
      <4>1. drawn \in Nat /\ drawn <= Len(Random)
        BY <1>1, StateFacts
      <4> QED BY <3>3, <3>4, <3>6, <4>1, RandomLen
    <3>8. Entitled(wire.doc, c, k)
      BY <3>2, <3>4, <3>6, <3>7, MadeEntitles
    <3> QED BY <3>1, <3>2, <3>4, <3>8, EntitledIsPermitted
  <2>2. ASSUME Accepted
        PROVE  PermittedBy(decrypting.key, UsedKey.pair, DecryptOps,
                           AlgsOf(decrypting.result.header))
    <3>1. /\ Opens(decrypting.result, wire.doc, decrypting.key, decrypting.opts)
          /\ decrypting.key \in KeyArgs
      BY <1>1, <2>2, AcceptedOpens
    <3>2. PICK h, ek : Reads(decrypting.result, h, ek, wire.doc, decrypting.key,
                             decrypting.opts)
      BY <3>1 DEF Opens
    <3>3. /\ decrypting.result.header = h
          /\ checkJWKUsage(decrypting.key, KeyID(h), "enc", AlgsOf(h), DecryptOps) = nil
          /\ resolveKey(decrypting.key, KeyID(h)).err = nil
      BY <3>2 DEF Reads, ResolvedOf
    <3>4. UsedKey = resolveKey(decrypting.key, KeyID(h)).key
      BY <3>3 DEF UsedKey
    <3> QED BY <3>1, <3>3, <3>4, CheckedIsPermitted
  <2> QED BY <2>1, <2>2 DEF KeyRestrictionsHonoured
<1> QED BY <1>1, Invariance, LoopInvariance, ReturnedInvariance, MadeInvariance, PTL

-----------------------------------------------------------------------------
(* Encrypt and EncryptJSON.                                                *)

\* With one recipient, EncryptJSONMulti is encryptJSON.
LEMMA LoopIsEncryptJSON ==
  ASSUME NEW c, NEW d, Len(c.recipients) = 1, Looped(c, d, 1),
         LET l == Locals(c, d, 1)
         IN  finish(c, l.protected, l.cek, l.out).err = nil
  PROVE  encryptJSON(c, Draws(d, 1)).err = nil
<1> DEFINE l   == Locals(c, d, 1)
           x   == RecipientOf(c, d, 1)
           y   == encryptRecipient(c.recipients[1], 1, chooseEnc(c.opts), sharedHeader(c),
                                   NoSecret, Draws(d, 1))
           fin == finish(c, x.header, x.cek, <<entry(NoHeader, x.key)>>)
<1>1. x = y
  BY DEF RecipientOf
<1>2. multiErr(c) = nil /\ x.err = nil
  BY DEF Looped
<1> HIDE DEF x
<1>3. l.protected = x.header /\ l.cek = x.cek
  BY DEF Locals, x
<1>4. l.out = <<entry(NoHeader, x.key)>>
  <2>1. l.out = [k \in 1..1 |-> entry(NoHeader, RecipientOf(c, d, k).key)]
    BY DEF Locals
  <2>2. \A v : [k \in 1..1 |-> v] = <<v>>
    OBVIOUS
  <2>3. [k \in 1..1 |-> entry(NoHeader, RecipientOf(c, d, k).key)]
          = [k \in 1..1 |-> entry(NoHeader, x.key)]
    BY DEF x
  <2> QED BY <2>1, <2>2, <2>3
<1>5. fin.err = nil
  <2>1. finish(c, l.protected, l.cek, l.out).err = nil
    OBVIOUS
  <2> HIDE DEF l
  <2> QED BY <1>3, <1>4, <2>1
<1>6. encryptJSON(c, Draws(d, 1)) = orNotMade(multiErr(c), orNotMade(y.err,
         finish(c, y.header, y.cek, <<entry(NoHeader, y.key)>>)))
  BY DEF encryptJSON
<1> HIDE DEF y
<1>7. finish(c, y.header, y.cek, <<entry(NoHeader, y.key)>>).err = nil /\ y.err = nil
  BY <1>1, <1>2, <1>5
<1> QED BY <1>2, <1>6, <1>7 DEF orNotMade

\* Whichever of the two made a document, both make it.
LEMMA MadeAlike ==
  ASSUME NEW c \in Call, SingleCall(c), c.opts.Unprotected = NoHeader, c.opts.AAD = Empty,
         ~Has(copyHeader(c.opts.Header, c.opts.AdditionalHeaders), "alg"),
         NEW d \in Nat, d + 2 <= Len(Random), NEW doc, MadeBy(doc, c, d)
  PROVE  SameDocument(Encrypt(c.plaintext, c.recipients[1].Key, c.opts, Draws(d, 1)),
                      encryptJSON(c, Draws(d, 1)))
<1>1. Len(c.recipients) = 1
  BY DEF SingleCall
<1>2. Draws(d, 1).cek \in Symbol /\ Draws(d, 1).own \in Symbol
  <2>1. 1 \in 1..1 /\ d + 1 + 1 <= Len(Random)
    BY RandomLen
  <2> QED BY <2>1, DrawsType
<1>3. BothAccept(c, Draws(d, 1))
  <2>1. CASE Encrypt(c.plaintext, c.recipients[1].Key, c.opts, Draws(d, 1)).err = nil
    BY <2>1, EncryptAccepts
  <2>2. CASE /\ Looped(c, d, 1)
             /\ LET l == Locals(c, d, 1)
                IN  finish(c, l.protected, l.cek, l.out).err = nil
    <3>1. encryptJSON(c, Draws(d, 1)).err = nil
      BY <1>1, <2>2, LoopIsEncryptJSON
    <3> QED BY <1>2, <3>1, EncryptJSONAccepts
  <2> QED BY <1>1, <2>1, <2>2 DEF MadeBy
<1> QED BY <1>2, <1>3, BothMake

(***************************************************************************)
(* For all keys, sets and calls: Encrypt and EncryptJSON make the same     *)
(* document of a call that both can be given.                              *)
(***************************************************************************)
THEOREM ProducersAlike == Spec => []ProducersAgree
<1>1. ASSUME IInv, MadeInv PROVE ProducersAgree
  <2> DEFINE c == wire.call
             f == [cek |-> Random[drawn - 1], own |-> Random[drawn]]
  <2>1. SUFFICES ASSUME SingleCall(c), c.opts.Unprotected = NoHeader, c.opts.AAD = Empty,
                        ~Has(copyHeader(c.opts.Header, c.opts.AdditionalHeaders), "alg")
                 PROVE  SameDocument(Encrypt(c.plaintext, c.recipients[1].Key, c.opts, f),
                                     encryptJSON(c, f))
    BY DEF ProducersAgree
  <2>2. c \in Call /\ Len(c.recipients) = 1 /\ c.recipients # <<>>
    BY <1>1, <2>1 DEF IInv, TypeOK, Call, SingleCall
  <2>3. PICK d : d = drawn - 2
    OBVIOUS
  <2>4. d \in Nat /\ MadeBy(wire.made, c, d)
    <3>1. drawn - 1 - 1 = d
      BY <1>1, <2>3, StateFacts
    <3> QED BY <1>1, <2>2, <3>1 DEF MadeInv
  <2>5. d + 2 <= Len(Random) /\ d + 1 = drawn - 1 /\ d + 1 + 1 = drawn
    BY <1>1, <2>3, StateFacts, RandomLen
  <2>6. f = Draws(d, 1)
    BY <2>5 DEF Draws
  <2> HIDE DEF f, c
  <2>7. SameDocument(Encrypt(c.plaintext, c.recipients[1].Key, c.opts, Draws(d, 1)),
                     encryptJSON(c, Draws(d, 1)))
    BY <2>1, <2>2, <2>4, <2>5, MadeAlike
  <2> QED BY <2>6, <2>7
<1> QED BY <1>1, Invariance, MadeInvariance, PTL

-----------------------------------------------------------------------------
(* What is emitted is readable, and failures are alike.                    *)

\* What such a call draws of its own is base64url.
LEMMA OwnDrawn ==
  ASSUME NEW d \in Nat, NEW n \in Nat, NEW k \in 1..n, d + 1 + n <= Len(Random)
  PROVE  Draws(d, k).own \in DOMAIN SegLen
<1>1. d + 1 + k \in 1..Len(Random)
  BY RandomLen
<1>2. Random[d + 1 + k] \in DOMAIN SegLen
  BY <1>1, RandomType
<1> QED BY <1>2 DEF Draws

\* EncryptJSONMulti wraps one CEK, of the right length, for every recipient.
LEMMA RecipientOfWraps ==
  ASSUME NEW c \in Call, NEW d \in Nat, d + 1 + Len(c.recipients) <= Len(Random),
         Looped(c, d, Len(c.recipients)), NEW k \in 1..Len(c.recipients)
  PROVE  /\ RecipientWraps(RecipientOf(c, d, k), c, k)
         /\ RecipientOf(c, d, k).cek = RecipientOf(c, d, 1).cek
         /\ RecipientOf(c, d, 1).cek.size = contentEncs[chooseEnc(c.opts)].keySize
<1> DEFINE n          == Len(c.recipients)
           size       == contentEncs[chooseEnc(c.opts)].keySize
           of(i, cek) == encryptRecipient(c.recipients[i], n, chooseEnc(c.opts),
                                          sharedHeader(c), cek, Draws(d, i))
           x(i)       == RecipientOf(c, d, i)
<1>1. n \in Nat /\ multiErr(c) = nil
  BY DEF Call, Looped
<1>2. ASSUME NEW i \in 1..n, NEW given \in Secrets, given # NoSecret => given.size = size,
             of(i, given).err = nil
      PROVE  RecipientWraps(of(i, given), c, i)
  <2>1. Draws(d, i).cek \in Symbol /\ Draws(d, i).own \in DOMAIN SegLen
    <3> HIDE DEF n
    <3>1. d + 1 + n <= Len(Random)
      BY DEF n
    <3> QED BY <1>1, <1>2, <3>1, DrawsType, OwnDrawn
  <2> QED BY <1>1, <1>2, <2>1, EncryptRecipientWraps
<1>3. x(1) = of(1, NoSecret) /\ (k # 1 => x(k) = of(k, x(1).cek))
  BY DEF RecipientOf
<1>4. \A i \in 1..n : x(i).err = nil
  BY DEF Looped
<1>5. RecipientMade(x(k), c, k, IF k = 1 THEN NoSecret ELSE x(1).cek, Random[d + 1])
  BY RecipientOfMade
<1>6. 1 \in 1..n
  <2> HIDE DEF n
  <2>1. k \in 1..n
    BY DEF n
  <2> QED BY <1>1, <2>1
<1>6a. RecipientMade(x(1), c, 1, NoSecret, Random[d + 1])
  BY <1>6, RecipientOfMade
<1> HIDE DEF x, of
<1>7. RecipientWraps(x(1), c, 1)
  BY <1>2, <1>3, <1>4, <1>6, NoSecretType
<1>8. x(1).cek.size = size
  BY <1>7 DEF RecipientWraps, KeyWraps
<1>9. x(k).cek = x(1).cek /\ RecipientWraps(x(k), c, k)
  <2>1. CASE k = 1
    BY <1>7, <2>1
  <2>2. CASE k # 1
    <3>1. n # 1
      <4> HIDE DEF n
      <4>1. k \in 1..n
        BY DEF n
      <4> QED BY <1>1, <2>2, <4>1
    <3>2. x(1).cek \in Secrets /\ x(1).cek.from = "random"
      BY <1>6a, <3>1 DEF RecipientMade
    <3>3. x(1).cek # NoSecret
      BY <3>2, NoSecretFrom
    <3>4. x(k).cek = x(1).cek
      BY <1>5, <2>2, <3>3 DEF RecipientMade
    <3>5. RecipientWraps(x(k), c, k)
      BY <1>2, <1>3, <1>4, <1>8, <2>2, <3>2
    <3> QED BY <3>4, <3>5
  <2> QED BY <2>1, <2>2
<1> QED BY <1>8, <1>9 DEF x

\* A document tells each recipient how its key was wrapped.
LEMMA MadeWrites ==
  ASSUME NEW doc, NEW c \in Call, NEW d \in Nat, d + 1 + Len(c.recipients) <= Len(Random),
         MadeBy(doc, c, d), NEW k \in 1..Len(c.recipients)
  PROVE  Wrote(doc, c, k)
<1> DEFINE n == Len(c.recipients)
           l == Locals(c, d, n)
<1>1. n \in Nat /\ n # 0 /\ c.recipients # <<>>
  BY DEF Call
<1>2. CASE /\ SingleCall(c)
           /\ Encrypt(c.plaintext, c.recipients[1].Key, c.opts, Draws(d, 1)).err = nil
           /\ doc = Encrypt(c.plaintext, c.recipients[1].Key, c.opts, Draws(d, 1)).doc
  <2>1. n = 1 /\ k = 1
    BY <1>2 DEF SingleCall
  <2>2. Draws(d, 1).cek \in Symbol /\ Draws(d, 1).own \in DOMAIN SegLen
    <3>1. 1 \in 1..1 /\ d + 1 + 1 <= Len(Random)
      BY <2>1
    <3> QED BY <3>1, DrawsType, OwnDrawn
  <2> QED BY <1>2, <2>1, <2>2, EncryptWrites
<1>3. CASE /\ Looped(c, d, n)
           /\ finish(c, l.protected, l.cek, l.out).err = nil
           /\ doc = finish(c, l.protected, l.cek, l.out).doc
  <2> DEFINE enc == chooseEnc(c.opts)
             P   == l.protected
             H   == l.out[k].header
             U   == c.opts.Unprotected
             x   == RecipientOf(c, d, k)
             B   == baseHeader(c.opts)
  <2>1. /\ P \in Headers /\ l.cek \in Secrets /\ l.out \in Seq(Entries)
        /\ LocalsHold(l, c, d, n)
    BY <1>1, <1>3, LocalsMade
  <2>2. /\ RecipientWraps(x, c, k) /\ x.cek = RecipientOf(c, d, 1).cek
        /\ x.cek.size = contentEncs[enc].keySize
    BY <1>3, RecipientOfWraps
  <2>3. /\ Len(l.out) = n
        /\ l.out[k] = entry(IF n = 1 THEN NoHeader ELSE x.header, x.key)
        /\ P = IF n = 1 THEN RecipientOf(c, d, 1).header ELSE sharedHeader(c)
        /\ l.cek = RecipientOf(c, d, 1).cek
    BY <1>1, <2>1 DEF LocalsHold
  <2>4. k \in 1..Len(l.out)
    BY <2>3
  <2>5. H = (IF n = 1 THEN NoHeader ELSE x.header) /\ l.out[k].encrypted_key = x.key
        /\ l.cek = x.cek
    BY <2>2, <2>3 DEF entry
  <2>6. RecipientMade(x, c, k, IF k = 1 THEN NoSecret ELSE RecipientOf(c, d, 1).cek,
                      Random[d + 1])
    BY <1>3, RecipientOfMade
  <2>7. n = 1 => k = 1
    OBVIOUS
  <2>8. n = 1 => P = x.header /\ x.header["enc"] = Str(enc)
    BY <2>3, <2>6, <2>7 DEF RecipientMade
  <2>9. c.opts \in EncryptOptions
    BY DEF Call
  <2>10. /\ "enc" \in Name \ {"kid"} /\ "zip" \in Name \ {"kid"}
         /\ {"apu", "apv"} \subseteq Name \ {"kid"}
    BY KeyMgmtAssumption
  <2>11. n # 1 => /\ P["enc"] = Str(enc) /\ P["zip"] = B["zip"]
                  /\ \A m \in {"apu", "apv"} : P[m] = B[m]
    <3>1. /\ sharedHeader(c)["enc"] = Str(enc) /\ sharedHeader(c)["zip"] = B["zip"]
          /\ \A m \in {"apu", "apv"} : sharedHeader(c)[m] = B[m]
      BY <2>9, <2>10, SharedHeaderType, BaseHeaderType
    <3> QED BY <2>3, <3>1
  <2>12. x.header["zip"] = IF n = 1 THEN B["zip"] ELSE Absent
    BY <2>2 DEF RecipientWraps
  <2>13. PICK alg \in DOMAIN keyMgmts :
            x.header["alg"] = Str(alg) /\ KeyWraps(x, alg, enc, OwnKey(c, k))
    BY <2>2 DEF RecipientWraps
  <2>14. multiErr(c) = nil
    BY <1>3 DEF Looped
  <2>15. ~Has(U, "zip") /\ lookupEnc(enc) = nil
    BY <2>14 DEF multiErr, nil
  <2> HIDE DEF l, x, P, H, B, enc, n
  <2>16. \A m : ~Has(NoHeader, m)
    BY DEF Has, NoHeader
  <2>17. P["zip"] = B["zip"] /\ P["enc"] = Str(enc) /\ ~Has(H, "zip")
    <3>1. n # 1 => ~Has(x.header, "zip")
      BY <2>12 DEF Has
    <3> QED BY <2>5, <2>8, <2>11, <2>12, <2>16, <3>1
  <2>18. /\ WroteHeaders(doc, c, k, P, U, H) /\ WroteContent(doc, l.cek, c)
         /\ doc.recipients[k].encrypted_key = l.out[k].encrypted_key
    BY <1>3, <2>1, <2>2, <2>4, <2>5, <2>15, <2>17, FinishWrites DEF P, H, U, B, enc
  <2>19. x.header \in {P, H}
    BY <2>5, <2>8
  <2>20. ASSUME ~StrayPartyInfo(c), NEW m \in {"apu", "apv"},
                Has(P, m) \/ Has(U, m) \/ Has(H, m)
         PROVE  Has(x.header, m)
    <3>1. ~Has(U, m)
      BY <2>20 DEF StrayPartyInfo, U
    <3>2. CASE n = 1
      BY <2>5, <2>8, <2>16, <2>20, <3>1, <3>2
    <3>3. CASE n # 1
      <4>1. n > 1
        BY <1>1, <3>3
      <4>2. ~Has(B, m)
        BY <2>20, <4>1 DEF StrayPartyInfo, B, n
      <4>3. ~Has(P, m)
        BY <2>11, <3>3, <4>2 DEF Has
      <4> QED BY <2>5, <2>20, <3>1, <3>3, <4>3
    <3> QED BY <3>2, <3>3
  <2>21. enc \in DOMAIN contentEncs
    BY <2>15, LookupEnc
  <2>22. Wraps(alg, enc, OwnKey(c, k), x.header, doc.content.cek,
               doc.recipients[k].encrypted_key)
    BY <2>5, <2>13, <2>18 DEF KeyWraps, WroteContent
  <2>23. WroteKey(doc, c, k, P, U, H, x.header, alg)
    BY <2>13, <2>17, <2>19, <2>20, <2>21, <2>22 DEF WroteKey, enc
  <2> QED BY <2>18, <2>23 DEF Wrote, WroteContent
<1> QED BY <1>2, <1>3 DEF MadeBy

\* The document last made, then.
LEMMA WireWrote ==
  ASSUME IInv, MadeInv, NEW k \in 1..Len(wire.call.recipients)
  PROVE  Wrote(wire.made, wire.call, k) /\ wire.call \in Call
<1>1. PICK c : c = wire.call
  OBVIOUS
<1>2. PICK n : n = Len(c.recipients)
  OBVIOUS
<1>3. PICK d : d = drawn - 1 - n
  OBVIOUS
<1>4. c \in Call /\ k \in 1..n /\ n \in Nat
  BY <1>1, <1>2 DEF IInv, TypeOK, Call
<1>5. c.recipients # <<>>
  BY <1>2, <1>4
<1>6. d \in Nat /\ MadeBy(wire.made, c, d)
  BY <1>1, <1>2, <1>3, <1>5 DEF MadeInv
<1>7. d + 1 + n <= Len(Random)
  <2>1. drawn \in Nat /\ drawn <= Len(Random)
    BY StateFacts
  <2> QED BY <1>3, <1>4, <1>6, <2>1, RandomLen
<1> QED BY <1>1, <1>2, <1>4, <1>6, <1>7, MadeWrites

\* No encrypted key that was made is anything but base64url.
LEMMA WrappedForm ==
  ASSUME NEW alg \in DOMAIN keyMgmts, NEW enc, NEW own, NEW h, NEW cek, NEW ek,
         Wraps(alg, enc, own, h, cek, ek)
  PROVE  ek.form # "notb64"
<1>1. keyMgmts[alg].kind \in MgmtKinds
  BY MgmtType
<1> DEFINE Made == ek = NoKey \/ \E w : ek = b64Key(w)
<1>2. /\ keyMgmts[alg].kind = "rsa" => WrapsRSA(alg, enc, own, h, cek, ek)
      /\ keyMgmts[alg].kind = "ecdh" => WrapsECDH(alg, enc, own, h, cek, ek)
      /\ keyMgmts[alg].kind = "pbes2" => WrapsPBES2(alg, enc, own, h, cek, ek)
      /\ keyMgmts[alg].kind = "dir" => WrapsDir(alg, enc, own, h, cek, ek)
      /\ keyMgmts[alg].kind = "kw" => WrapsKW(alg, enc, own, h, cek, ek)
      /\ keyMgmts[alg].kind = "gcmkw" => WrapsGCM(alg, enc, own, h, cek, ek)
  BY DEF Wraps
<1>3. keyMgmts[alg].kind \in {"rsa", "ecdh", "pbes2", "dir", "kw", "gcmkw"}
  BY <1>1 DEF MgmtKinds
<1>4. WrapsRSA(alg, enc, own, h, cek, ek) => Made
  BY Zenon DEF WrapsRSA
<1>5. WrapsECDH(alg, enc, own, h, cek, ek) => Made
  BY Zenon DEF WrapsECDH
<1>6. WrapsPBES2(alg, enc, own, h, cek, ek) => Made
  BY Zenon DEF WrapsPBES2
<1>7. WrapsDir(alg, enc, own, h, cek, ek) => Made
  BY Zenon DEF WrapsDir
<1>8. WrapsKW(alg, enc, own, h, cek, ek) => Made
  BY Zenon DEF WrapsKW
<1>9. WrapsGCM(alg, enc, own, h, cek, ek) => Made
  BY Zenon DEF WrapsGCM
<1> HIDE DEF Made
<1>10. Made
  BY <1>2, <1>3, <1>4, <1>5, <1>6, <1>7, <1>8, <1>9
<1>11. NoKey.form # "notb64"
  BY DEF NoKey
<1>12. \A w : b64Key(w).form # "notb64"
  BY DEF b64Key
<1> QED BY <1>10, <1>11, <1>12, Zenon DEF Made

\* A document as it was made passes the checks before the loop.
LEMMA MadeChecks ==
  ASSUME NEW doc, NEW c, NEW k, NEW P, NEW U, NEW H, WroteHeaders(doc, c, k, P, U, H),
         doc.form \in {"compact", "general"}, partsErr(doc) = nil,
         DecodeSegment(doc.aad).err = nil
  PROVE  doc.form # "compact" => jsonErr(doc) = nil
<1>1. protectedOf(doc).err = nil
  BY DEF WroteHeaders, protectedOf, decodeHeader, Seg
<1>2. ~(doc.form \in {"broken", "mixed"})
  OBVIOUS
<1>3. (IF DecodeSegment(doc.aad).err # nil THEN "ErrMalformed" ELSE nil) = nil
  OBVIOUS
<1> QED BY <1>1, <1>2, <1>3 DEF jsonErr, firstErr

\* What a function that accepts a document as it was made returns.
LEMMA AcceptedIsPlaintext ==
  ASSUME NEW c \in Call, NEW r, NEW doc, NEW key, NEW opts, Opens(r, doc, key, opts),
         doc.protected.form = "json",
         WrittenContent(doc.content, doc.protected, doc.aad, c)
  PROVE  r.plaintext = Body(c.plaintext)
<1>1. protectedOf(doc).hdr = doc.protected.hdr
  BY DEF protectedOf, decodeHeader
<1>2. PICK h, ek : Reads(r, h, ek, doc, key, opts) /\ h["zip"] = doc.protected.hdr["zip"]
  BY <1>1 DEF Opens
<1> PICK body : body = doc.content.body
  OBVIOUS
<1>3. maybeInflate(h, body, opts).err = nil /\ r.plaintext = maybeInflate(h, body, opts).body
  BY <1>2 DEF Reads, ReadOf
<1>4. /\ ~Has(h, "zip") => body = Body(c.plaintext)
      /\ h["zip"] = Str("DEF") => body = deflate(c.plaintext)
  BY <1>2 DEF WrittenContent, Has
<1> QED BY <1>3, <1>4, MaybeInflateSucceeds

(***************************************************************************)
(* Whoever holds the key of a recipient of a document as it was made, and  *)
(* does not refuse it, decrypts it as that recipient.                      *)
(***************************************************************************)
LEMMA HolderReads ==
  ASSUME IInv, MadeInv, decrypting.phase = "done", wire.edits = 0,
         NEW k \in 1..Len(wire.call.recipients), HoldsKeyOf(k), ToleratesOptionsOf(k),
         ~StrayPartyInfo(wire.call), ~IdleZip(wire.call)
  PROVE  IF wire.doc.form = "compact"
         THEN LET r == DecryptWithOptions(wire.doc, decrypting.key, decrypting.opts)
              IN  r.err = nil /\ r.plaintext = Body(wire.call.plaintext)
         ELSE /\ jsonErr(wire.doc) = nil /\ wire.doc.form # "none"
              /\ k \in Recipients /\ RecipientResult(k).err = nil
<1> PICK doc : doc = wire.doc
  OBVIOUS
<1> PICK c : c = wire.call
  OBVIOUS
<1> PICK key : key = decrypting.key
  OBVIOUS
<1> PICK opts : opts = decrypting.opts
  OBVIOUS
<1>1. doc = wire.made /\ Wrote(doc, c, k) /\ c \in Call
  BY WireWrote DEF MadeInv
<1>2. /\ key \in KeyArgs /\ opts \in DecryptOptions /\ WellFormed(doc)
      /\ k \in 1..Len(c.recipients)
  BY DEF IInv, TypeOK
<1>3. PICK P, U, H, x, alg : /\ WroteHeaders(doc, c, k, P, U, H)
                             /\ WroteKey(doc, c, k, P, U, H, x, alg)
  BY <1>1 DEF Wrote
<1> DEFINE m   == MergedOf(doc, k)
           own == OwnKey(c, k)
           ek  == doc.recipients[k].encrypted_key
           one == decryptOne(m, ek, doc, key, opts)
<1>4. /\ WrittenContent(doc.content, doc.protected, doc.aad, c)
      /\ doc.form \in {"compact", "general"} /\ doc.parts = AsMade
      /\ DecodeSegment(doc.aad).err = nil
  BY <1>1 DEF Wrote
<1>5. Told(m, doc, c, k, alg)
  BY <1>1, <1>3, RecipientTold
<1>6. Algorithm(m) = alg
  BY <1>5 DEF Told, Algorithm, HeaderString, Str
<1>7. Holds(key, m, own, alg)
  BY <1>1, <1>6 DEF HoldsKeyOf, Holds
<1>8. /\ Allows(opts, m) /\ KnowsAll(opts, doc.protected.hdr)
      /\ Has(m, "zip") => TextSize[c.plaintext] <= LimitOf(opts)
  BY <1>1 DEF ToleratesOptionsOf, Allows, KnowsAll, LimitOf, Limit
<1>9. partsErr(doc) = nil
  BY <1>4 DEF partsErr, AsMade
<1>10. ek.form # "notb64"
  BY <1>3, WrappedForm DEF WroteKey
<1>11. k \in 1..Len(doc.recipients)
  BY <1>3 DEF WroteHeaders
<1> HIDE DEF m, own, ek
<1>12. /\ ResolvedOf(m, key).err = nil /\ KeyTo(ResolvedOf(m, key).key, own, alg)
       /\ checkJWKUsage(key, KeyID(m), "enc", AlgsOf(m), DecryptOps) = nil
  BY <1>7, HeldKeyResolves
<1>13. PermitOf(m, key, opts) = nil
  BY <1>5, <1>8, <1>12, AllowedIsPermitted
<1> HIDE DEF one
<1>14. ReadsPlaintext(one, c)
  BY <1>1, <1>2, <1>4, <1>5, <1>8, <1>12, <1>13, DecryptOneReads DEF one, ek, own
<1>15. CASE doc.form = "compact"
  <2>1. k = 1
    <3>1. Len(doc.recipients) = 1
      BY <1>2, <1>15 DEF WellFormed
    <3> QED BY <1>11, <3>1
  <2>2. DecryptWithOptions(doc, key, opts) = one
    BY <1>2, <1>3, <1>8, <1>9, <1>10, <1>15, <2>1, CompactReaches DEF one, ek, m
  <2> QED BY <1>14, <1>15, <2>2 DEF ReadsPlaintext
<1>16. CASE doc.form # "compact"
  <2>1. jsonErr(doc) = nil
    BY <1>3, <1>4, <1>9, <1>16, MadeChecks
  <2>2. doc.form # "none"
    BY <1>4
  <2>3. recipientsOf(doc) = doc.recipients
    BY <1>11 DEF recipientsOf
  <2>4. RecipientResult(k) = one
    BY <1>3, <1>8, <1>10, <2>3, RecipientReaches DEF RecipientResult, one, ek, m
  <2> QED BY <1>11, <1>14, <1>16, <2>1, <2>2, <2>3, <2>4 DEF Recipients, ReadsPlaintext
<1> QED BY <1>15, <1>16

(***************************************************************************)
(* For all calls, keys, options and numbers of recipients: what Encrypt    *)
(* and EncryptJSONMulti emit, whoever holds a recipient's key can read.    *)
(***************************************************************************)
THEOREM Readability == Spec => []EmittedIsReadable
<1>1. ASSUME IInv, LoopInv, Returned, MadeInv, OneGoodRecipientSuffices
      PROVE  EmittedIsReadable
  <2> SUFFICES ASSUME ~StrayPartyInfo(wire.call), ~IdleZip(wire.call),
                      decrypting.phase = "done", wire.edits = 0,
                      NEW k \in 1..Len(wire.call.recipients),
                      HoldsKeyOf(k), ToleratesOptionsOf(k)
               PROVE  /\ decrypting.result.err = nil
                      /\ decrypting.result.plaintext = Body(wire.call.plaintext)
    BY DEF EmittedIsReadable, EveryDocumentIsReadable
  <2>1. CASE wire.doc.form = "compact"
    <3>1. decrypting.result = DecryptWithOptions(wire.doc, decrypting.key, decrypting.opts)
      BY <1>1, <2>1 DEF Returned
    <3> QED BY <1>1, <2>1, <3>1, HolderReads
  <2>2. CASE wire.doc.form # "compact"
    <3>1. /\ jsonErr(wire.doc) = nil /\ wire.doc.form # "none"
          /\ k \in Recipients /\ RecipientResult(k).err = nil
      BY <1>1, <2>2, HolderReads
    <3>2. JSONLoopDone /\ SomeRecipientDecrypts
      BY <2>2, <3>1 DEF JSONLoopDone, SomeRecipientDecrypts
    <3>3. decrypting.result.err = nil
      BY <1>1, <3>2 DEF OneGoodRecipientSuffices
    <3>4. Opens(decrypting.result, wire.doc, decrypting.key, decrypting.opts)
      BY <1>1, <3>3, AcceptedOpens DEF Accepted
    <3>5. wire.doc = wire.made /\ Wrote(wire.doc, wire.call, k) /\ wire.call \in Call
      BY <1>1, WireWrote DEF MadeInv
    <3>6. wire.doc.protected.form = "json"
          /\ WrittenContent(wire.doc.content, wire.doc.protected, wire.doc.aad, wire.call)
      BY <3>5 DEF Wrote, WroteHeaders, Seg
    <3> QED BY <3>3, <3>4, <3>5, <3>6, AcceptedIsPlaintext
  <2> QED BY <2>1, <2>2
<1> QED BY <1>1, Invariance, LoopInvariance, ReturnedInvariance, MadeInvariance,
           OneGoodRecipient, PTL

\* Content that some call sealed fits, where its plaintext does.
LEMMA SealedFits ==
  ASSUME IInv, \A s \in sealed : TextSize[s.call.plaintext] <= Limit
  PROVE  ContentFits(wire.doc.content, decrypting.opts)
<1> PICK opts : opts = decrypting.opts
  OBVIOUS
<1>1. Limit = LimitOf(opts)
  BY DEF Limit, LimitOf
<1>2. CASE \E s \in sealed : wire.doc.content = s.content
  <2>1. PICK s \in sealed : wire.doc.content = s.content
    BY <1>2
  <2>2. s.call.plaintext \in Text /\ BodyMade(s)
    BY DEF IInv, TypeOK, Seals, Call, SealMade
  <2> QED BY <1>1, <2>1, <2>2 DEF ContentFits, BodyMade
<1>3. CASE wire.doc.content = NoContent
  <2>1. NoContent.protected.hdr = NoHeader
    BY DEF NoContent, NoSeg, Seg, encryptContent
  <2>2. NoHeader["zip"] # Str("DEF")
    BY KeyMgmtAssumption DEF NoHeader, Absent, Str
  <2>3. "" \in Text /\ TextSize[""] = 0
    BY TextAssumption, ContentAssumption
  <2>4. 0 <= LimitOf(opts)
    <3>1. opts.MaxDecompressed \in Int
      BY DEF IInv, TypeOK, DecryptOptions
    <3>2. 0 <= MaxDecompressedSize
      BY SMT DEF MaxDecompressedSize
    <3> QED BY <3>1, <3>2 DEF LimitOf
  <2> QED BY <1>3, <2>1, <2>2, <2>3, <2>4 DEF ContentFits
<1> QED BY <1>2, <1>3 DEF IInv, WireSealed

(***************************************************************************)
(* For all calls, keys and options, and whatever became of the octets:     *)
(* every failure of a key that fits is ErrDecryptFailed.                   *)
(***************************************************************************)
THEOREM FailuresUniform == Spec => []UniformFailure
<1>1. ASSUME IInv, LoopInv, Returned, MadeInv PROVE UniformFailure
  <2> SUFFICES ASSUME decrypting.phase = "done", OnlyOctetsChanged, FittingKey,
                      ToleratesOptionsOf(1),
                      \A s \in sealed : TextSize[s.call.plaintext] <= Limit,
                      ~StrayPartyInfo(wire.call), ~IdleZip(wire.call)
               PROVE  decrypting.result.err \in {nil, "ErrDecryptFailed"}
    BY DEF UniformFailure
  <2> PICK doc : doc = wire.doc
    OBVIOUS
  <2> PICK made : made = wire.made
    OBVIOUS
  <2> PICK c : c = wire.call
    OBVIOUS
  <2> PICK key : key = decrypting.key
    OBVIOUS
  <2> PICK opts : opts = decrypting.opts
    OBVIOUS
  <2>1. /\ doc.form = made.form /\ doc.protected = made.protected
        /\ doc.unprotected = made.unprotected /\ doc.aad = made.aad
        /\ Len(doc.recipients) = 1 /\ Len(made.recipients) = 1
        /\ doc.recipients[1].header = made.recipients[1].header
        /\ partsErr(doc) = nil
        /\ HasKeyForm(doc.recipients[1].encrypted_key, Algorithm(MergedOf(made, 1)))
    BY DEF OnlyOctetsChanged, HasKeyForm
  <2>2. c \in Call /\ key \in KeyArgs /\ opts \in DecryptOptions /\ WellFormed(doc)
        /\ doc \in Docs
    BY <1>1 DEF IInv, TypeOK
  <2>3. 1 \in 1..Len(c.recipients)
    <3>1. c.recipients # <<>>
      <4>1. Len(NoDoc.recipients) = 0
        BY NoDocType
      <4> QED BY <1>1, <2>1, <4>1 DEF MadeInv
    <3>2. c.recipients \in Seq(Recipient)
      BY <2>2 DEF Call
    <3> QED BY <3>1, <3>2
  <2>4. Wrote(made, c, 1)
    BY <1>1, <2>3, WireWrote
  <2>5. PICK P, U, H, x, alg : /\ WroteHeaders(made, c, 1, P, U, H)
                               /\ WroteKey(made, c, 1, P, U, H, x, alg)
    BY <2>4 DEF Wrote
  <2> DEFINE m   == MergedOf(made, 1)
             ek  == doc.recipients[1].encrypted_key
             one == decryptOne(m, ek, doc, key, opts)
  <2>6. made.form \in {"compact", "general"} /\ DecodeSegment(made.aad).err = nil
    BY <2>4 DEF Wrote
  <2>7. Told(m, made, c, 1, alg)
    BY <2>2, <2>5, RecipientTold
  <2> HIDE DEF m
  <2>8. Algorithm(m) = alg
    <3>1. m["alg"] = Str(alg)
      BY <2>7 DEF Told
    <3> QED BY <3>1 DEF Algorithm, HeaderString, Str
  <2> USE DEF m
  <2>9. Allows(opts, m) /\ KnowsAll(opts, doc.protected.hdr)
    BY <2>1 DEF ToleratesOptionsOf, Allows, KnowsAll
  <2>10. IsGoKey(key) /\ Fits(key.raw, OwnKey(c, 1), alg)
    BY <2>8 DEF FittingKey, IsGoKey
  <2>11. ContentFits(doc.content, opts)
    BY <1>1, SealedFits
  <2>12. HasKeyForm(ek, alg)
    BY <2>1, <2>8
  <2>13. WroteHeaders(doc, c, 1, P, U, H)
    BY <2>1, <2>5 DEF WroteHeaders
  <2>14. MergedOf(doc, 1) = m
    <3>1. recipientsOf(doc) = doc.recipients /\ recipientsOf(made) = made.recipients
      BY <2>1 DEF recipientsOf
    <3>2. protectedOf(doc) = protectedOf(made)
      BY <2>1 DEF protectedOf
    <3> QED BY <2>1, <3>1, <3>2 DEF MergedOf
  <2>15. ek.form # "notb64"
    BY <2>12 DEF HasKeyForm
  <2> HIDE DEF m, ek
  <2>16. Uniform(one)
    BY <2>1, <2>2, <2>3, <2>7, <2>9, <2>10, <2>11, <2>12, DecryptOneUniform
  <2> HIDE DEF one
  <2>17. CASE doc.form = "compact"
    <3>1. DecryptWithOptions(doc, key, opts) = one
      BY <2>1, <2>2, <2>9, <2>13, <2>14, <2>15, <2>17, CompactReaches DEF one, ek
    <3>2. decrypting.result = one
      BY <1>1, <2>17, <3>1 DEF Returned
    <3> QED BY <2>16, <3>2 DEF Uniform
  <2>18. CASE doc.form # "compact"
    <3>1. jsonErr(doc) = nil
      BY <2>1, <2>6, <2>13, <2>18, MadeChecks
    <3>2. JSONLoopDone
      BY <2>1, <2>6, <2>18, <3>1 DEF JSONLoopDone
    <3> DEFINE order == recipientOrder(wire.doc, decrypting.key)
    <3>3. PICK p \in 1..Len(order) : decrypting.result = RecipientResult(order[p])
      BY <1>1, <3>2 DEF LoopInv
    <3>4. order[p] \in 1..Len(recipientsOf(doc))
      BY <2>2, RecipientOrderTriesAll DEF TriesAll
    <3>5. recipientsOf(doc) = doc.recipients
      BY <2>1 DEF recipientsOf
    <3> HIDE DEF order
    <3>6. order[p] = 1
      <4>1. Len(recipientsOf(doc)) = 1
        BY <2>1, <3>5
      <4> PICK q : q = order[p]
        OBVIOUS
      <4>2. q \in 1..1
        BY <3>4, <4>1
      <4> QED BY <4>2
    <3>7. decrypting.result = decryptRecipient(doc, doc.recipients[1], key, opts)
      BY <3>3, <3>5, <3>6 DEF RecipientResult
    <3>8. decrypting.result = one
      BY <2>9, <2>13, <2>14, <2>15, <3>7, RecipientReaches DEF one, ek
    <3> QED BY <2>16, <3>8 DEF Uniform
  <2> QED BY <2>17, <2>18
<1> QED BY <1>1, Invariance, LoopInvariance, ReturnedInvariance, MadeInvariance, PTL

=============================================================================

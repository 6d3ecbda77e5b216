----------------------------- MODULE JOSELemmas -----------------------------
(***************************************************************************)
(* Facts about what JWS and JWE are both built from: segments, headers and *)
(* the selection of keys.                                                  *)
(***************************************************************************)
EXTENDS Keys, WellFoundedInduction, TLAPS

-----------------------------------------------------------------------------
(* Segments.                                                               *)

\* The fields of octets, and that only Empty has the empty text.
LEMMA OctetFields ==
  ASSUME NEW o \in Octets
  PROVE  /\ o.text \in Text /\ o.layers \in Nat
         /\ o = [text |-> o.text, layers |-> o.layers]
         /\ o.text = "" => o = Empty
<1>1. o.text \in Text /\ o.layers \in Nat /\ (o.text = "" => o.layers = 0)
  BY DEF Octets
<1>2. o = [text |-> o.text, layers |-> o.layers]
  BY DEF Octets
<1> QED BY <1>1, <1>2 DEF Empty

\* A text in layers of base64url is an octet string.
LEMMA MakeOctets ==
  ASSUME NEW t \in Text, NEW n \in Nat, t = "" => n = 0
  PROVE  [text |-> t, layers |-> n] \in Octets
  BY DEF Octets

\* The empty octet string is one.
LEMMA EmptyType == Empty \in Octets
  BY TextAssumption DEF Empty, Octets

\* EncodeSegment yields octets.
LEMMA EncodeType == ASSUME NEW o \in Octets PROVE EncodeSegment(o) \in Octets
<1>1. CASE o = Empty
  BY <1>1, EmptyType DEF EncodeSegment
<1>2. CASE o # Empty
  <2>1. o.text # "" /\ o.text \in Text
    BY <1>2, OctetFields
  <2>2. o.layers \in Nat
    BY OctetFields
  <2>3. o.layers + 1 \in Nat
    BY <2>2
  <2>4. [text |-> o.text, layers |-> o.layers + 1] \in Octets
    BY <2>1, <2>3, MakeOctets
  <2> QED BY <1>2, <2>4 DEF EncodeSegment
<1> QED BY <1>1, <1>2

\* DecodeSegment yields octets, whatever it is given.
LEMMA DecodeType == ASSUME NEW o \in Octets PROVE DecodeSegment(o).out \in Octets
<1>1. CASE o = Empty
  BY <1>1, EmptyType DEF DecodeSegment
<1>2. CASE o # Empty /\ o.layers = 0
  BY <1>2, EmptyType DEF DecodeSegment
<1>3. CASE o # Empty /\ o.layers # 0
  <2>1. o.text # "" /\ o.text \in Text
    BY <1>3, OctetFields
  <2>2. o.layers \in Nat
    BY OctetFields
  <2>3. o.layers - 1 \in Nat
    BY <1>3, <2>2
  <2>4. [text |-> o.text, layers |-> o.layers - 1] \in Octets
    BY <2>1, <2>3, MakeOctets
  <2> QED BY <1>3, <2>4 DEF DecodeSegment
<1> QED BY <1>1, <1>2, <1>3

\* Decoding takes off the layer encoding put on; Empty is its own encoding.
LEMMA LayerRoundTrip ==
  ASSUME NEW o \in Octets
  PROVE  DecodeSegment(EncodeSegment(o)) = [err |-> nil, out |-> o]
<1>1. CASE o = Empty
  BY <1>1 DEF DecodeSegment, EncodeSegment
<1>2. CASE o # Empty
  <2> DEFINE e == [text |-> o.text, layers |-> o.layers + 1]
  <2>1. EncodeSegment(o) = e
    BY <1>2 DEF EncodeSegment
  <2>2. o.layers \in Nat
    BY OctetFields
  <2>3. o.layers + 1 # 0 /\ (o.layers + 1) - 1 = o.layers
    BY <2>2
  <2>4. e.text = o.text /\ e.layers = o.layers + 1 /\ e # Empty
    BY <2>3 DEF Empty
  <2>5. DecodeSegment(e) = [err |-> nil, out |-> [text |-> o.text, layers |-> o.layers]]
    BY <2>3, <2>4 DEF DecodeSegment
  <2> QED BY <2>1, <2>5, OctetFields
<1> QED BY <1>1, <1>2

\* A JSON string gives back octets, perhaps others.
LEMMA JSONStringType == ASSUME NEW o \in Octets PROVE JSONString(o) \in Octets
<1>1. Plain(Replaced) \in Octets
  BY TextAssumption, MakeOctets DEF Plain, Replaced
<1> QED BY <1>1 DEF JSONString

-----------------------------------------------------------------------------
(* Headers.                                                                *)

\* A missing header member is a value of the model.
LEMMA AbsentType == Absent \in Value
  BY DEF Absent, Value, GoType

\* The nil header is a header.
LEMMA NoHeaderType == NoHeader \in Headers
  BY AbsentType DEF NoHeader, Headers

\* A string member is a value.
LEMMA StrType == ASSUME NEW s \in Symbol PROVE Str(s) \in Value
<1>1. <<s>> \in Seq(Symbol) /\ Len(<<s>>) = 1
  OBVIOUS
<1> QED BY <1>1 DEF Str, Value, GoType

\* A []string member is a value.
LEMMA StringsType == ASSUME NEW list \in Seq(Symbol) PROVE Strings(list) \in Value
  BY DEF Strings, Value, GoType

\* Assigning a member leaves a header.
LEMMA WithType ==
  ASSUME NEW h \in Headers, NEW n, NEW v \in Value
  PROVE  With(h, n, v) \in Headers
  BY DEF With, Headers

\* Assigning a member leaves the others.
LEMMA WithKeeps ==
  ASSUME NEW h \in Headers, NEW m, NEW v, NEW n \in Name, n # m
  PROVE  With(h, m, v)[n] = h[n]
  BY DEF With, Headers

\* Assigning a member of a header.
LEMMA WithMember ==
  ASSUME NEW h \in Headers, NEW m \in Name, NEW v
  PROVE  With(h, m, v)[m] = v /\ \A n \in Name : n # m => With(h, m, v)[n] = h[n]
  BY DEF With, Headers

\* JSON changes the Go type of some values, and never what they contain.
LEMMA JSONValueType ==
  ASSUME NEW v \in Value
  PROVE  /\ JSONValue(v) \in Value
         /\ (JSONValue(v) = Bool("false")) <=> (v = Bool("false"))
<1>0. v.items \in Seq(Symbol)
  BY DEF Value
<1>1. CASE v.go = "[]string"
  <2>1. JSONValue(v) = [go |-> "[]any", items |-> v.items]
    BY <1>1 DEF JSONValue, Anys
  <2>2. JSONValue(v) \in Value
    BY <1>0, <2>1 DEF Value, GoType
  <2> QED BY <1>1, <2>1, <2>2 DEF Bool
<1>2. CASE v.go \in {"int", "int64", "json.Number"}
  <2>1. JSONValue(v) = [go |-> "float64", items |-> v.items]
    BY <1>2 DEF JSONValue
  <2>2. JSONValue(v) \in Value
    BY <1>0, <2>1 DEF Value, GoType
  <2> QED BY <1>2, <2>1, <2>2 DEF Bool
<1>3. CASE v.go \notin {"[]string", "int", "int64", "json.Number"}
  <2>1. JSONValue(v) = v
    BY <1>3 DEF JSONValue
  <2> QED BY <2>1
<1> QED BY <1>1, <1>2, <1>3

\* json.Marshal and json.Unmarshal of a header give a header.
LEMMA JSONType == ASSUME NEW h \in Headers PROVE JSON(h) \in Headers
  BY JSONValueType DEF JSON, Headers

\* mergeHeaders gives a header, whether or not it fails.
LEMMA MergeType ==
  ASSUME NEW h1 \in Headers, NEW h2 \in Headers
  PROVE  mergeHeaders(h1, h2).hdr \in Headers
<1> DEFINE m == [n \in Name |-> IF Has(h1, n) THEN h1[n] ELSE h2[n]]
<1>1. m \in Headers
  BY DEF Headers
<1>2. CASE \E n \in Name : Has(h1, n) /\ Has(h2, n)
  BY <1>2, NoHeaderType DEF mergeHeaders
<1>3. CASE ~\E n \in Name : Has(h1, n) /\ Has(h2, n)
  BY <1>1, <1>3 DEF mergeHeaders
<1> QED BY <1>2, <1>3

\* The merged view never hides or replaces a protected parameter.
LEMMA MergeKeepsProtected ==
  ASSUME NEW h1, NEW h2, mergeHeaders(h1, h2).err = nil,
         NEW n \in Name, Has(h1, n)
  PROVE  mergeHeaders(h1, h2).hdr[n] = h1[n]
<1>1. ~\E m \in Name : Has(h1, m) /\ Has(h2, m)
  BY DEF mergeHeaders, nil
<1> QED BY <1>1 DEF mergeHeaders

\* JSON keeps a missing member, and a string.
LEMMA JSONValueKeeps ==
  ASSUME NEW v \in Value, NEW w, w = Absent \/ \E s : w = Str(s)
  PROVE  JSONValue(v) = w <=> v = w
<1>1. w.go \in {"absent", "string"}
  BY DEF Absent, Str
<1>2. CASE v.go = "[]string"
  BY <1>1, <1>2 DEF JSONValue, Anys
<1>3. CASE v.go \in {"int", "int64", "json.Number"}
  BY <1>1, <1>3 DEF JSONValue
<1>4. CASE v.go \notin {"[]string", "int", "int64", "json.Number"}
  BY <1>4 DEF JSONValue
<1> QED BY <1>2, <1>3, <1>4

\* JSON neither adds nor drops a member, and keeps strings.
LEMMA JSONMember ==
  ASSUME NEW h \in Headers, NEW n \in Name
  PROVE  /\ Has(JSON(h), n) <=> Has(h, n)
         /\ \A s : h[n] = Str(s) => JSON(h)[n] = Str(s)
<1>1. h[n] \in Value /\ JSON(h)[n] = JSONValue(h[n])
  BY DEF Headers, JSON
<1>2. JSONValue(h[n]) = Absent <=> h[n] = Absent
  BY <1>1, JSONValueKeeps
<1>3. \A s : JSONValue(h[n]) = Str(s) <=> h[n] = Str(s)
  BY <1>1, JSONValueKeeps
<1> QED BY <1>1, <1>2, <1>3 DEF Has

\* Headers that share no parameter share none once marshalled.
LEMMA MergeAfterJSON ==
  ASSUME NEW h1 \in Headers, NEW h2 \in Headers, mergeHeaders(h1, h2).err = nil
  PROVE  mergeHeaders(JSON(h1), JSON(h2)).err = nil
<1>1. ~\E n \in Name : Has(h1, n) /\ Has(h2, n)
  BY DEF mergeHeaders, nil
<1>2. ~\E n \in Name : Has(JSON(h1), n) /\ Has(JSON(h2), n)
  BY <1>1, JSONMember
<1> QED BY <1>2 DEF mergeHeaders

\* Every form of a protected segment is one.
LEMMA SegType ==
  ASSUME NEW form \in SegForm, NEW h \in Headers PROVE Seg(form, h) \in ProtectedSegs
  BY DEF Seg, ProtectedSegs

\* decodeHeader gives a header, whether or not it fails.
LEMMA DecodeHeaderType ==
  ASSUME NEW seg \in ProtectedSegs PROVE decodeHeader(seg).hdr \in Headers
  BY NoHeaderType DEF decodeHeader, ProtectedSegs
-----------------------------------------------------------------------------
(* Keys.                                                                   *)

\* A set of naturals has a least element.
LEMMA LeastElement ==
  ASSUME NEW S, S \subseteq Nat, S # {}
  PROVE  \E i \in S : \A j \in S : i <= j
<1> DEFINE R == {ss \in Nat \X Nat : ss[1] < ss[2]}
<1>1. IsWellFoundedOn(R, Nat)
  BY NatLessThanWellFounded DEF OpToRel
<1> HIDE DEF R
<1>2. PICK i \in S : \A j \in S : ~(<<j, i>> \in R)
  BY <1>1, WFMin
<1>3. ASSUME NEW j \in S PROVE i <= j
  <2>1. i \in Nat /\ j \in Nat
    OBVIOUS
  <2>2. ~(<<j, i>> \in R)
    BY <1>2
  <2>3. ~(j < i)
    BY <2>1, <2>2 DEF R
  <2> QED BY <2>1, <2>3
<1> QED BY <1>3

\* LookupKeyID finds a key of the set.
LEMMA LookupRange ==
  ASSUME NEW set \in Seq(JWKs), NEW kid, LookupKeyID(set, kid) # 0
  PROVE  LookupKeyID(set, kid) \in 1..Len(set)
<1> DEFINE hits == {i \in 1..Len(set) : set[i].kid = kid}
<1>1. hits # {}
  BY DEF LookupKeyID
<1>2. hits \subseteq Nat
  OBVIOUS
<1>3. \E i \in hits : \A j \in hits : i <= j
  <2> HIDE DEF hits
  <2> QED BY <1>1, <1>2, LeastElement
<1>4. LookupKeyID(set, kid) = CHOOSE i \in hits : \A j \in hits : i <= j
  BY <1>1 DEF LookupKeyID
<1>5. LookupKeyID(set, kid) \in hits
  <2> HIDE DEF hits
  <2> QED BY <1>3, <1>4
<1> QED BY <1>5

\* Whatever key argument a caller passes, what it resolves to is a Go key.
LEMMA ResolveType ==
  ASSUME NEW key \in KeyArgs, NEW kid
  PROVE  resolveKey(key, kid).key \in GoKeys
<1>1. key.raw \in GoKeys /\ key.keys \in Seq(JWKs) /\ key.kind \in KeyArgKind
  BY DEF KeyArgs
<1>2. ASSUME NEW i \in 1..Len(key.keys) PROVE Key(key.keys[i]).key \in GoKeys
  <2>1. key.keys[i] \in JWKs
    BY <1>1
  <2> QED BY <2>1 DEF Key, JWKs
<1>3. CASE key.kind = "*JWK"
  <2>1. Len(key.keys) = 1
    BY <1>3 DEF KeyArgs
  <2>2. Key(key.keys[1]).key \in GoKeys
    BY <1>2, <2>1
  <2> QED BY <1>3, <2>2 DEF resolveKey
<1>4. CASE key.kind = "*JWKSet"
  <2>1. CASE kid = "" /\ Len(key.keys) = 1
    <3>1. Len(key.keys) = 1
      BY <2>1
    <3>2. Key(key.keys[1]).key \in GoKeys
      BY <1>2, <3>1
    <3> QED BY <1>4, <2>1, <3>2 DEF resolveKey
  <2>2. CASE ~(kid = "" /\ Len(key.keys) = 1) /\ LookupKeyID(key.keys, kid) = 0
    BY <1>1, <1>4, <2>2 DEF resolveKey
  <2>3. CASE ~(kid = "" /\ Len(key.keys) = 1) /\ LookupKeyID(key.keys, kid) # 0
    <3>1. Key(key.keys[LookupKeyID(key.keys, kid)]).key \in GoKeys
      BY <1>1, <1>2, <2>3, LookupRange
    <3> QED BY <1>4, <2>3, <3>1 DEF resolveKey
  <2> QED BY <2>1, <2>2, <2>3
<1>5. CASE key.kind \in {"go", "nil", "nil *JWK", "nil *JWKSet"}
  BY <1>1, <1>5 DEF resolveKey
<1> QED BY <1>1, <1>3, <1>4, <1>5 DEF KeyArgKind

\* The JWK whose restrictions are checked is the one whose key is used.
LEMMA SelectedIsResolved ==
  ASSUME NEW key \in KeyArgs, NEW kid, key.kind \in {"*JWK", "*JWKSet"},
         resolveKey(key, kid).err = nil
  PROVE  /\ selectJWK(key, kid) \in 1..Len(key.keys)
         /\ key.keys[selectJWK(key, kid)].valid
         /\ key.keys[selectJWK(key, kid)].material = resolveKey(key, kid).key
<1> DEFINE at == selectJWK(key, kid)
<1>1. key.keys \in Seq(JWKs)
  BY DEF KeyArgs
<1>2. at \in 1..Len(key.keys) /\ resolveKey(key, kid) = Key(key.keys[at])
  <2>1. CASE key.kind = "*JWK"
    <3>1. Len(key.keys) = 1
      BY <2>1 DEF KeyArgs
    <3> QED BY <2>1, <3>1 DEF selectJWK, resolveKey
  <2>2. CASE key.kind = "*JWKSet" /\ kid = "" /\ Len(key.keys) = 1
    <3>1. at = 1 /\ resolveKey(key, kid) = Key(key.keys[1])
      BY <2>2 DEF selectJWK, resolveKey
    <3>2. Len(key.keys) = 1
      BY <2>2
    <3>3. 1 \in 1..Len(key.keys)
      BY <3>2
    <3> HIDE DEF at
    <3> QED BY <3>1, <3>3
  <2>3. CASE key.kind = "*JWKSet" /\ ~(kid = "" /\ Len(key.keys) = 1)
    <3>1. LookupKeyID(key.keys, kid) # 0
      BY <2>3 DEF resolveKey, nil
    <3>2. LookupKeyID(key.keys, kid) \in 1..Len(key.keys)
      BY <1>1, <3>1, LookupRange
    <3> QED BY <2>3, <3>1, <3>2 DEF selectJWK, resolveKey
  <2> QED BY <2>1, <2>2, <2>3
<1> HIDE DEF at
<1>3. Key(key.keys[at]).err = nil
  BY <1>2
<1>4. key.keys[at].valid /\ Key(key.keys[at]).key = key.keys[at].material
  BY <1>3 DEF Key, nil
<1> QED BY <1>2, <1>4 DEF at

-----------------------------------------------------------------------------
(* "crit".                                                                 *)

\* A "crit" that checkCritical lets pass lists extensions, one at least, that
\* are present and known.
LEMMA CheckCriticalSucceeds ==
  ASSUME NEW h \in Headers, NEW known, checkCritical(h, known) = nil, Has(h, "crit")
  PROVE  /\ CriticalOK(h) /\ h["crit"].items # <<>>
         /\ \A k \in 1..Len(h["crit"].items) :
               LET n == h["crit"].items[k]
               IN  /\ n # "" /\ ~isRegisteredHeader(n)
                   /\ Has(h, n) /\ containsString(known, n)
<1> DEFINE crit == h["crit"].items
           e(k) == critNameErr(h, known, crit[k])
           bad  == {k \in 1..Len(crit) : e(k) # nil}
<1>1. CriticalOK(h)
  BY DEF checkCritical, nil
<1>2. Critical(h) = crit
  BY <1>1 DEF Critical
<1>2a. crit # <<>>
  BY <1>1, <1>2 DEF checkCritical, nil
<1>3. bad = {} \/ e(CHOOSE i \in bad : \A j \in bad : i <= j) = nil
  BY <1>1, <1>2 DEF checkCritical, nil
<1>4. bad \subseteq Nat
  <2>1. h["crit"] \in Value
    BY NameAssumption DEF Headers
  <2>2. crit \in Seq(Symbol)
    BY <2>1 DEF Value
  <2> QED BY <2>2
<1>5. \A k \in bad : e(k) # nil
  OBVIOUS
<1>6. bad = {}
  <2> HIDE DEF bad, e
  <2>1. ASSUME bad # {} PROVE FALSE
    <3>1. \E i \in bad : \A j \in bad : i <= j
      BY <1>4, <2>1, LeastElement
    <3>2. (CHOOSE i \in bad : \A j \in bad : i <= j) \in bad
      BY <3>1
    <3> QED BY <1>3, <1>5, <2>1, <3>2
  <2> QED BY <2>1
<1>7. ASSUME NEW k \in 1..Len(crit)
      PROVE  /\ crit[k] # "" /\ ~isRegisteredHeader(crit[k])
             /\ Has(h, crit[k]) /\ containsString(known, crit[k])
  <2>1. critNameErr(h, known, crit[k]) = nil
    BY <1>6
  <2> QED BY <2>1 DEF critNameErr, nil
<1> QED BY <1>1, <1>2a, <1>7

\* Such a "crit" passes.
LEMMA CheckCriticalPasses ==
  ASSUME NEW h, NEW known, CriticalOK(h), h["crit"].items # <<>>,
         \A k \in 1..Len(h["crit"].items) :
            LET n == h["crit"].items[k]
            IN  /\ n # "" /\ ~isRegisteredHeader(n)
                /\ Has(h, n) /\ containsString(known, n)
  PROVE  checkCritical(h, known) = nil
<1> DEFINE crit == h["crit"].items
<1>1. Critical(h) = crit
  BY DEF Critical
<1>2. ASSUME NEW k \in 1..Len(crit) PROVE critNameErr(h, known, crit[k]) = nil
  BY DEF critNameErr
<1> HIDE DEF crit
<1>3. {k \in 1..Len(crit) : critNameErr(h, known, crit[k]) # nil} = {}
  BY <1>2
<1>4. crit # <<>>
  BY DEF crit
<1> QED BY <1>1, <1>3, <1>4 DEF checkCritical

\* A "crit" that checkCriticalProduced lets a document carry changes its Go type
\* in it ([]string to []any), and every string in it still is one.
LEMMA CriticalAfterJSON ==
  ASSUME NEW h \in Headers, checkCriticalProduced(h) = nil, Has(h, "crit")
  PROVE  /\ CriticalOK(JSON(h)) /\ JSON(h)["crit"].items = h["crit"].items
         /\ h["crit"].items # <<>>
         /\ \A k \in 1..Len(h["crit"].items) :
               LET n == h["crit"].items[k]
               IN  n # "" /\ ~isRegisteredHeader(n) /\ Has(h, n)
<1> DEFINE crit == h["crit"].items
<1>1. "crit" \in Name /\ JSON(h)["crit"] = JSONValue(h["crit"])
  BY NameAssumption DEF JSON
<1>2. CriticalOK(h) /\ checkCritical(h, Critical(h)) = nil
  BY DEF checkCriticalProduced, nil
<1>3. /\ crit # <<>>
      /\ \A k \in 1..Len(crit) :
            crit[k] # "" /\ ~isRegisteredHeader(crit[k]) /\ Has(h, crit[k])
  BY <1>2, CheckCriticalSucceeds
<1>4. JSON(h)["crit"].go = "[]any" /\ JSON(h)["crit"].items = crit
  <2>1. CASE h["crit"].go = "[]string"
    <3>1. JSONValue(h["crit"]) = Anys(crit)
      BY <2>1 DEF JSONValue
    <3> QED BY <1>1, <3>1 DEF Anys
  <2>2. CASE h["crit"].go = "[]any"
    <3>1. JSONValue(h["crit"]) = h["crit"]
      BY <2>2 DEF JSONValue
    <3> QED BY <1>1, <2>2, <3>1
  <2> QED BY <1>2, <2>1, <2>2 DEF CriticalOK
<1> HIDE DEF crit
<1>5. ~containsString(crit, NotAString)
  BY <1>3, NotAStringAssumption DEF containsString, Has
<1>6. CriticalOK(JSON(h))
  BY <1>4, <1>5 DEF CriticalOK
<1> QED BY <1>3, <1>4, <1>6 DEF crit

(***************************************************************************)
(* A "crit" that checkCriticalProduced lets a document carry is one that   *)
(* checkCritical accepts in it, for every consumer that knows the names.   *)
(***************************************************************************)
LEMMA CriticalSurvivesJSON ==
  ASSUME NEW h \in Headers, checkCriticalProduced(h) = nil, NEW known,
         \A k \in 1..Len(Critical(JSON(h))) : containsString(known, Critical(JSON(h))[k])
  PROVE  checkCritical(JSON(h), known) = nil
<1>1. CASE ~Has(h, "crit")
  <2>1. ~Has(JSON(h), "crit")
    BY <1>1, NameAssumption, JSONMember DEF Has
  <2> QED BY <2>1 DEF checkCritical
<1>2. CASE Has(h, "crit")
  <2> DEFINE crit == h["crit"].items
  <2>1. CriticalOK(JSON(h)) /\ JSON(h)["crit"].items = crit /\ crit # <<>>
    BY <1>2, CriticalAfterJSON
  <2>2. ASSUME NEW k \in 1..Len(crit)
        PROVE  crit[k] # "" /\ ~isRegisteredHeader(crit[k]) /\ Has(h, crit[k])
    BY <1>2, CriticalAfterJSON
  <2> HIDE DEF crit
  <2>3. Critical(JSON(h)) = crit
    BY <2>1 DEF Critical
  <2>4. ASSUME NEW k \in 1..Len(crit)
        PROVE  /\ crit[k] # "" /\ ~isRegisteredHeader(crit[k])
               /\ Has(JSON(h), crit[k]) /\ containsString(known, crit[k])
    <3>1. Has(h, crit[k]) /\ crit[k] \in Name
      BY <2>2 DEF Has
    <3>2. Has(JSON(h), crit[k])
      BY <3>1, JSONMember
    <3> QED BY <2>2, <2>3, <3>2
  <2> QED BY <2>1, <2>4, CheckCriticalPasses
<1> QED BY <1>1, <1>2

-----------------------------------------------------------------------------
(* Errors.                                                                 *)

\* No error is an error value.
LEMMA NilType == nil \in Errors
  BY DEF Errors, nil

\* Each check on headers and keys reports nil or a sentinel error.
LEMMA ErrorTypes ==
  /\ \A h1, h2 : mergeHeaders(h1, h2).err \in Errors
  /\ \A h, known : checkCritical(h, known) \in Errors
  /\ \A key, kid, use, algs, ops : checkJWKUsage(key, kid, use, algs, ops) \in Errors
  /\ \A seg : decodeHeader(seg).err \in Errors
<1>1. \A h1, h2 : mergeHeaders(h1, h2).err \in Errors
  BY DEF mergeHeaders, Errors, nil
<1>2. \A h, known, n : critNameErr(h, known, n) \in Errors
  BY DEF critNameErr, Errors, nil
<1>3. \A h, known : checkCritical(h, known) \in Errors
  BY <1>2 DEF checkCritical, Errors, nil
<1>4. \A key, kid, use, algs, ops : checkJWKUsage(key, kid, use, algs, ops) \in Errors
  BY DEF checkJWKUsage, Errors, nil
<1>5. \A seg : decodeHeader(seg).err \in Errors
  BY DEF decodeHeader, Errors, nil
<1> QED BY <1>1, <1>3, <1>4, <1>5

\* resolveKey fails with an error of the package.
LEMMA ResolveErrorType ==
  ASSUME NEW key \in KeyArgs, NEW kid PROVE resolveKey(key, kid).err \in Errors
<1>1. \A j : Key(j).err \in Errors
  BY DEF Key, Errors, nil
<1>2. CASE key.kind = "*JWK"
  BY <1>1, <1>2 DEF resolveKey
<1>3. CASE key.kind = "*JWKSet"
  BY <1>1, <1>3 DEF resolveKey, Errors
<1>4. CASE key.kind \in {"go", "nil", "nil *JWK", "nil *JWKSet"}
  BY <1>4 DEF resolveKey, Errors, nil
<1> QED BY <1>2, <1>3, <1>4 DEF KeyArgs, KeyArgKind

-----------------------------------------------------------------------------
(* base64url itself, of which a segment above counts the layers.            *)

B64 == INSTANCE Base64

\* The lengths of q quanta and what is left of another.
LEMMA QuantumLengths ==
  ASSUME NEW q \in Nat
  PROVE  /\ B64!EncodedLen(3 * q) = 4 * q /\ B64!EncodedLen(3 * q + 1) = 4 * q + 2
         /\ B64!EncodedLen(3 * q + 2) = 4 * q + 3
         /\ B64!DecodedLen(4 * q) = 3 * q /\ B64!DecodedLen(4 * q + 2) = 3 * q + 1
         /\ B64!DecodedLen(4 * q + 3) = 3 * q + 2
<1>1. B64!EncodedLen(3 * q) = 4 * q
  BY SMT DEF B64!EncodedLen
<1>2. B64!EncodedLen(3 * q + 1) = 4 * q + 2
  BY SMT DEF B64!EncodedLen
<1>3. B64!EncodedLen(3 * q + 2) = 4 * q + 3
  BY SMT DEF B64!EncodedLen
<1>4. B64!DecodedLen(4 * q) = 3 * q
  BY SMT DEF B64!DecodedLen
<1>5. B64!DecodedLen(4 * q + 2) = 3 * q + 1
  BY SMT DEF B64!DecodedLen
<1>6. B64!DecodedLen(4 * q + 3) = 3 * q + 2
  BY SMT DEF B64!DecodedLen
<1> QED BY <1>1, <1>2, <1>3, <1>4, <1>5, <1>6

\* Octets come in whole quanta, or leave one or two.
LEMMA Quanta ==
  ASSUME NEW n \in Nat
  PROVE  \E q \in Nat : \/ n = 3 * q /\ B64!EncodedLen(n) = 4 * q
                        \/ n = 3 * q + 1 /\ B64!EncodedLen(n) = 4 * q + 2
                        \/ n = 3 * q + 2 /\ B64!EncodedLen(n) = 4 * q + 3
<1> DEFINE q == n \div 3
<1>1. q \in Nat /\ (n = 3 * q \/ n = 3 * q + 1 \/ n = 3 * q + 2)
  BY SMT
<1> HIDE DEF q
<1> QED BY <1>1, QuantumLengths, Zenon

\* So do characters, of which one alone is never left.
LEMMA CharQuanta ==
  ASSUME NEW m \in Nat, m % 4 # 1
  PROVE  \E q \in Nat : \/ m = 4 * q /\ B64!DecodedLen(m) = 3 * q
                        \/ m = 4 * q + 2 /\ B64!DecodedLen(m) = 3 * q + 1
                        \/ m = 4 * q + 3 /\ B64!DecodedLen(m) = 3 * q + 2
<1> DEFINE q == m \div 4
<1>1. q \in Nat /\ (m = 4 * q \/ m = 4 * q + 2 \/ m = 4 * q + 3)
  BY SMT
<1> HIDE DEF q
<1> QED BY <1>1, QuantumLengths, Zenon

\* A place past the end reads as 0.
LEMMA AtType ==
  ASSUME NEW S, 0 \in S, NEW s \in Seq(S), NEW i \in Nat, i # 0
  PROVE  B64!At(s, i) \in S
  BY DEF B64!At

\* Octets make characters of the alphabet.
LEMMA CharRange ==
  ASSUME NEW x \in B64!Octet, NEW y \in B64!Octet
  PROVE  /\ B64!FirstChar(x) \in B64!Alphabet
         /\ B64!SecondChar(x, y) \in B64!Alphabet
         /\ B64!ThirdChar(x, y) \in B64!Alphabet
         /\ B64!FourthChar(x) \in B64!Alphabet
  BY SMT DEF B64!FirstChar, B64!SecondChar, B64!ThirdChar, B64!FourthChar, B64!Octet,
       B64!Alphabet

\* The last character of a short quantum has no unused bit set.
LEMMA NoUnusedBits ==
  ASSUME NEW x \in B64!Octet
  PROVE  B64!SecondChar(x, 0) % 16 = 0 /\ B64!ThirdChar(x, 0) % 4 = 0
  BY SMT DEF B64!SecondChar, B64!ThirdChar, B64!Octet, B64!Alphabet

\* A quantum of octets comes back.
LEMMA QuantumEncodes ==
  ASSUME NEW x \in B64!Octet, NEW y \in B64!Octet, NEW z \in B64!Octet
  PROVE  /\ B64!FirstOctet(B64!FirstChar(x), B64!SecondChar(x, y)) = x
         /\ B64!SecondOctet(B64!SecondChar(x, y), B64!ThirdChar(y, z)) = y
         /\ B64!ThirdOctet(B64!ThirdChar(y, z), B64!FourthChar(z)) = z
<1>1. B64!FirstOctet(B64!FirstChar(x), B64!SecondChar(x, y)) = x
  BY SMT DEF B64!FirstChar, B64!SecondChar, B64!FirstOctet, B64!Octet, B64!Alphabet
<1>2. B64!SecondOctet(B64!SecondChar(x, y), B64!ThirdChar(y, z)) = y
  BY SMTT(30) DEF B64!SecondChar, B64!ThirdChar, B64!SecondOctet, B64!Octet,
       B64!Alphabet
<1>3. B64!ThirdOctet(B64!ThirdChar(y, z), B64!FourthChar(z)) = z
  BY SMT DEF B64!ThirdChar, B64!FourthChar, B64!ThirdOctet, B64!Octet, B64!Alphabet
<1> QED BY <1>1, <1>2, <1>3

\* Characters of the alphabet make octets.
LEMMA OctetRange ==
  ASSUME NEW a \in B64!Alphabet, NEW b \in B64!Alphabet
  PROVE  /\ B64!FirstOctet(a, b) \in B64!Octet
         /\ B64!SecondOctet(a, b) \in B64!Octet
         /\ B64!ThirdOctet(a, b) \in B64!Octet
  BY SMT DEF B64!FirstOctet, B64!SecondOctet, B64!ThirdOctet, B64!Octet, B64!Alphabet

\* With the unused bits clear, no octet past the end is anything but 0.
LEMMA NothingLost ==
  ASSUME NEW a \in B64!Alphabet
  PROVE  (a % 16 = 0 => B64!SecondOctet(a, 0) = 0) /\ (a % 4 = 0 => B64!ThirdOctet(a, 0) = 0)
  BY SMT DEF B64!SecondOctet, B64!ThirdOctet, B64!Alphabet

\* A quantum of characters comes back: the outer two,
LEMMA OuterDecodes ==
  ASSUME NEW a \in B64!Alphabet, NEW b \in B64!Alphabet
  PROVE  /\ B64!FirstChar(B64!FirstOctet(a, b)) = a
         /\ B64!FourthChar(B64!ThirdOctet(a, b)) = b
  BY SMT DEF B64!FirstChar, B64!FirstOctet, B64!FourthChar, B64!ThirdOctet,
       B64!Octet, B64!Alphabet

\* and the inner two.
LEMMA InnerDecodes ==
  ASSUME NEW a \in B64!Alphabet, NEW b \in B64!Alphabet, NEW c \in B64!Alphabet
  PROVE  /\ B64!SecondChar(B64!FirstOctet(a, b), B64!SecondOctet(b, c)) = b
         /\ B64!ThirdChar(B64!SecondOctet(a, b), B64!ThirdOctet(b, c)) = b
<1>1. B64!SecondChar(B64!FirstOctet(a, b), B64!SecondOctet(b, c)) = b
  BY SMTT(30) DEF B64!SecondChar, B64!FirstOctet, B64!SecondOctet, B64!Octet,
       B64!Alphabet
<1>2. B64!ThirdChar(B64!SecondOctet(a, b), B64!ThirdOctet(b, c)) = b
  BY SMTT(30) DEF B64!ThirdChar, B64!SecondOctet, B64!ThirdOctet, B64!Octet,
       B64!Alphabet
<1> QED BY <1>1, <1>2

\* The characters of quantum q, past the end of the segment too.
LEMMA EncodedQuantum ==
  ASSUME NEW b \in Seq(B64!Octet), NEW e, e = B64!EncodeToString(b), NEW q \in Nat
  PROVE  /\ B64!At(e, 4 * q + 1) = B64!FirstChar(B64!At(b, 3 * q + 1))
         /\ B64!At(e, 4 * q + 2) = B64!SecondChar(B64!At(b, 3 * q + 1), B64!At(b, 3 * q + 2))
         /\ B64!At(e, 4 * q + 3) = B64!ThirdChar(B64!At(b, 3 * q + 2), B64!At(b, 3 * q + 3))
         /\ B64!At(e, 4 * q + 4) = B64!FourthChar(B64!At(b, 3 * q + 3))
<1> DEFINE n == Len(b)
           m == B64!EncodedLen(n)
           at(i) == B64!At(b, 3 * q + i)
           place(p, r) == CASE r = 1 -> B64!FirstChar(B64!At(b, 3 * p + 1))
                            [] r = 2 -> B64!SecondChar(B64!At(b, 3 * p + 1), B64!At(b, 3 * p + 2))
                            [] r = 3 -> B64!ThirdChar(B64!At(b, 3 * p + 2), B64!At(b, 3 * p + 3))
                            [] OTHER -> B64!FourthChar(B64!At(b, 3 * p + 3))
           char(k) == place((k - 1) \div 4, k % 4)
<1>1. n \in Nat
  OBVIOUS
<1>2. e = [k \in 1..m |-> char(k)]
  BY DEF B64!EncodeToString
<1>3. m \in Nat
  BY <1>1, SMT DEF B64!EncodedLen
<1>4. /\ char(4 * q + 1) = B64!FirstChar(at(1))
      /\ char(4 * q + 2) = B64!SecondChar(at(1), at(2))
      /\ char(4 * q + 3) = B64!ThirdChar(at(2), at(3))
      /\ char(4 * q + 4) = B64!FourthChar(at(3))
  <2>1. /\ (4 * q + 1 - 1) \div 4 = q /\ (4 * q + 2 - 1) \div 4 = q
        /\ (4 * q + 3 - 1) \div 4 = q /\ (4 * q + 4 - 1) \div 4 = q
        /\ (4 * q + 1) % 4 = 1 /\ (4 * q + 2) % 4 = 2
        /\ (4 * q + 3) % 4 = 3 /\ (4 * q + 4) % 4 = 0
    BY SMT
  <2>2. ASSUME NEW k, (k - 1) \div 4 = q
        PROVE  /\ k % 4 = 1 => char(k) = B64!FirstChar(at(1))
               /\ k % 4 = 2 => char(k) = B64!SecondChar(at(1), at(2))
               /\ k % 4 = 3 => char(k) = B64!ThirdChar(at(2), at(3))
               /\ k % 4 = 0 => char(k) = B64!FourthChar(at(3))
    BY <2>2
  <2> HIDE DEF char, at
  <2>3. char(4 * q + 1) = B64!FirstChar(at(1))
    BY <2>1, <2>2
  <2>4. char(4 * q + 2) = B64!SecondChar(at(1), at(2))
    BY <2>1, <2>2
  <2>5. char(4 * q + 3) = B64!ThirdChar(at(2), at(3))
    BY <2>1, <2>2
  <2>6. char(4 * q + 4) = B64!FourthChar(at(3))
    BY <2>1, <2>2
  <2> QED BY <2>3, <2>4, <2>5, <2>6, Zenon
<1> HIDE DEF char, m
<1>5. Len(e) = m /\ \A k \in 1..m : e[k] = char(k)
  BY <1>2, <1>3
<1>6. \A i \in 1..4 :
         /\ 4 * q + i <= m => B64!At(e, 4 * q + i) = char(4 * q + i)
         /\ ~(4 * q + i <= m) => B64!At(e, 4 * q + i) = 0
  BY <1>3, <1>5 DEF B64!At
<1>7. PICK Q \in Nat : \/ n = 3 * Q /\ m = 4 * Q
                       \/ n = 3 * Q + 1 /\ m = 4 * Q + 2
                       \/ n = 3 * Q + 2 /\ m = 4 * Q + 3
  BY <1>1, Quanta DEF m
<1>8. \A i \in 1..3 : ~(3 * q + i <= n) => at(i) = 0
  BY DEF B64!At
<1> HIDE DEF n
<1>9. /\ ~(4 * q + 1 <= m) => ~(3 * q + 1 <= n)
      /\ ~(4 * q + 2 <= m) => ~(3 * q + 1 <= n) /\ ~(3 * q + 2 <= n)
      /\ ~(4 * q + 3 <= m) => ~(3 * q + 2 <= n) /\ ~(3 * q + 3 <= n)
      /\ ~(4 * q + 4 <= m) => ~(3 * q + 3 <= n)
  BY <1>7, SMT
<1>10. /\ B64!FirstChar(0) = 0 /\ B64!SecondChar(0, 0) = 0
       /\ B64!ThirdChar(0, 0) = 0 /\ B64!FourthChar(0) = 0
  BY SMT DEF B64!FirstChar, B64!SecondChar, B64!ThirdChar, B64!FourthChar
<1> HIDE DEF at
<1>11. B64!At(e, 4 * q + 1) = B64!FirstChar(at(1))
  BY <1>4, <1>6, <1>8, <1>9, <1>10
<1>12. B64!At(e, 4 * q + 2) = B64!SecondChar(at(1), at(2))
  BY <1>4, <1>6, <1>8, <1>9, <1>10
<1>13. B64!At(e, 4 * q + 3) = B64!ThirdChar(at(2), at(3))
  BY <1>4, <1>6, <1>8, <1>9, <1>10
<1>14. B64!At(e, 4 * q + 4) = B64!FourthChar(at(3))
  BY <1>4, <1>6, <1>8, <1>9, <1>10
<1> QED BY <1>11, <1>12, <1>13, <1>14 DEF at

\* The octets of quantum q, past the end too.
LEMMA DecodedQuantum ==
  ASSUME NEW s \in Seq(B64!Alphabet), Len(s) % 4 # 1, B64!UnusedBits(s) = 0,
         NEW d, d = B64!Decoded(s), NEW q \in Nat
  PROVE  /\ B64!At(d, 3 * q + 1) = B64!FirstOctet(B64!At(s, 4 * q + 1), B64!At(s, 4 * q + 2))
         /\ B64!At(d, 3 * q + 2) = B64!SecondOctet(B64!At(s, 4 * q + 2), B64!At(s, 4 * q + 3))
         /\ B64!At(d, 3 * q + 3) = B64!ThirdOctet(B64!At(s, 4 * q + 3), B64!At(s, 4 * q + 4))
<1> DEFINE m == Len(s)
           n == B64!DecodedLen(m)
           at(i) == B64!At(s, 4 * q + i)
           place(p, r) == CASE r = 1 -> B64!FirstOctet(B64!At(s, 4 * p + 1), B64!At(s, 4 * p + 2))
                            [] r = 2 -> B64!SecondOctet(B64!At(s, 4 * p + 2), B64!At(s, 4 * p + 3))
                            [] OTHER -> B64!ThirdOctet(B64!At(s, 4 * p + 3), B64!At(s, 4 * p + 4))
           octet(j) == place((j - 1) \div 3, j % 3)
<1>1. m \in Nat
  OBVIOUS
<1>2. d = [j \in 1..n |-> octet(j)]
  BY DEF B64!Decoded
<1>3. n \in Nat
  BY <1>1, SMT DEF B64!DecodedLen
<1>4. /\ octet(3 * q + 1) = B64!FirstOctet(at(1), at(2))
      /\ octet(3 * q + 2) = B64!SecondOctet(at(2), at(3))
      /\ octet(3 * q + 3) = B64!ThirdOctet(at(3), at(4))
  <2>1. /\ (3 * q + 1 - 1) \div 3 = q /\ (3 * q + 2 - 1) \div 3 = q
        /\ (3 * q + 3 - 1) \div 3 = q
        /\ (3 * q + 1) % 3 = 1 /\ (3 * q + 2) % 3 = 2 /\ (3 * q + 3) % 3 = 0
    BY SMT
  <2>2. ASSUME NEW j, (j - 1) \div 3 = q
        PROVE  /\ j % 3 = 1 => octet(j) = B64!FirstOctet(at(1), at(2))
               /\ j % 3 = 2 => octet(j) = B64!SecondOctet(at(2), at(3))
               /\ j % 3 = 0 => octet(j) = B64!ThirdOctet(at(3), at(4))
    BY <2>2
  <2> HIDE DEF octet, at
  <2>3. octet(3 * q + 1) = B64!FirstOctet(at(1), at(2))
    BY <2>1, <2>2
  <2>4. octet(3 * q + 2) = B64!SecondOctet(at(2), at(3))
    BY <2>1, <2>2
  <2>5. octet(3 * q + 3) = B64!ThirdOctet(at(3), at(4))
    BY <2>1, <2>2
  <2> QED BY <2>3, <2>4, <2>5, Zenon
<1> HIDE DEF octet, n
<1>5. Len(d) = n /\ \A j \in 1..n : d[j] = octet(j)
  BY <1>2, <1>3
<1>6. \A i \in 1..3 :
         /\ 3 * q + i <= n => B64!At(d, 3 * q + i) = octet(3 * q + i)
         /\ ~(3 * q + i <= n) => B64!At(d, 3 * q + i) = 0
  BY <1>3, <1>5 DEF B64!At
<1>7. PICK Q \in Nat : \/ m = 4 * Q /\ n = 3 * Q
                       \/ m = 4 * Q + 2 /\ n = 3 * Q + 1
                       \/ m = 4 * Q + 3 /\ n = 3 * Q + 2
  BY <1>1, CharQuanta DEF n
<1>8. \A i \in 1..4 : ~(4 * q + i <= m) => at(i) = 0
  BY DEF B64!At
<1>9. /\ at(1) \in B64!Alphabet /\ at(2) \in B64!Alphabet /\ at(3) \in B64!Alphabet
      /\ at(4) \in B64!Alphabet
  <2>1. ASSUME NEW i \in Nat, i # 0 PROVE at(i) \in B64!Alphabet
    <3>1. 4 * q + i \in Nat /\ 4 * q + i # 0
      BY <2>1, SMT
    <3>2. 0 \in B64!Alphabet
      BY SMT DEF B64!Alphabet
    <3> QED BY <3>1, <3>2, AtType
  <2> HIDE DEF at
  <2>2. /\ 1 \in Nat /\ 2 \in Nat /\ 3 \in Nat /\ 4 \in Nat
        /\ 1 # 0 /\ 2 # 0 /\ 3 # 0 /\ 4 # 0
    BY SMT
  <2> QED BY <2>1, <2>2, Zenon
<1>10. m = 4 * Q + 2 /\ 4 * q + 2 = m => at(2) % 16 = 0
  <2> SUFFICES ASSUME m = 4 * Q + 2, 4 * q + 2 = m PROVE at(2) % 16 = 0
    OBVIOUS
  <2>1. m % 4 = 2
    BY SMT
  <2>2. at(2) = s[m]
    BY <1>1 DEF B64!At
  <2> QED BY <2>1, <2>2 DEF B64!UnusedBits
<1>11. m = 4 * Q + 3 /\ 4 * q + 3 = m => at(3) % 4 = 0
  <2> SUFFICES ASSUME m = 4 * Q + 3, 4 * q + 3 = m PROVE at(3) % 4 = 0
    OBVIOUS
  <2>1. m % 4 = 3
    BY SMT
  <2>2. at(3) = s[m]
    BY <1>1 DEF B64!At
  <2> QED BY <2>1, <2>2 DEF B64!UnusedBits
<1> HIDE DEF m
<1>12. /\ ~(3 * q + 1 <= n) => ~(4 * q + 1 <= m) /\ ~(4 * q + 2 <= m)
       /\ ~(3 * q + 2 <= n) => \/ ~(4 * q + 2 <= m) /\ ~(4 * q + 3 <= m)
                               \/ m = 4 * Q + 2 /\ 4 * q + 2 = m /\ ~(4 * q + 3 <= m)
       /\ ~(3 * q + 3 <= n) => \/ ~(4 * q + 3 <= m) /\ ~(4 * q + 4 <= m)
                               \/ m = 4 * Q + 3 /\ 4 * q + 3 = m /\ ~(4 * q + 4 <= m)
  BY <1>1, <1>7, SMT
<1> HIDE DEF at
<1>13. /\ B64!FirstOctet(0, 0) = 0 /\ B64!SecondOctet(0, 0) = 0
       /\ B64!ThirdOctet(0, 0) = 0
       /\ at(2) % 16 = 0 => B64!SecondOctet(at(2), 0) = 0
       /\ at(3) % 4 = 0 => B64!ThirdOctet(at(3), 0) = 0
  <2>1. /\ B64!FirstOctet(0, 0) = 0 /\ B64!SecondOctet(0, 0) = 0
        /\ B64!ThirdOctet(0, 0) = 0
    BY SMT DEF B64!FirstOctet, B64!SecondOctet, B64!ThirdOctet
  <2>2. at(2) % 16 = 0 => B64!SecondOctet(at(2), 0) = 0
    BY <1>9, NothingLost
  <2>3. at(3) % 4 = 0 => B64!ThirdOctet(at(3), 0) = 0
    BY <1>9, NothingLost
  <2> QED BY <2>1, <2>2, <2>3
<1>14. B64!At(d, 3 * q + 1) = B64!FirstOctet(at(1), at(2))
  BY <1>4, <1>6, <1>8, <1>12, <1>13
<1>15. B64!At(d, 3 * q + 2) = B64!SecondOctet(at(2), at(3))
  BY <1>4, <1>6, <1>8, <1>10, <1>12, <1>13
<1>16. B64!At(d, 3 * q + 3) = B64!ThirdOctet(at(3), at(4))
  BY <1>4, <1>6, <1>8, <1>11, <1>12, <1>13
<1> QED BY <1>14, <1>15, <1>16 DEF at

\* Sequences as long as each other that agree on every place are equal.
LEMMA EqualAt ==
  ASSUME NEW S, NEW s \in Seq(S), NEW T, NEW t \in Seq(T), Len(s) = Len(t),
         \A i \in 1..Len(s) : B64!At(s, i) = B64!At(t, i)
  PROVE  s = t
<1>1. \A i \in 1..Len(s) : s[i] = t[i]
  BY DEF B64!At
<1> QED BY <1>1

\* What encoding makes is what the strict decoder takes.
LEMMA EncodedShape ==
  ASSUME NEW b \in Seq(B64!Octet), NEW e, e = B64!EncodeToString(b)
  PROVE  /\ e \in Seq(B64!Alphabet)
         /\ Len(e) = B64!EncodedLen(Len(b))
         /\ Len(e) % 4 # 1
         /\ B64!UnusedBits(e) = 0
<1> DEFINE n == Len(b)
           m == B64!EncodedLen(n)
<1>1. n \in Nat
  OBVIOUS
<1>2. m \in Nat
  BY <1>1, SMT DEF B64!EncodedLen
<1>3. e = [k \in 1..m |-> e[k]] /\ Len(e) = m /\ DOMAIN e = 1..m
  BY <1>2 DEF B64!EncodeToString
<1>4. PICK Q \in Nat : \/ n = 3 * Q /\ m = 4 * Q
                       \/ n = 3 * Q + 1 /\ m = 4 * Q + 2
                       \/ n = 3 * Q + 2 /\ m = 4 * Q + 3
  BY <1>1, Quanta
<1> HIDE DEF m
<1>5. ASSUME NEW i \in Nat, i # 0 PROVE B64!At(b, i) \in B64!Octet
  <2>1. 0 \in B64!Octet
    BY SMT DEF B64!Octet
  <2> QED BY <1>5, <2>1, AtType
<1>6. ASSUME NEW k \in 1..m PROVE e[k] \in B64!Alphabet
  <2>1. PICK q \in Nat : k = 4 * q + 1 \/ k = 4 * q + 2 \/ k = 4 * q + 3 \/ k = 4 * q + 4
    <3>1. (k - 1) \div 4 \in Nat
      BY <1>2, SMT
    <3> QED BY <1>2, <3>1, SMT
  <2>2. /\ B64!At(b, 3 * q + 1) \in B64!Octet /\ B64!At(b, 3 * q + 2) \in B64!Octet
        /\ B64!At(b, 3 * q + 3) \in B64!Octet
    <3>1. /\ 3 * q + 1 \in Nat /\ 3 * q + 2 \in Nat /\ 3 * q + 3 \in Nat
          /\ 3 * q + 1 # 0 /\ 3 * q + 2 # 0 /\ 3 * q + 3 # 0
      BY SMT
    <3> QED BY <1>5, <3>1
  <2>3. B64!At(e, k) \in B64!Alphabet
    <3>1. /\ B64!FirstChar(B64!At(b, 3 * q + 1)) \in B64!Alphabet
          /\ B64!SecondChar(B64!At(b, 3 * q + 1), B64!At(b, 3 * q + 2)) \in B64!Alphabet
          /\ B64!ThirdChar(B64!At(b, 3 * q + 2), B64!At(b, 3 * q + 3)) \in B64!Alphabet
          /\ B64!FourthChar(B64!At(b, 3 * q + 3)) \in B64!Alphabet
      BY <2>2, CharRange
    <3>2. /\ B64!At(e, 4 * q + 1) \in B64!Alphabet
          /\ B64!At(e, 4 * q + 2) \in B64!Alphabet
          /\ B64!At(e, 4 * q + 3) \in B64!Alphabet
          /\ B64!At(e, 4 * q + 4) \in B64!Alphabet
      BY <3>1, EncodedQuantum, Zenon
    <3> QED BY <2>1, <3>2, Zenon
  <2>4. B64!At(e, k) = e[k]
    <3>1. k <= Len(e)
      BY <1>2, <1>3
    <3> QED BY <3>1 DEF B64!At
  <2> QED BY <2>3, <2>4 DEF B64!Alphabet
<1>7. e \in Seq(B64!Alphabet)
  BY <1>2, <1>3, <1>6
<1>8. m % 4 # 1
  BY <1>4, SMT
<1>9. /\ B64!At(b, 3 * Q + 1) \in B64!Octet /\ B64!At(b, 3 * Q + 2) \in B64!Octet
  <2>1. 3 * Q + 1 \in Nat /\ 3 * Q + 2 \in Nat /\ 3 * Q + 1 # 0 /\ 3 * Q + 2 # 0
    BY SMT
  <2> QED BY <1>5, <2>1
<1>10. ASSUME m % 4 = 2 PROVE B64!UnusedBits(e) = 0
  <2>1. n = 3 * Q + 1 /\ m = 4 * Q + 2
    BY <1>4, <1>10, SMT
  <2>2. B64!At(b, 3 * Q + 2) = 0
    BY <2>1 DEF B64!At
  <2>3. e[m] = B64!At(e, m)
    <3>1. m <= Len(e)
      BY <1>2, <1>3
    <3> QED BY <3>1 DEF B64!At
  <2>4. B64!At(e, m) = B64!SecondChar(B64!At(b, 3 * Q + 1), 0)
    BY <2>1, <2>2, EncodedQuantum
  <2>5. e[m] % 16 = 0
    BY <1>9, <2>3, <2>4, NoUnusedBits
  <2>6. Len(e) % 4 = 2 /\ e[Len(e)] % 16 = 0
    BY <1>3, <1>10, <2>5, Zenon
  <2> QED BY <2>6, Zenon DEF B64!UnusedBits
<1>11. ASSUME m % 4 = 3 PROVE B64!UnusedBits(e) = 0
  <2>1. n = 3 * Q + 2 /\ m = 4 * Q + 3
    BY <1>4, <1>11, SMT
  <2>2. B64!At(b, 3 * Q + 3) = 0
    BY <2>1 DEF B64!At
  <2>3. e[m] = B64!At(e, m)
    <3>1. m <= Len(e)
      BY <1>2, <1>3
    <3> QED BY <3>1 DEF B64!At
  <2>4. B64!At(e, m) = B64!ThirdChar(B64!At(b, 3 * Q + 2), 0)
    BY <2>1, <2>2, EncodedQuantum
  <2>5. e[m] % 4 = 0
    BY <1>9, <2>3, <2>4, NoUnusedBits
  <2>6. Len(e) % 4 = 3 /\ e[Len(e)] % 4 = 0
    BY <1>3, <1>11, <2>5, Zenon
  <2>7. Len(e) % 4 # 2
    BY <2>6
  <2> QED BY <2>6, <2>7, Zenon DEF B64!UnusedBits
<1>12. ASSUME m % 4 # 2, m % 4 # 3 PROVE B64!UnusedBits(e) = 0
  BY <1>3, <1>7, <1>8, <1>12 DEF B64!UnusedBits
<1>13. B64!UnusedBits(e) = 0
  BY <1>10, <1>11, <1>12
<1> QED BY <1>3, <1>7, <1>8, <1>13 DEF m

\* Decoding undoes encoding, quantum by quantum.
LEMMA DecodedEncoded ==
  ASSUME NEW b \in Seq(B64!Octet)
  PROVE  B64!Decoded(B64!EncodeToString(b)) = b
<1> DEFINE e == B64!EncodeToString(b)
           d == B64!Decoded(e)
<1>1. /\ e \in Seq(B64!Alphabet) /\ Len(e) = B64!EncodedLen(Len(b))
      /\ Len(e) % 4 # 1 /\ B64!UnusedBits(e) = 0
  BY EncodedShape
<1> HIDE DEF e
<1>2. B64!DecodedLen(Len(e)) = Len(b)
  <2>1. Len(b) \in Nat
    OBVIOUS
  <2>2. PICK Q \in Nat : \/ Len(b) = 3 * Q /\ B64!EncodedLen(Len(b)) = 4 * Q
                         \/ Len(b) = 3 * Q + 1 /\ B64!EncodedLen(Len(b)) = 4 * Q + 2
                         \/ Len(b) = 3 * Q + 2 /\ B64!EncodedLen(Len(b)) = 4 * Q + 3
    BY <2>1, Quanta
  <2> QED BY <1>1, <2>2, QuantumLengths, Zenon
<1>3. d \in Seq({d[j] : j \in 1..Len(b)}) /\ Len(d) = Len(b)
  BY <1>2 DEF B64!Decoded
<1> HIDE DEF d
<1>4. ASSUME NEW j \in 1..Len(b) PROVE B64!At(d, j) = B64!At(b, j)
  <2>1. PICK q \in Nat : j = 3 * q + 1 \/ j = 3 * q + 2 \/ j = 3 * q + 3
    <3>1. (j - 1) \div 3 \in Nat
      BY SMT
    <3> QED BY <3>1, SMT
  <2> DEFINE x == B64!At(b, 3 * q + 1)
             y == B64!At(b, 3 * q + 2)
             z == B64!At(b, 3 * q + 3)
  <2>2. x \in B64!Octet /\ y \in B64!Octet /\ z \in B64!Octet
    <3>1. /\ 3 * q + 1 \in Nat /\ 3 * q + 2 \in Nat /\ 3 * q + 3 \in Nat
          /\ 3 * q + 1 # 0 /\ 3 * q + 2 # 0 /\ 3 * q + 3 # 0
      BY SMT
    <3>2. 0 \in B64!Octet
      BY SMT DEF B64!Octet
    <3> QED BY <3>1, <3>2, AtType
  <2>3. /\ B64!At(e, 4 * q + 1) = B64!FirstChar(x)
        /\ B64!At(e, 4 * q + 2) = B64!SecondChar(x, y)
        /\ B64!At(e, 4 * q + 3) = B64!ThirdChar(y, z)
        /\ B64!At(e, 4 * q + 4) = B64!FourthChar(z)
    BY EncodedQuantum DEF e
  <2>4. /\ B64!At(d, 3 * q + 1) = B64!FirstOctet(B64!FirstChar(x), B64!SecondChar(x, y))
        /\ B64!At(d, 3 * q + 2) = B64!SecondOctet(B64!SecondChar(x, y), B64!ThirdChar(y, z))
        /\ B64!At(d, 3 * q + 3) = B64!ThirdOctet(B64!ThirdChar(y, z), B64!FourthChar(z))
    <3> HIDE DEF x, y, z
    <3> QED BY <1>1, <2>3, DecodedQuantum DEF d
  <2> HIDE DEF x, y, z
  <2>5. /\ B64!At(d, 3 * q + 1) = x /\ B64!At(d, 3 * q + 2) = y
        /\ B64!At(d, 3 * q + 3) = z
    <3>1. /\ B64!FirstOctet(B64!FirstChar(x), B64!SecondChar(x, y)) = x
          /\ B64!SecondOctet(B64!SecondChar(x, y), B64!ThirdChar(y, z)) = y
          /\ B64!ThirdOctet(B64!ThirdChar(y, z), B64!FourthChar(z)) = z
      BY <2>2, QuantumEncodes, Zenon
    <3> QED BY <2>4, <3>1, Zenon
  <2> QED BY <2>1, <2>5 DEF x, y, z
<1>5. d = b
  BY <1>3, <1>4, EqualAt
<1> QED BY <1>5 DEF d, e

\* And encoding undoes decoding, when no unused bit is set.
LEMMA EncodedDecoded ==
  ASSUME NEW s \in Seq(B64!Alphabet), Len(s) % 4 # 1, B64!UnusedBits(s) = 0
  PROVE  /\ B64!Decoded(s) \in Seq(B64!Octet)
         /\ B64!EncodeToString(B64!Decoded(s)) = s
<1> DEFINE d == B64!Decoded(s)
           n == B64!DecodedLen(Len(s))
           e == B64!EncodeToString(d)
<1>1. n \in Nat /\ B64!EncodedLen(n) = Len(s)
  <2>1. Len(s) \in Nat
    OBVIOUS
  <2>2. PICK Q \in Nat : \/ Len(s) = 4 * Q /\ n = 3 * Q
                         \/ Len(s) = 4 * Q + 2 /\ n = 3 * Q + 1
                         \/ Len(s) = 4 * Q + 3 /\ n = 3 * Q + 2
    BY <2>1, CharQuanta
  <2> HIDE DEF n
  <2>3. n \in Nat
    BY <2>2
  <2>4. B64!EncodedLen(n) = Len(s)
    BY <2>2, QuantumLengths, Zenon
  <2> QED BY <2>3, <2>4
<1> HIDE DEF n
<1>2. Len(d) = n /\ DOMAIN d = 1..n /\ d = [j \in 1..n |-> d[j]]
  BY <1>1 DEF B64!Decoded, n
<1> HIDE DEF d
<1>3. ASSUME NEW q \in Nat
      PROVE  /\ B64!At(s, 4 * q + 1) \in B64!Alphabet
             /\ B64!At(s, 4 * q + 2) \in B64!Alphabet
             /\ B64!At(s, 4 * q + 3) \in B64!Alphabet
             /\ B64!At(s, 4 * q + 4) \in B64!Alphabet
  <2>1. /\ 4 * q + 1 \in Nat /\ 4 * q + 2 \in Nat /\ 4 * q + 3 \in Nat
        /\ 4 * q + 4 \in Nat
        /\ 4 * q + 1 # 0 /\ 4 * q + 2 # 0 /\ 4 * q + 3 # 0 /\ 4 * q + 4 # 0
    BY SMT
  <2>2. 0 \in B64!Alphabet
    BY SMT DEF B64!Alphabet
  <2> QED BY <2>1, <2>2, AtType
<1>4. ASSUME NEW q \in Nat
      PROVE  /\ B64!At(d, 3 * q + 1) = B64!FirstOctet(B64!At(s, 4 * q + 1), B64!At(s, 4 * q + 2))
             /\ B64!At(d, 3 * q + 2) = B64!SecondOctet(B64!At(s, 4 * q + 2), B64!At(s, 4 * q + 3))
             /\ B64!At(d, 3 * q + 3) = B64!ThirdOctet(B64!At(s, 4 * q + 3), B64!At(s, 4 * q + 4))
  BY DecodedQuantum DEF d
<1>5. ASSUME NEW j \in 1..n PROVE d[j] \in B64!Octet
  <2>1. PICK q \in Nat : j = 3 * q + 1 \/ j = 3 * q + 2 \/ j = 3 * q + 3
    <3>1. (j - 1) \div 3 \in Nat
      BY <1>1, SMT
    <3> QED BY <1>1, <3>1, SMT
  <2>2. B64!At(d, j) \in B64!Octet
    <3>1. /\ B64!FirstOctet(B64!At(s, 4 * q + 1), B64!At(s, 4 * q + 2)) \in B64!Octet
          /\ B64!SecondOctet(B64!At(s, 4 * q + 2), B64!At(s, 4 * q + 3)) \in B64!Octet
          /\ B64!ThirdOctet(B64!At(s, 4 * q + 3), B64!At(s, 4 * q + 4)) \in B64!Octet
      BY <1>3, OctetRange
    <3>2. /\ B64!At(d, 3 * q + 1) \in B64!Octet /\ B64!At(d, 3 * q + 2) \in B64!Octet
          /\ B64!At(d, 3 * q + 3) \in B64!Octet
      BY <1>4, <3>1, Zenon
    <3> QED BY <2>1, <3>2, Zenon
  <2>3. B64!At(d, j) = d[j]
    BY <1>2 DEF B64!At
  <2> QED BY <2>2, <2>3 DEF B64!Octet
<1>6. d \in Seq(B64!Octet)
  BY <1>1, <1>2, <1>5
<1>7. e \in Seq(B64!Alphabet) /\ Len(e) = Len(s)
  BY <1>1, <1>2, <1>6, EncodedShape
<1>8. ASSUME NEW k \in 1..Len(s) PROVE B64!At(s, k) = B64!At(e, k)
  <2>1. PICK q \in Nat : k = 4 * q + 1 \/ k = 4 * q + 2 \/ k = 4 * q + 3 \/ k = 4 * q + 4
    <3>1. (k - 1) \div 4 \in Nat
      BY SMT
    <3> QED BY <3>1, SMT
  <2> DEFINE w == B64!At(s, 4 * q + 1)
             x == B64!At(s, 4 * q + 2)
             y == B64!At(s, 4 * q + 3)
             z == B64!At(s, 4 * q + 4)
  <2>2. /\ w \in B64!Alphabet /\ x \in B64!Alphabet /\ y \in B64!Alphabet
        /\ z \in B64!Alphabet
    BY <1>3
  <2>3. /\ B64!At(d, 3 * q + 1) = B64!FirstOctet(w, x)
        /\ B64!At(d, 3 * q + 2) = B64!SecondOctet(x, y)
        /\ B64!At(d, 3 * q + 3) = B64!ThirdOctet(y, z)
    BY <1>4
  <2> HIDE DEF w, x, y, z
  <2>4. /\ B64!At(e, 4 * q + 1) = B64!FirstChar(B64!FirstOctet(w, x))
        /\ B64!At(e, 4 * q + 2) = B64!SecondChar(B64!FirstOctet(w, x), B64!SecondOctet(x, y))
        /\ B64!At(e, 4 * q + 3) = B64!ThirdChar(B64!SecondOctet(x, y), B64!ThirdOctet(y, z))
        /\ B64!At(e, 4 * q + 4) = B64!FourthChar(B64!ThirdOctet(y, z))
    BY <1>6, <2>3, EncodedQuantum
  <2>5. /\ B64!At(e, 4 * q + 1) = w /\ B64!At(e, 4 * q + 2) = x
        /\ B64!At(e, 4 * q + 3) = y /\ B64!At(e, 4 * q + 4) = z
    <3>1. /\ B64!FirstChar(B64!FirstOctet(w, x)) = w
          /\ B64!SecondChar(B64!FirstOctet(w, x), B64!SecondOctet(x, y)) = x
          /\ B64!ThirdChar(B64!SecondOctet(x, y), B64!ThirdOctet(y, z)) = y
          /\ B64!FourthChar(B64!ThirdOctet(y, z)) = z
      BY <2>2, OuterDecodes, InnerDecodes
    <3> QED BY <2>4, <3>1, Zenon
  <2> QED BY <2>1, <2>5 DEF w, x, y, z
<1> HIDE DEF e
<1>9. s = e
  BY <1>7, <1>8, EqualAt
<1> QED BY <1>6, <1>9 DEF d, e

(***************************************************************************)
(* "DecodeSegment(EncodeSegment(b)) round-trips" (base64.go), for octet    *)
(* strings of every length.                                                *)
(***************************************************************************)
THEOREM SegmentRoundTrip ==
  ASSUME NEW b \in Seq(B64!Octet)
  PROVE  B64!DecodeSegment(B64!EncodeSegment(b)) = [err |-> B64!nil, out |-> b]
<1> DEFINE e == B64!EncodeToString(b)
<1>1. e \in Seq(B64!Alphabet) /\ Len(e) % 4 # 1 /\ B64!UnusedBits(e) = 0
  BY EncodedShape
<1>2. B64!Decoded(e) = b
  BY DecodedEncoded
<1> HIDE DEF e
<1>3. B64!InAlphabet(e)
  BY <1>1 DEF B64!InAlphabet
<1>4. B64!DecodeString(e) = [err |-> B64!nil, out |-> b]
  BY <1>1, <1>2, <1>3 DEF B64!DecodeString
<1>5. B64!DecodeSegment(e) = [err |-> B64!nil, out |-> b]
  BY <1>3, <1>4 DEF B64!DecodeSegment
<1> QED BY <1>5 DEF B64!EncodeSegment, e

\* A segment that decodes is the encoding of what it decodes to.
LEMMA AcceptedIsEncoded ==
  ASSUME NEW seg \in Seq(B64!Char), B64!DecodeSegment(seg).err = B64!nil
  PROVE  /\ B64!DecodeSegment(seg).out \in Seq(B64!Octet)
         /\ B64!EncodeSegment(B64!DecodeSegment(seg).out) = seg
<1>1. B64!InAlphabet(seg) /\ B64!DecodeSegment(seg) = B64!DecodeString(seg)
  BY DEF B64!DecodeSegment, B64!nil
<1>2. /\ Len(seg) % 4 # 1 /\ B64!UnusedBits(seg) = 0
      /\ B64!DecodeSegment(seg).out = B64!Decoded(seg)
  BY <1>1 DEF B64!DecodeString, B64!nil
<1>3. seg \in Seq(B64!Alphabet)
  <2>1. /\ DOMAIN seg = 1..Len(seg) /\ Len(seg) \in Nat
        /\ seg = [i \in 1..Len(seg) |-> seg[i]]
    OBVIOUS
  <2> QED BY <1>1, <2>1 DEF B64!InAlphabet
<1> QED BY <1>2, <1>3, EncodedDecoded DEF B64!EncodeSegment

(***************************************************************************)
(* "No two distinct segments decode alike" (base64.go): the screen keeps   *)
(* out the characters encoding/base64 skips, and Strict the last           *)
(* characters whose unused bits are set.                                   *)
(***************************************************************************)
THEOREM SegmentsAreCanonical ==
  ASSUME NEW s \in Seq(B64!Char), NEW t \in Seq(B64!Char),
         B64!DecodeSegment(s).err = B64!nil, B64!DecodeSegment(t).err = B64!nil,
         B64!DecodeSegment(s).out = B64!DecodeSegment(t).out
  PROVE  s = t
BY AcceptedIsEncoded

\* A layer of base64url makes octets longer: no text has endless layers (Octets).
LEMMA LayersLengthen ==
  ASSUME NEW b \in Seq(B64!Octet), b # <<>>
  PROVE  Len(B64!EncodeSegment(b)) > Len(b)
<1>1. Len(b) \in Nat /\ Len(b) # 0
  OBVIOUS
<1>2. Len(B64!EncodeToString(b)) = B64!EncodedLen(Len(b))
  BY EncodedShape
<1> QED BY <1>1, <1>2, SMT DEF B64!EncodeSegment, B64!EncodedLen
=============================================================================

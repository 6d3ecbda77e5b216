------------------------------- MODULE Header -------------------------------
(***************************************************************************)
(* JOSE headers (header.go): Go maps from parameter names to values of any *)
(* type, their transit through JSON and base64url, the merge of protected  *)
(* and unprotected halves, and the "crit" rules.                           *)
(*                                                                         *)
(* A map is a function on Name whose value is Absent where the map has no  *)
(* member.  A value keeps its Go dynamic type, because the code branches   *)
(* on it, and JSON changes it; its content is a list of symbols (one for a *)
(* string, a number or a Boolean).                                         *)
(***************************************************************************)
EXTENDS Octets, Sequences

CONSTANTS
    Name,     \* the parameter names headers may hold
    Symbol    \* the strings headers, options and JWK metadata may hold

ASSUME NameAssumption == {"alg", "kid", "crit", "b64"} \subseteq Name
ASSUME SymbolAssumption == "" \in Symbol

GoType == {"absent", "string", "bool", "[]string", "[]any", "map",
           "float64", "int", "int64", "json.Number", "chan"}

\* An element of a []any that is not a string.
NotAString == "(not a string)"
ASSUME NotAStringAssumption == NotAString \notin Name

Value == {v \in [go : GoType, items : Seq(Symbol)] :
            v.go \in {"string", "bool"} => Len(v.items) = 1}
Absent == [go |-> "absent", items |-> <<>>]
Str(s) == [go |-> "string", items |-> <<s>>]
Bool(s) == [go |-> "bool", items |-> <<s>>]       \* s is "true" or "false"
Strings(list) == [go |-> "[]string", items |-> list]
Anys(list)    == [go |-> "[]any", items |-> list]

Headers  == [Name -> Value]
NoHeader == [n \in Name |-> Absent]

Has(h, n) == n \in Name /\ h[n] # Absent

\* map[name] = value, and the literal {name: value, ...} built from it.
With(h, n, v) == [h EXCEPT ![n] = v]

-----------------------------------------------------------------------------
(* Accessors.                                                              *)

\* Header.String: "" when the parameter is absent or not a string.
HeaderString(h, n) == IF h[n].go = "string" THEN h[n].items[1] ELSE ""
Algorithm(h) == HeaderString(h, "alg")
KeyID(h)     == HeaderString(h, "kid")

containsString(list, s) == \E i \in 1..Len(list) : list[i] = s

\* Header.Critical: the list, and whether "crit" is an array of strings.
CriticalOK(h) ==
    \/ h["crit"].go = "[]string"
    \/ h["crit"].go = "[]any" /\ ~containsString(h["crit"].items, NotAString)
Critical(h) == IF CriticalOK(h) THEN h["crit"].items ELSE <<>>

-----------------------------------------------------------------------------
(* Serialization.                                                          *)

\* encoding/json cannot marshal every Go value, and gives back its own types.
Marshals(h) == \A n \in Name : h[n].go # "chan"

JSONValue(v) ==
    CASE v.go = "[]string" -> Anys(v.items)
      [] v.go \in {"int", "int64", "json.Number"} -> [go |-> "float64", items |-> v.items]
      [] OTHER             -> v
JSON(h) == [n \in Name |-> JSONValue(h[n])]

\* A protected header as it is spelled in a document: empty, the spelling
\* encodeHeader gives a map ("json"), another spelling of the same map
\* ("respelled": other member order, whitespace), or one that is no map.
SegForm == {"", "json", "respelled", "null", "notjson", "notb64"}
ProtectedSegs == [form : SegForm, hdr : Headers]
Seg(form, hdr) == [form |-> form, hdr |-> hdr]

encodeHeader(h) ==
    IF ~Marshals(h) THEN [err |-> "ErrInvalidHeader", seg |-> Seg("", NoHeader)]
    ELSE [err |-> nil, seg |-> Seg("json", JSON(h))]

decodeHeader(seg) ==
    IF seg.form \notin {"json", "respelled"}
    THEN [err |-> "ErrMalformed", hdr |-> NoHeader]
    ELSE [err |-> nil, hdr |-> seg.hdr]

-----------------------------------------------------------------------------
(* Merging.                                                                *)

\* The mutant lets the later half override the earlier one.
MutMergeHeaders(h1, h2) ==
    [err |-> nil, hdr |-> [n \in Name |-> IF Has(h2, n) THEN h2[n] ELSE h1[n]]]

mergeHeaders(h1, h2) ==
    IF \E n \in Name : Has(h1, n) /\ Has(h2, n)
    THEN [err |-> "ErrInvalidHeader", hdr |-> NoHeader]
    ELSE [err |-> nil, hdr |-> [n \in Name |-> IF Has(h1, n) THEN h1[n] ELSE h2[n]]]

-----------------------------------------------------------------------------
(* "crit".                                                                 *)

registeredHeaders == {"alg", "jku", "jwk", "kid", "x5u", "x5c", "x5t", "x5t#S256",
    "typ", "cty", "crit", "enc", "zip", "epk", "apu", "apv", "iv", "tag", "p2s", "p2c"}

isRegisteredHeader(n) == n \in registeredHeaders

\* One iteration of checkCritical's loop.
critNameErr(protected, known, n) ==
    IF n = "" THEN "ErrInvalidCrit"
    ELSE IF isRegisteredHeader(n) THEN "ErrInvalidCrit"
    ELSE IF ~Has(protected, n) THEN "ErrUnprotectedCritical"
    ELSE IF ~containsString(known, n) THEN "ErrInvalidCrit"
    ELSE nil

\* The mutant only asks whether the listed parameters are present.
MutCheckCritical(protected, known) ==
    IF \E n \in Name : containsString(Critical(protected), n) /\ ~Has(protected, n)
    THEN "ErrUnprotectedCritical" ELSE nil

checkCritical(protected, known) ==
    LET crit == Critical(protected)
        bad  == {i \in 1..Len(crit) : critNameErr(protected, known, crit[i]) # nil}
    IN  IF Has(protected, "crit") /\ ~CriticalOK(protected) THEN "ErrInvalidCrit"
        ELSE IF ~Has(protected, "crit") THEN nil
        ELSE IF crit = <<>> THEN "ErrInvalidCrit"
        ELSE IF bad = {} THEN nil
        ELSE critNameErr(protected, known, crit[CHOOSE i \in bad : \A j \in bad : i <= j])

\* The mutant checks nothing before a document is emitted.
MutCheckCriticalProduced(protected) == nil

checkCriticalProduced(protected) ==
    IF ~Has(protected, "crit") THEN nil
    ELSE IF ~CriticalOK(protected) THEN "ErrInvalidCrit"
    ELSE checkCritical(protected, Critical(protected))
=============================================================================

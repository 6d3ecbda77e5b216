------------------------------- MODULE Octets -------------------------------
(***************************************************************************)
(* Octet strings as the JOSE serializations handle them (base64.go), and   *)
(* what a JSON string does to them.                                        *)
(*                                                                         *)
(* Every octet string is written in exactly one way as a text that is not  *)
(* itself canonical unpadded base64url (or is empty), wrapped in a number  *)
(* of layers of base64url: decoding strips one layer and, because the      *)
(* decoder is strict, no two octet strings decode alike.  A payload whose  *)
(* octets happen to spell base64url is one with layers > 0.  That is all   *)
(* the signing code can tell apart about a payload, besides whether it is  *)
(* empty, contains a '.', or is not valid UTF-8.                           *)
(***************************************************************************)
EXTENDS Naturals

CONSTANTS
    Text,      \* the innermost texts, "" among them
    Dotted,    \* those that contain a '.'
    NotUTF8    \* those that are not valid UTF-8

nil == "nil"          \* Go's nil error

\* Errors are the sentinels of errors.go; two arise below them, and a call that
\* panics returns none at all.
Errors == {nil, "base64url", "crypto", "panic", "ErrInvalidToken", "ErrMalformed",
    "ErrSignatureInvalid", "ErrInvalidKeyType", "ErrInvalidKey", "ErrKeyNotFound",
    "ErrUnsupportedAlgorithm", "ErrNoneAlgDisallowed", "ErrInvalidCrit",
    "ErrInvalidHeader", "ErrDetachedPayload", "ErrUnprotectedB64",
    "ErrUnprotectedCritical", "ErrKeyUseMismatch", "ErrKeyAlgMismatch",
    "ErrKeyOpsMismatch"}

\* What encoding/json leaves of a text that is not valid UTF-8.
Replaced == "U+FFFD"

ASSUME TextAssumption ==
    /\ {"", Replaced} \subseteq Text
    /\ Dotted \subseteq Text \ {"", Replaced}
    /\ NotUTF8 \subseteq Text \ {"", Replaced}

Octets == {o \in [text : Text, layers : Nat] : o.text = "" => o.layers = 0}

Empty == [text |-> "", layers |-> 0]

Plain(t) == [text |-> t, layers |-> 0]

\* A '.' or an octet that is not UTF-8 lies outside the base64url alphabet,
\* so only an octet string with no layer can hold one.
HasDot(o)    == o.layers = 0 /\ o.text \in Dotted
ValidUTF8(o) == ~(o.layers = 0 /\ o.text \in NotUTF8)

\* The mutant gives the empty string a spelling of its own.
MutEncodeSegment(o) == [text |-> o.text, layers |-> o.layers + 1]

EncodeSegment(o) == IF o = Empty THEN Empty ELSE [text |-> o.text, layers |-> o.layers + 1]

\* Strict: a text outside the alphabet, or a non-canonical one, is refused.
DecodeSegment(seg) ==
    IF seg = Empty THEN [err |-> nil, out |-> Empty]
    ELSE IF seg.layers = 0 THEN [err |-> "base64url", out |-> Empty]
    ELSE [err |-> nil, out |-> [text |-> seg.text, layers |-> seg.layers - 1]]

\* encoding/json: an octet string marshalled as a Go string and read back.
JSONString(o) == IF ValidUTF8(o) THEN o ELSE Plain(Replaced)
=============================================================================

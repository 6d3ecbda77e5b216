------------------------------- MODULE CBCHMAC -------------------------------
(***************************************************************************)
(* AES-CBC-HMAC-SHA2, RFC 7518 section 5.2 (contentenc.go): PKCS #7        *)
(* padding, CBC, and an HMAC over AAD || IV || E || AL, put together.      *)
(*                                                                         *)
(* CBC mode and HMAC are the standard library's: CBC is two operators that *)
(* undo each other, and a tag is a term, equal to another only if key and  *)
(* input are.  A message travels between the two calls, and whoever holds  *)
(* it may divide its octets anew and mix it with others.                   *)
(***************************************************************************)
EXTENDS Integers, Sequences, FiniteSets

CONSTANTS
    Octet,                  \* the values of an octet
    BlockSize,              \* aes.BlockSize
    CBCEncrypt(_, _, _),    \* cipher.NewCBCEncrypter(key, iv).CryptBlocks
    CBCDecrypt(_, _, _),    \* cipher.NewCBCDecrypter(key, iv).CryptBlocks
    PutUint64(_),           \* binary.BigEndian.PutUint64
    Cek, Plaintext, AAD,    \* what callers encrypt with, encrypt and bind
    Random,                 \* what an IV may be drawn from
    MaxLen,                 \* bound: octets of a message's additional data
    MaxSealed,              \* bound: encryptions in a behaviour
    MaxEdits                \* bound: changes to one message on its way

Octets == Seq(Octet)

-----------------------------------------------------------------------------
(* Padding.                                                                *)

\* The mutant adds nothing to whole blocks.
MutPkcs7Pad(b) ==
    LET n == (BlockSize - (Len(b) % BlockSize)) % BlockSize
    IN  b \o [i \in 1..n |-> n]

pkcs7Pad(b) ==
    LET n == BlockSize - (Len(b) % BlockSize)
    IN  b \o [i \in 1..n |-> n]

\* The whole pad is checked, not only its last octet.
pkcs7Unpad(b) ==
    LET n == b[Len(b)]
    IN  IF /\ Len(b) # 0 /\ Len(b) % BlockSize = 0
           /\ n # 0 /\ n <= BlockSize /\ n <= Len(b)
           /\ \A i \in (Len(b) - n + 1)..Len(b) : b[i] = n
        THEN [ok |-> TRUE, out |-> SubSeq(b, 1, Len(b) - n)]
        ELSE [ok |-> FALSE, out |-> <<>>]

-----------------------------------------------------------------------------
(* Keys and tags.                                                          *)

\* cbcSplit: the first half, and the second.
macKey(cek) == SubSeq(cek, 1, Len(cek) \div 2)
encKey(cek) == SubSeq(cek, Len(cek) \div 2 + 1, Len(cek))

\* The mutant leaves the length of the additional data out.
MutCbcAL(aad) == <<>>

\* In bits.
cbcAL(aad) == PutUint64(8 * Len(aad))

\* Truncating the HMAC to the length of the key keeps tags apart.
Tags   == [key : Octets, over : Octets]
NoTag  == [key |-> <<>>, over |-> <<>>]
cbcTag(key, iv, ciphertext, aad) ==
    [key |-> key, over |-> aad \o iv \o ciphertext \o cbcAL(aad)]

ASSUME CBCHMACAssumption ==
    /\ Octet \subseteq Nat
    /\ BlockSize \in Nat \ {0} /\ 1..BlockSize \subseteq Octet
    /\ MaxLen \in Nat /\ MaxSealed \in Nat /\ MaxEdits \in Nat
    /\ \A cek \in Cek : cek \in Octets /\ Len(cek) >= 2
    /\ \A x \in Plaintext : x \in Octets
    /\ \A a \in AAD : a \in Octets /\ Len(a) <= MaxLen
    /\ \A v \in Random : v \in Octets /\ Len(v) = BlockSize

ASSUME CBCAssumption ==
    \A cek \in Cek, v \in Random, x \in Plaintext :
        LET p == pkcs7Pad(x)
            c == CBCEncrypt(encKey(cek), v, p)
        IN  /\ c \in Octets /\ Len(c) = Len(p)
            /\ CBCDecrypt(encKey(cek), v, c) = p
            /\ \A other \in Cek : CBCDecrypt(encKey(other), v, c) \in Octets

\* Always eight octets, and no two numbers below 2^64 alike.
ASSUME Uint64Assumption ==
    \A m, n \in 0..MaxLen :
        /\ PutUint64(8 * m) \in Octets /\ Len(PutUint64(8 * m)) = 8
        /\ PutUint64(8 * m) = PutUint64(8 * n) => m = n

-----------------------------------------------------------------------------
(* The two calls on one message after the other.                           *)

VARIABLES
    wire,       \* the message on its way: [aad, iv, ciphertext, tag]
    edits,      \* how often it was changed
    sealed,     \* what encryptCBCHMAC was called with and made
    result      \* of the latest decryptCBCHMAC, for the message on the wire

vars == <<wire, edits, sealed, result>>

Messages == [aad : Octets, iv : Octets, ciphertext : Octets, tag : Tags]
message(aad, iv, ciphertext, tag) ==
    [aad |-> aad, iv |-> iv, ciphertext |-> ciphertext, tag |-> tag]
NoMessage == message(<<>>, <<>>, <<>>, NoTag)
NoResult  == [err |-> "none", cek |-> <<>>, out |-> <<>>]

TypeOK ==
    /\ wire \in Messages /\ Len(wire.aad) <= MaxLen
    /\ edits \in 0..MaxEdits
    /\ sealed \subseteq [cek : Cek, plaintext : Plaintext, made : Messages]
    /\ result \in [err : {"none", "nil", "ErrDecryptFailed"}, cek : Octets, out : Octets]

Init == wire = NoMessage /\ edits = 0 /\ sealed = {} /\ result = NoResult

encryptCBCHMAC(cek, plaintext, aad, iv) ==
    LET c == CBCEncrypt(encKey(cek), iv, pkcs7Pad(plaintext))
    IN  message(aad, iv, c, cbcTag(macKey(cek), iv, c, aad))

Encrypt ==
    \E cek \in Cek, x \in Plaintext, aad \in AAD, iv \in Random :
        LET m == encryptCBCHMAC(cek, x, aad, iv)
        IN  /\ Cardinality(sealed) < MaxSealed
            /\ wire' = m /\ edits' = 0
            /\ sealed' = sealed \cup {[cek |-> cek, plaintext |-> x, made |-> m]}
            /\ result' = NoResult

Transit(m) ==
    /\ edits < MaxEdits /\ Len(m.aad) <= MaxLen
    /\ wire' = m /\ edits' = edits + 1 /\ result' = NoResult
    /\ UNCHANGED sealed

\* The octets the tag covers, divided among the members in another way.
Resplit ==
    LET all == wire.aad \o wire.iv \o wire.ciphertext
    IN  \E i \in 0..Len(all) : \E j \in i..Len(all) :
            Transit(message(SubSeq(all, 1, i), SubSeq(all, i + 1, j),
                            SubSeq(all, j + 1, Len(all)), wire.tag))

\* A member from another message, or none.
Replace ==
    \E m \in {s.made : s \in sealed} \cup {NoMessage} :
        \/ Transit([wire EXCEPT !.aad = m.aad])
        \/ Transit([wire EXCEPT !.iv = m.iv])
        \/ Transit([wire EXCEPT !.ciphertext = m.ciphertext])
        \/ Transit([wire EXCEPT !.tag = m.tag])

decryptCBCHMAC(cek, m) ==
    LET p == pkcs7Unpad(CBCDecrypt(encKey(cek), m.iv, m.ciphertext))
    IN  IF Len(m.iv) # BlockSize \/ Len(m.ciphertext) = 0
           \/ Len(m.ciphertext) % BlockSize # 0
        THEN [err |-> "ErrDecryptFailed", cek |-> cek, out |-> <<>>]
        ELSE IF m.tag # cbcTag(macKey(cek), m.iv, m.ciphertext, m.aad)
        THEN [err |-> "ErrDecryptFailed", cek |-> cek, out |-> <<>>]
        ELSE IF ~p.ok THEN [err |-> "ErrDecryptFailed", cek |-> cek, out |-> <<>>]
        ELSE [err |-> "nil", cek |-> cek, out |-> p.out]

Decrypt ==
    /\ \E cek \in Cek : result' = decryptCBCHMAC(cek, wire)
    /\ UNCHANGED <<wire, edits, sealed>>

Next == Encrypt \/ Resplit \/ Replace \/ Decrypt

Spec == Init /\ [][Next]_vars

-----------------------------------------------------------------------------
(* Properties.                                                             *)

(***************************************************************************)
(* The holder of the key a message was encrypted with always gets the      *)
(* plaintext back from it, for every length of the last block, the empty   *)
(* plaintext and the whole block included (pkcs7Pad, pkcs7Unpad, cbcTag).  *)
(***************************************************************************)
RoundTrip ==
    \A s \in sealed :
        (wire = s.made /\ result.err # "none" /\ result.cek = s.cek)
            => result.err = "nil" /\ result.out = s.plaintext

(***************************************************************************)
(* What is decrypted is a message as it was made: the same additional      *)
(* data, IV and ciphertext, and not their octets divided in another way,   *)
(* with the MAC key it was made with (cbcTag, and AL in it).               *)
(***************************************************************************)
Bound ==
    result.err = "nil" =>
        \E s \in sealed : wire = s.made /\ macKey(result.cek) = macKey(s.cek)

-----------------------------------------------------------------------------
(* The inductive invariant behind both.                                    *)

\* A seal is what encryptCBCHMAC makes of some call: whole blocks, at least one.
Made(s) ==
    /\ \E aad \in AAD, iv \in Random :
          s.made = encryptCBCHMAC(s.cek, s.plaintext, aad, iv)
    /\ Len(s.made.ciphertext) # 0 /\ Len(s.made.ciphertext) % BlockSize = 0

(***************************************************************************)
(* Every tag on the wire that some key verifies is one that                *)
(* encryptCBCHMAC computed, and a result is always that of the message on  *)
(* the wire.                                                               *)
(***************************************************************************)
IInv ==
    /\ TypeOK
    /\ \A s \in sealed : Made(s)
    /\ wire.tag = NoTag \/ \E s \in sealed : wire.tag = s.made.tag
    /\ result.err # "none" => result.cek \in Cek /\ result = decryptCBCHMAC(result.cek, wire)
=============================================================================

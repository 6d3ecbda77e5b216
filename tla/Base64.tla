------------------------------- MODULE Base64 -------------------------------
(***************************************************************************)
(* base64url as base64.go sets up and screens encoding/base64: unpadded,   *)
(* strict, and without the characters that package skips.  Octets counts   *)
(* layers of it; this is what a layer is.                                  *)
(*                                                                         *)
(* A character is its place in the alphabet, or one of those past it.      *)
(***************************************************************************)
EXTENDS Naturals, Sequences

nil == "nil"

Octet    == 0..255
Alphabet == 0..63             \* A-Z, a-z, 0-9, '-' and '_'
Padding  == 64                \* '='
NewLines == {65, 66}          \* CR and LF
Other    == 67                \* any other character
Char     == Alphabet \cup {Padding, Other} \cup NewLines

-----------------------------------------------------------------------------
(* encoding/base64: three octets are four characters.                      *)

At(s, i) == IF i <= Len(s) THEN s[i] ELSE 0

EncodedLen(n) == (8 * n + 5) \div 6
DecodedLen(n) == (6 * n) \div 8

\* The characters of the octets x, y and z.
FirstChar(x)     == x \div 4
SecondChar(x, y) == 16 * (x % 4) + y \div 16
ThirdChar(y, z)  == 4 * (y % 16) + z \div 64
FourthChar(z)    == z % 64

\* The octets of the characters a, b, c and d.
FirstOctet(a, b)  == 4 * a + b \div 16
SecondOctet(b, c) == 16 * (b % 16) + c \div 4
ThirdOctet(c, d)  == 64 * (c % 4) + d

EncodeToString(b) ==
    [k \in 1..EncodedLen(Len(b)) |->
        LET q == 3 * ((k - 1) \div 4)
        IN  CASE k % 4 = 1 -> FirstChar(At(b, q + 1))
              [] k % 4 = 2 -> SecondChar(At(b, q + 1), At(b, q + 2))
              [] k % 4 = 3 -> ThirdChar(At(b, q + 2), At(b, q + 3))
              [] OTHER     -> FourthChar(At(b, q + 3))]

Decoded(s) ==
    [j \in 1..DecodedLen(Len(s)) |->
        LET q == 4 * ((j - 1) \div 3)
        IN  CASE j % 3 = 1 -> FirstOctet(At(s, q + 1), At(s, q + 2))
              [] j % 3 = 2 -> SecondOctet(At(s, q + 2), At(s, q + 3))
              [] OTHER     -> ThirdOctet(At(s, q + 3), At(s, q + 4))]

\* The bits of the last character that belong to no octet.
UnusedBits(s) == CASE Len(s) % 4 = 2 -> s[Len(s)] % 16
                   [] Len(s) % 4 = 3 -> s[Len(s)] % 4
                   [] OTHER -> 0

InAlphabet(s) == \A i \in 1..Len(s) : s[i] \in Alphabet

WithoutNewLines(s) == SelectSeq(s, LAMBDA c : c \notin NewLines)

\* DecodeString skips CR and LF wherever they stand; Strict refuses unused bits.
DecodeString(seg) ==
    LET s == IF InAlphabet(seg) THEN seg ELSE WithoutNewLines(seg)
    IN  IF ~InAlphabet(s) \/ Len(s) % 4 = 1 \/ UnusedBits(s) # 0
        THEN [err |-> "base64url", out |-> <<>>]
        ELSE [err |-> nil, out |-> Decoded(s)]

-----------------------------------------------------------------------------
(* base64.go.                                                              *)

EncodeSegment(b) == EncodeToString(b)

DecodeSegment(seg) ==
    IF ~InAlphabet(seg) THEN [err |-> "base64url", out |-> <<>>] ELSE DecodeString(seg)
=============================================================================

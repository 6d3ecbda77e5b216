------------------------------- MODULE KeyWrap -------------------------------
(***************************************************************************)
(* AES Key Wrap, RFC 3394 (keywrap.go): AESKeyWrap and AESKeyUnwrap, one   *)
(* step per block operation.                                               *)
(*                                                                         *)
(* AES is external: a permutation Enc[k] of pairs of 8-octet words per     *)
(* key-encryption key k, with its inverse Dec[k].  Calls follow each other *)
(* in any order, on any input, among others on what the call before them   *)
(* returned.                                                               *)
(***************************************************************************)
EXTENDS Integers, Sequences

CONSTANTS
    Word,        \* the values of 8 octets
    IV,          \* aesKWIV
    Xor(_, _),   \* Xor(w, t): t, encoded big-endian in 8 octets, xored into w
    Kek,         \* key-encryption keys
    ValidKek,    \* those of a length AES has
    Enc, Dec,    \* block.Encrypt and block.Decrypt for each key
    Inputs,      \* what callers wrap and unwrap
    MaxWords     \* bound: words of a key to wrap

nil == "nil"

\* A []byte argument: its whole words, and whether octets are left over.
Args == [words : Seq(Word), ragged : BOOLEAN]
Arg(words) == [words |-> words, ragged |-> FALSE]

\* t = (n*j)+i, which stays far below 2^64.
counter(n, j, i) == n * j + i
Counters == {counter(n, j, i) : n \in 2..MaxWords, j \in 0..5, i \in 1..MaxWords}

ASSUME KeyWrapAssumption ==
    /\ IV \in Word
    /\ MaxWords \in Nat /\ MaxWords >= 2
    /\ ValidKek \subseteq Kek
    /\ \A x \in Inputs : x \in Args
    /\ \A w \in Word, t \in Counters : Xor(w, t) \in Word /\ Xor(Xor(w, t), t) = w
    /\ \A k \in ValidKek, x \in Word, y \in Word :
          /\ Enc[k][<<x, y>>] \in Word \X Word
          /\ Dec[k][<<x, y>>] \in Word \X Word
          /\ Dec[k][Enc[k][<<x, y>>]] = <<x, y>>
          /\ Enc[k][Dec[k][<<x, y>>]] = <<x, y>>

-----------------------------------------------------------------------------
(* The loop bodies.                                                        *)

\* The registers a and r.
Registers == [a : Word, r : Seq(Word)]

wrapBlock(k, s, j, i) ==
    LET b == Enc[k][<<s.a, s.r[i]>>]
    IN  [a |-> Xor(b[1], counter(Len(s.r), j, i)), r |-> [s.r EXCEPT ![i] = b[2]]]

\* The mutant counts the steps of a pass from 0.
MutUnwrapBlock(k, s, j, i) ==
    LET b == Dec[k][<<Xor(s.a, counter(Len(s.r), j, i - 1)), s.r[i]>>]
    IN  [a |-> b[1], r |-> [s.r EXCEPT ![i] = b[2]]]

unwrapBlock(k, s, j, i) ==
    LET b == Dec[k][<<Xor(s.a, counter(Len(s.r), j, i)), s.r[i]>>]
    IN  [a |-> b[1], r |-> [s.r EXCEPT ![i] = b[2]]]

-----------------------------------------------------------------------------
(* State.                                                                  *)

VARIABLES
    call,     \* the locals of the latest call, and what it returned
    trace,    \* history: the registers it had below each block
    prev      \* history: the call before it, with its trace

vars == <<call, trace, prev>>

\* The blocks a call on n words goes through, <<j, i>>, and the place above the
\* last.  AESKeyWrap goes up them and AESKeyUnwrap down.
BlocksOf(n) == (0..5) \X (1..n)
Top         == <<6, 1>>
After(b, n) == IF b[2] < n THEN <<b[1], b[2] + 1>> ELSE <<b[1] + 1, 1>>

\* The mutant stops each pass down at i = 2.
MutBefore(b, n) == IF b[2] > 2 THEN <<b[1], b[2] - 1>> ELSE <<b[1] - 1, n>>

Before(b, n) == IF b[2] > 1 THEN <<b[1], b[2] - 1>> ELSE <<b[1] - 1, n>>

Places  == (0..6) \X (1..MaxWords)
NoRegs  == [a |-> IV, r |-> <<>>]
NoTrace == [p \in Places |-> NoRegs]

Calls == [op : {"none", "wrap", "unwrap"}, phase : {"running", "returned"},
          kek : Kek, arg : Args, s : Registers, at : (-1..6) \X (-1..MaxWords),
          err : {nil, "ErrInvalidKey", "ErrMalformed", "ErrDecryptFailed"},
          out : Seq(Word)]

\* A call up to its loop, or to its early return.
newCall(op, k, x, err, s, at) ==
    [op |-> op, phase |-> IF err = nil THEN "running" ELSE "returned",
     kek |-> k, arg |-> x, s |-> s, at |-> at, err |-> err, out |-> <<>>]

NoCall(k) == [op |-> "none", phase |-> "returned", kek |-> k, arg |-> Arg(<<>>),
              s |-> NoRegs, at |-> <<0, 1>>, err |-> nil, out |-> <<>>]

Init ==
    /\ \E k \in Kek : call = NoCall(k)
    /\ trace = NoTrace
    /\ prev = [call |-> call, trace |-> NoTrace]

-----------------------------------------------------------------------------
(* The calls.                                                              *)

\* A caller passes something of its own, or what the last call gave.
Begin(x) ==
    /\ call.phase = "returned"
    /\ x \in Inputs \cup {Arg(call.out)}
    /\ prev' = [call |-> call, trace |-> trace]

Running(op) == call.op = op /\ call.phase = "running"

\* Go round the loop: the registers are now s, at p.
Loop(s, p) == call' = [call EXCEPT !.s = s, !.at = p] /\ UNCHANGED prev

Return(err, out) ==
    /\ call' = [call EXCEPT !.phase = "returned", !.err = err, !.out = out]
    /\ UNCHANGED <<trace, prev>>

wrapErr(k, x) ==
    IF k \in ValidKek /\ ~x.ragged /\ Len(x.words) >= 2 THEN nil ELSE "ErrInvalidKey"

StartWrap ==
    \E k \in Kek, x \in Inputs \cup {Arg(call.out)} :
        LET s == [a |-> IV, r |-> x.words]
        IN  /\ Begin(x)
            /\ Len(x.words) <= MaxWords
            /\ call' = newCall("wrap", k, x, wrapErr(k, x), s, <<0, 1>>)
            /\ trace' = [NoTrace EXCEPT ![<<0, 1>>] = s]

WrapBlock ==
    LET s  == wrapBlock(call.kek, call.s, call.at[1], call.at[2])
        up == After(call.at, Len(call.s.r))
    IN  /\ Running("wrap") /\ call.at # Top
        /\ Loop(s, up)
        /\ trace' = [trace EXCEPT ![up] = s]

WrapReturn ==
    /\ Running("wrap") /\ call.at = Top
    /\ Return(nil, <<call.s.a>> \o call.s.r)

unwrapErr(k, x) ==
    IF k \notin ValidKek THEN "ErrInvalidKey"
    ELSE IF x.ragged \/ Len(x.words) < 3 THEN "ErrMalformed" ELSE nil

StartUnwrap ==
    \E k \in Kek, x \in Inputs \cup {Arg(call.out)} :
        LET n == Len(x.words) - 1
            s == IF unwrapErr(k, x) = nil THEN [a |-> Head(x.words), r |-> Tail(x.words)]
                 ELSE NoRegs
        IN  /\ Begin(x)
            /\ n <= MaxWords
            /\ call' = newCall("unwrap", k, x, unwrapErr(k, x), s, <<5, n>>)
            /\ trace' = [NoTrace EXCEPT ![Top] = s]

UnwrapBlock ==
    LET s == unwrapBlock(call.kek, call.s, call.at[1], call.at[2])
    IN  /\ Running("unwrap") /\ call.at[1] >= 0
        /\ Loop(s, Before(call.at, Len(call.s.r)))
        /\ trace' = [trace EXCEPT ![call.at] = s]

\* The mutant returns the registers without looking at a.
MutIntegrityErr(a) == nil

\* subtle.ConstantTimeCompare(a, aesKWIV)
integrityErr(a) == IF a = IV THEN nil ELSE "ErrDecryptFailed"

UnwrapReturn ==
    LET err == integrityErr(call.s.a)
    IN  /\ Running("unwrap") /\ call.at[1] = -1
        /\ Return(err, IF err = nil THEN call.s.r ELSE <<>>)

-----------------------------------------------------------------------------

Next == \/ StartWrap \/ WrapBlock \/ WrapReturn
        \/ StartUnwrap \/ UnwrapBlock \/ UnwrapReturn

Spec == Init /\ [][Next]_vars
=============================================================================

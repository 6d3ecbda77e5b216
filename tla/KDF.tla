--------------------------------- MODULE KDF ---------------------------------
(***************************************************************************)
(* The key derivation loops: ConcatKDF of ecdh.go (NIST SP 800-56A) and    *)
(* PBKDF2 of pbkdf2.go (RFC 8018), one block or one iteration at a time.   *)
(*                                                                         *)
(* A hash and an HMAC are terms, equal only if all their inputs are.  An   *)
(* octet of a key says which hashes it is from, and its place in them.     *)
(***************************************************************************)
EXTENDS Integers, Sequences, FiniteSets, Functions

CONSTANTS
    Word,         \* what binary.BigEndian.PutUint32 can write: 0..(Word - 1)
    HashLen,      \* sha256.Size and prf.Size()
    Agreed,       \* the shared secrets of key agreements, all of one length
    AlgID, Info,  \* values of algID and of apu and apv
    Password, Alg, SaltInput,  \* what PBES2 derives from
    Iterations,   \* values of iterations
    KeyLens,      \* values of keyLen
    MaxDerived    \* bound: different keys derived in a behaviour

Octets == Seq(0..(Word - 1))

ASSUME KDFAssumption ==
    /\ Word \in Nat /\ Word > 8 /\ HashLen \in Nat \ {0} /\ MaxDerived \in Nat
    /\ \A z \in Agreed : z \in Octets
    /\ \A y, z \in Agreed : Len(y) = Len(z)
    /\ \A a \in AlgID \cup Alg \cup SaltInput : a \in Octets
    /\ \A a \in Info : a \in Octets
    /\ \A a \in Alg : \A i \in 1..Len(a) : a[i] # 0
    /\ \A a \in AlgID \cup Info : Len(a) < Word
    /\ Iterations \subseteq Int /\ KeyLens \subseteq Int

-----------------------------------------------------------------------------
(* Encodings.  The four octets of a 32-bit integer take one place.         *)

Uint32(n) == <<n % Word>>

\* The mutant leaves the length out.
MutLengthPrefixed(b) == b

lengthPrefixed(b) == Uint32(Len(b)) \o b

\* AlgorithmID || PartyUInfo || PartyVInfo || SuppPubInfo, the latter in bits.
otherInfo(algID, apu, apv, keyLen) ==
    lengthPrefixed(algID) \o lengthPrefixed(apu) \o lengthPrefixed(apv) \o
        Uint32((keyLen % Word) * 8)

\* The mutant does without the name of the algorithm.
MutPbes2SaltInput(alg, p2s) == p2s

pbes2SaltInput(alg, p2s) == alg \o <<0>> \o p2s

-----------------------------------------------------------------------------
(* Hashes.                                                                 *)

\* The octets of an exclusive-or of hashes: which hashes, and the place.
OctetsOf(t) == [i \in 1..HashLen |-> <<t, i>>]

\* The block of a key that SHA-256 makes of an input.
Sum(input) == OctetsOf({[key |-> <<>>, msg |-> input, times |-> 1]})

\* HMAC under the password of a message, and then of its own output, and so
\* on: "times" applications in all.
PRF(password, msg) == [key |-> password, msg |-> msg, times |-> 1]
again(u)           == [u EXCEPT !.times = @ + 1]

\* Exclusive-or leaves the hashes that occur an odd number of times.
xor(t, u) == (t \ {u}) \cup ({u} \ t)

-----------------------------------------------------------------------------

VARIABLES
    call,     \* arguments and locals of the call under way
    derived   \* the keys derived so far, each with the arguments of its call

vars == <<call, derived>>

NoArgs    == [kdf |-> "none"]
Idle      == [args |-> NoArgs, i |-> 1, out |-> <<>>, u |-> <<>>, t |-> {}, b |-> 1]
Called(a) == [Idle EXCEPT !.args = a]

ConcatArgs == [kdf : {"ConcatKDF"}, z : Agreed, algID : AlgID, apu : Info, apv : Info,
               keyLen : KeyLens]
PBKDF2Args == [kdf : {"PBKDF2"}, password : Password, alg : Alg, p2s : SaltInput,
               iterations : Iterations, keyLen : KeyLens]

Init == call = Idle /\ derived = {}

Running(kdf) == call.args.kdf = kdf

\* The call returns; key is <<>> where it returns an error.
Return(key) ==
    /\ derived' = derived \cup {[from |-> call.args, key |-> key]}
    /\ call' = Idle

CallConcatKDF ==
    /\ Running("none") /\ Cardinality(derived) < MaxDerived
    /\ \E a \in ConcatArgs : call' = Called(a)
    /\ UNCHANGED derived

CallPBKDF2 ==
    /\ Running("none") /\ Cardinality(derived) < MaxDerived
    /\ \E a \in PBKDF2Args : call' = Called(a)
    /\ UNCHANGED derived

-----------------------------------------------------------------------------
(* ConcatKDF.                                                              *)

\* The mutant hashes every block without its counter.
MutBlockInput(i, a) == a.z \o otherInfo(a.algID, a.apu, a.apv, a.keyLen)

\* What is written to the hash of block i.
blockInput(i, a) == Uint32(i) \o a.z \o otherInfo(a.algID, a.apu, a.apv, a.keyLen)

\* The mutant sums into a fresh buffer.
MutAppendSum(out, input) == Sum(input)

\* h.Sum(out).
appendSum(out, input) == out \o Sum(input)

ConcatBlock ==
    LET a == call.args
    IN  /\ Running("ConcatKDF") /\ a.keyLen > 0 /\ Len(call.out) < a.keyLen
        /\ call' = [call EXCEPT !.i = (@ + 1) % Word,
                                !.out = appendSum(@, blockInput(call.i, a))]
        /\ UNCHANGED derived

ConcatReturn ==
    /\ Running("ConcatKDF")
    /\ \/ call.args.keyLen <= 0 /\ Return(<<>>)
       \/ /\ call.args.keyLen > 0 /\ Len(call.out) >= call.args.keyLen
          /\ Return(SubSeq(call.out, 1, call.args.keyLen))

-----------------------------------------------------------------------------
(* PBKDF2, with the salt of pbes2SaltInput: the outer loop over blocks, by *)
(* b, and the inner one over iterations, by i.                             *)

PBKDF2Err(a) == a.iterations <= 0 \/ a.keyLen <= 0

blocks(keyLen) == (keyLen + HashLen - 1) \div HashLen

\* The first HMAC of block b; none before.
StartBlock ==
    LET a == call.args
        u == PRF(a.password, pbes2SaltInput(a.alg, a.p2s) \o Uint32(call.b))
    IN  /\ Running("PBKDF2") /\ ~PBKDF2Err(a)
        /\ call.u = <<>> /\ call.b <= blocks(a.keyLen)
        /\ call' = [call EXCEPT !.u = <<u>>, !.t = {u}, !.i = 1]
        /\ UNCHANGED derived

\* The mutant goes round once more.
MutMoreIterations(i, a) == i <= a.iterations

moreIterations(i, a) == i < a.iterations

Iterate ==
    LET u == again(call.u[1])
    IN  /\ Running("PBKDF2") /\ call.u # <<>> /\ moreIterations(call.i, call.args)
        /\ call' = [call EXCEPT !.u = <<u>>, !.t = xor(@, u), !.i = @ + 1]
        /\ UNCHANGED derived

EndBlock ==
    /\ Running("PBKDF2") /\ call.u # <<>> /\ ~moreIterations(call.i, call.args)
    /\ call' = [call EXCEPT !.out = @ \o OctetsOf(call.t), !.u = <<>>, !.t = {},
                            !.b = @ + 1]
    /\ UNCHANGED derived

PBKDF2Return ==
    LET a == call.args
    IN  /\ Running("PBKDF2")
        /\ \/ PBKDF2Err(a) /\ Return(<<>>)
           \/ /\ ~PBKDF2Err(a) /\ call.u = <<>> /\ call.b > blocks(a.keyLen)
              /\ Return(SubSeq(call.out, 1, a.keyLen))

Next == \/ CallConcatKDF \/ ConcatBlock \/ ConcatReturn
        \/ CallPBKDF2 \/ StartBlock \/ Iterate \/ EndBlock \/ PBKDF2Return

\* A call runs to its end; no caller must call.
Fairness == WF_vars(ConcatBlock \/ ConcatReturn \/ StartBlock \/ Iterate \/ EndBlock
                        \/ PBKDF2Return)

Spec == Init /\ [][Next]_vars /\ Fairness

-----------------------------------------------------------------------------
(* Properties.                                                             *)

\* The keys derived with one function.
Keys(kdf) == {d \in derived : d.from.kdf = kdf}

(***************************************************************************)
(* Two ConcatKDF calls whose arguments differ anywhere derive keys with no *)
(* octet in common, however algorithm, apu and apv are divided among       *)
(* themselves: the length prefixes keep them apart and SuppPubInfo the key *)
(* lengths, as long as these, in bits, stay below 2^32 (lengthPrefixed).   *)
(***************************************************************************)
ContextsSeparated ==
    \A d, e \in Keys("ConcatKDF") :
        (d.from # e.from /\ d.from.keyLen * 8 < Word /\ e.from.keyLen * 8 < Word)
            => Range(d.key) \cap Range(e.key) = {}

(***************************************************************************)
(* A PBES2 key shares no octet with a key of another algorithm or salt     *)
(* input from the same password: "Binding the algorithm name into the salt *)
(* keeps a derived key from being reused across PBES2 variants".           *)
(***************************************************************************)
VariantsSeparated ==
    \A d, e \in Keys("PBKDF2") :
        (d.from.alg # e.from.alg \/ d.from.p2s # e.from.p2s)
            => Range(d.key) \cap Range(e.key) = {}

\* The key lengths whose blocks 32 bits can number: RFC 8018's limit.
Counted(a) == a.keyLen <= (Word - 1) * HashLen

(***************************************************************************)
(* A call with positive lengths and counts derives a key as long as asked  *)
(* for, and no octet is used in two places of it, across block boundaries  *)
(* and in a last block cut short (the counters i and b, and out[:keyLen]). *)
(***************************************************************************)
WholeKeys ==
    \A d \in derived :
        (/\ d.from.keyLen > 0 /\ Counted(d.from)
         /\ d.from.kdf = "PBKDF2" => d.from.iterations > 0)
            => Len(d.key) = d.from.keyLen /\ IsInjective(d.key)

(***************************************************************************)
(* Each octet of a PBES2 key is the exclusive-or of exactly as many HMACs  *)
(* as there are iterations, the first of salt and block index and each of  *)
(* the others of the one before: RFC 8018's T_1 || T_2 || ... (PBKDF2).    *)
(***************************************************************************)
MatchesRFC8018 ==
    \A d \in Keys("PBKDF2") : Counted(d.from) => \A i \in 1..Len(d.key) :
        LET a  == d.from
            bl == (i - 1) \div HashLen + 1
            T  == {[key |-> a.password, msg |-> a.alg \o <<0>> \o a.p2s \o <<bl>>,
                    times |-> n] : n \in 1..a.iterations}
        IN  d.key[i] = <<T, ((i - 1) % HashLen) + 1>>

(***************************************************************************)
(* Every call returns, ConcatKDF's loop over the length it has produced    *)
(* included (h.Sum appends to out).                                        *)
(***************************************************************************)
DerivationReturns == ~Running("none") ~> Running("none")

-----------------------------------------------------------------------------
(* The inductive invariant behind VariantsSeparated, WholeKeys and         *)
(* MatchesRFC8018: what a key is made of, octet by octet.                  *)

\* The HMACs whose exclusive-or is block n of a PBKDF2 key, up to the last-th.
HMAC(a, n, k) == [key |-> a.password, times |-> k,
                  msg |-> pbes2SaltInput(a.alg, a.p2s) \o Uint32(n)]
HMACs(a, n, last) == {HMAC(a, n, k) : k \in 1..last}

\* The hash or exclusive-or of hashes that block n of the key of a call is.
blockHash(a) ==
    [n \in Nat |-> IF a.kdf = "PBKDF2" THEN HMACs(a, n, a.iterations)
                   ELSE {[key |-> <<>>, msg |-> blockInput(n, a), times |-> 1]}]

\* Octet m of a key is an octet of the block that m falls in.
OctetAt(key, hash, m) ==
    \E n \in 1..m, j \in 1..HashLen :
        m = (n - 1) * HashLen + j /\ key[m] = <<hash[n], j>>

\* key is n octets, each from the block it falls in.
Octetwise(key, hash, n) ==
    /\ key = [m \in 1..n |-> key[m]]
    /\ \A m \in 1..n : OctetAt(key, hash, m)

\* out is the octets of c blocks.
Blocked(out, hash, c) == Octetwise(out, hash, c * HashLen)

\* The arguments for which a call derives a key.
Derives(a) == a.keyLen > 0 /\ (a.kdf = "PBKDF2" => a.iterations > 0)

\* The locals of a ConcatKDF call after c blocks.
ConcatLocals(a) ==
    \E c \in Nat : call.i = (c + 1) % Word /\ Blocked(call.out, blockHash(a), c)

\* The locals of a PBKDF2 call: b - 1 blocks, and i HMACs of the next.
PBKDF2Locals(a) ==
    /\ call.b \in Nat \ {0} /\ Blocked(call.out, blockHash(a), call.b - 1)
    /\ call.u # <<>> =>
          /\ call.i \in 1..a.iterations
          /\ call.u = <<HMAC(a, call.b, call.i)>>
          /\ call.t = HMACs(a, call.b, call.i)

(***************************************************************************)
(* The loops write the blocks of a key one after the other, each made of   *)
(* its own number, and a call returns the first keyLen octets of these.    *)
(***************************************************************************)
KeyInv ==
    /\ DOMAIN call = DOMAIN Idle
    /\ ~Running("none") => call.args \in ConcatArgs \cup PBKDF2Args
    /\ Running("ConcatKDF") => ConcatLocals(call.args)
    /\ Running("PBKDF2") => PBKDF2Locals(call.args)
    /\ \A d \in derived :
          /\ d.from \in ConcatArgs \cup PBKDF2Args
          /\ ~Derives(d.from) => d.key = <<>>
          /\ Derives(d.from) => Octetwise(d.key, blockHash(d.from), d.from.keyLen)
=============================================================================

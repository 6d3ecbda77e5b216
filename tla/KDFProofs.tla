------------------------------ MODULE KDFProofs ------------------------------
(***************************************************************************)
(* Proofs about KDF: the input ConcatKDF hashes tells all of its arguments *)
(* apart, so keys of different contexts have nothing in common.            *)
(***************************************************************************)
EXTENDS KDF, SequenceTheorems, TLAPS

-----------------------------------------------------------------------------
(* Encodings.                                                              *)

LEMMA Uint32Type ==
    ASSUME NEW n \in Nat
    PROVE  Uint32(n) \in Octets /\ Len(Uint32(n)) = 1 /\ Uint32(n)[1] = n % Word
<1>1. n % Word \in 0..(Word - 1)
  BY KDFAssumption
<1> QED  BY <1>1 DEF Uint32, Octets

LEMMA OctetsJoin ==
    ASSUME NEW a \in Octets, NEW b \in Octets
    PROVE  a \o b \in Octets /\ Len(a \o b) = Len(a) + Len(b) /\ Len(a) \in Nat
  BY ConcatProperties, LenProperties DEF Octets

ThreeOctets(a, b, c) == a \in Octets /\ b \in Octets /\ c \in Octets

LEMMA OctetsAssociate ==
    ASSUME NEW a, NEW b, NEW c, ThreeOctets(a, b, c)
    PROVE  (a \o b) \o c = a \o (b \o c)
  BY ConcatAssociative DEF Octets, ThreeOctets

LEMMA ModOfLess ==
    ASSUME NEW n \in Nat \ {0}, NEW x \in Nat, x < n
    PROVE  x % n = x
<1> DEFINE q == x \div n
<1>1. q \in Int /\ x = n * q + (x % n) /\ x % n \in 0..(n - 1)
  BY SMT
<1> HIDE DEF q
<1>2. CASE q >= 1
  <2>1. n * q >= n
    BY <1>1, <1>2, SMT
  <2> QED  BY <2>1, <1>1
<1>3. CASE q <= -1
  <2>1. n * q <= -n
    BY <1>1, <1>3, SMT
  <2> QED  BY <2>1, <1>1
<1>4. CASE q = 0
  BY <1>1, <1>4
<1> QED  BY <1>1, <1>2, <1>3, <1>4

SamePair(a, b, r, s) == a = b /\ r = s

\* Joined octet strings come apart in one way: by the length of the first,
LEMMA SplitLeft ==
    ASSUME NEW a \in Octets, NEW x \in Octets, NEW b \in Octets, NEW y \in Octets,
           Len(a) = Len(b), a \o x = b \o y
    PROVE  SamePair(a, b, x, y)
<1> DEFINE S == 0..(Word - 1)
<1>1. /\ a \in Seq(S) /\ x \in Seq(S) /\ b \in Seq(S) /\ y \in Seq(S)
      /\ Len(a) \in Nat /\ Len(x) \in Nat /\ Len(y) \in Nat
  BY LenProperties DEF Octets
<1>2. ASSUME NEW i \in 1..Len(a) PROVE a[i] = (a \o x)[i] /\ b[i] = (b \o y)[i]
  BY <1>1, ConcatProperties
<1> HIDE DEF S
<1>3. a = b
  BY <1>1, <1>2, SeqEqual
<1> QED BY <1>1, <1>3, ConcatSimplifications DEF SamePair

\* and by the length of the last.
LEMMA SplitRight ==
    ASSUME NEW a \in Octets, NEW x \in Octets, NEW b \in Octets, NEW y \in Octets,
           Len(x) = Len(y), a \o x = b \o y
    PROVE  SamePair(a, b, x, y)
<1>1. Len(a) \in Nat /\ Len(b) \in Nat /\ Len(x) \in Nat
  BY LenProperties DEF Octets
<1>2. Len(a \o x) = Len(a) + Len(x) /\ Len(b \o y) = Len(b) + Len(y)
  BY ConcatProperties DEF Octets
<1>3. Len(a) = Len(b)
  BY <1>1, <1>2
<1> QED BY <1>3, SplitLeft

\* Four parts, joined from the left and read from the left; the last apart.
LEMMA SplitFour ==
    ASSUME NEW p \in Octets, NEW q \in Octets, NEW r \in Octets, NEW n \in Octets,
           NEW s \in Octets, NEW t \in Octets, NEW o \in Octets, NEW m \in Octets,
           Len(n) = Len(m), ((p \o q) \o r) \o n = ((s \o t) \o o) \o m
    PROVE  SamePair(p \o (q \o r), s \o (t \o o), n, m)
<1>1. (p \o q) \o r = p \o (q \o r)
  <2>1. ThreeOctets(p, q, r)
    BY DEF ThreeOctets
  <2> QED  BY <2>1, OctetsAssociate
<1>2. (s \o t) \o o = s \o (t \o o)
  <2>1. ThreeOctets(s, t, o)
    BY DEF ThreeOctets
  <2> QED  BY <2>1, OctetsAssociate
<1>3. q \o r \in Octets /\ t \o o \in Octets
  BY OctetsJoin
<1> DEFINE x == p \o (q \o r)
           y == s \o (t \o o)
<1>4. x \in Octets /\ y \in Octets
  BY <1>3, OctetsJoin
<1>5. x \o n = y \o m
  BY <1>1, <1>2
<1> HIDE DEF x, y
<1>6. SamePair(x, y, n, m)
  BY <1>4, <1>5, SplitRight
<1> QED  BY <1>6 DEF x, y

LEMMA LengthPrefixedType ==
    ASSUME NEW b \in Octets
    PROVE  lengthPrefixed(b) \in Octets
<1> DEFINE n == Uint32(Len(b))
<1>1. n \in Octets
  BY Uint32Type, LenProperties DEF Octets
<1>2. lengthPrefixed(b) = n \o b
  BY DEF lengthPrefixed
<1> HIDE DEF n
<1> QED  BY <1>1, <1>2, OctetsJoin

\* A length-prefixed string is told from what follows it (lengthPrefixed).
LEMMA PrefixSplits ==
    ASSUME NEW b \in Octets, NEW c \in Octets, NEW r \in Octets, NEW s \in Octets,
           Len(b) < Word, Len(c) < Word,
           lengthPrefixed(b) \o r = lengthPrefixed(c) \o s
    PROVE  SamePair(b, c, r, s)
<1> DEFINE n  == Uint32(Len(b))
           m  == Uint32(Len(c))
           br == b \o r
           cs == c \o s
<1>1. Len(b) \in Nat /\ Len(c) \in Nat
  BY LenProperties DEF Octets
<1>2. /\ n \in Octets /\ m \in Octets /\ Len(n) = Len(m)
      /\ n[1] = Len(b) % Word /\ m[1] = Len(c) % Word
  BY <1>1, Uint32Type
<1>3. br \in Octets /\ cs \in Octets
  BY OctetsJoin
<1>4. lengthPrefixed(b) = n \o b /\ lengthPrefixed(c) = m \o c
  BY DEF lengthPrefixed
<1> HIDE DEF n, m
<1>5. (n \o b) \o r = n \o br /\ (m \o c) \o s = m \o cs
  <2>1. ThreeOctets(n, b, r) /\ ThreeOctets(m, c, s)
    BY <1>2 DEF ThreeOctets
  <2>2. (n \o b) \o r = n \o (b \o r)
    BY <2>1, OctetsAssociate
  <2>3. (m \o c) \o s = m \o (c \o s)
    BY <2>1, OctetsAssociate
  <2> QED  BY <2>2, <2>3
<1>6. n \o br = m \o cs
  BY <1>4, <1>5
<1> HIDE DEF br, cs
<1>7. SamePair(n, m, br, cs)
  BY <1>2, <1>3, <1>6, SplitLeft
<1>8. Len(b) % Word = Len(c) % Word
  BY <1>2, <1>7 DEF SamePair
<1>9. Len(b) = Len(c)
  <2> DEFINE k == Len(b)
             l == Len(c)
  <2>1. k \in Nat /\ l \in Nat /\ k < Word /\ l < Word /\ k % Word = l % Word
    BY <1>1, <1>8
  <2> HIDE DEF k, l
  <2>2. Word \in Nat \ {0}
    BY KDFAssumption
  <2>4. k % Word = k
    BY <2>1, <2>2, ModOfLess, ZenonT(30)
  <2>5. l % Word = l
    BY <2>1, <2>2, ModOfLess
  <2>3. k = l
    BY <2>1, <2>4, <2>5
  <2> QED  BY <2>3 DEF k, l
<1>10. b \o r = c \o s
  BY <1>7 DEF SamePair, br, cs
<1> QED  BY <1>9, <1>10, SplitLeft

-----------------------------------------------------------------------------
(* OtherInfo and the input of a block.                                     *)

SameInfo(a, c, u, w, v, x, k, l) == a = c /\ u = w /\ v = x /\ k = l

LEMMA OtherInfoType ==
    ASSUME NEW a \in Octets, NEW u \in Octets, NEW v \in Octets, NEW k \in Nat
    PROVE  otherInfo(a, u, v, k) \in Octets
<1> DEFINE la == lengthPrefixed(a)
           lu == lengthPrefixed(u)
           lv == lengthPrefixed(v)
           n  == Uint32((k % Word) * 8)
<1>1. la \in Octets /\ lu \in Octets /\ lv \in Octets
  BY LengthPrefixedType
<1>2. (k % Word) * 8 \in Nat
  BY KDFAssumption
<1>3. n \in Octets
  BY <1>2, Uint32Type
<1>4. otherInfo(a, u, v, k) = ((la \o lu) \o lv) \o n
  BY DEF otherInfo
<1> HIDE DEF la, lu, lv, n
<1>5. la \o lu \in Octets
  BY <1>1, OctetsJoin
<1> DEFINE p == la \o lu
<1> HIDE DEF p
<1>6. p \o lv \in Octets
  BY <1>1, <1>5, OctetsJoin DEF p
<1> DEFINE q == p \o lv
<1> HIDE DEF q
<1>7. q \o n \in Octets
  BY <1>3, <1>6, OctetsJoin DEF q
<1> QED  BY <1>4, <1>7 DEF p, q

\* OtherInfo tells algorithm, party information and key length apart.
LEMMA OtherInfoInjective ==
    ASSUME NEW a \in Octets, NEW u \in Octets, NEW v \in Octets, NEW k \in Nat,
           NEW c \in Octets, NEW w \in Octets, NEW x \in Octets, NEW l \in Nat,
           Len(a) < Word, Len(u) < Word, Len(v) < Word,
           Len(c) < Word, Len(w) < Word, Len(x) < Word,
           k * 8 < Word, l * 8 < Word,
           otherInfo(a, u, v, k) = otherInfo(c, w, x, l)
    PROVE  SameInfo(a, c, u, w, v, x, k, l)
<1> DEFINE la == lengthPrefixed(a)
           lu == lengthPrefixed(u)
           lv == lengthPrefixed(v)
           lc == lengthPrefixed(c)
           lw == lengthPrefixed(w)
           lx == lengthPrefixed(x)
           n  == Uint32((k % Word) * 8)
           m  == Uint32((l % Word) * 8)
<1>1. /\ la \in Octets /\ lu \in Octets /\ lv \in Octets
      /\ lc \in Octets /\ lw \in Octets /\ lx \in Octets
  BY LengthPrefixedType
<1>2. k % Word = k /\ l % Word = l /\ (k * 8) % Word = k * 8 /\ (l * 8) % Word = l * 8
  BY KDFAssumption
<1>3. /\ n \in Octets /\ m \in Octets /\ Len(n) = 1 /\ Len(m) = 1
      /\ n[1] = k * 8 /\ m[1] = l * 8
  BY <1>2, Uint32Type
<1>4. ((la \o lu) \o lv) \o n = ((lc \o lw) \o lx) \o m
  BY DEF otherInfo
<1> HIDE DEF la, lu, lv, lc, lw, lx, n, m
<1>5. Len(n) = Len(m)
  BY <1>3
<1>6. SamePair(la \o (lu \o lv), lc \o (lw \o lx), n, m)
  BY <1>1, <1>3, <1>4, <1>5, SplitFour
<1> DEFINE uv == lu \o lv
           wx == lw \o lx
<1>7. uv \in Octets /\ wx \in Octets
  BY <1>1, OctetsJoin
<1>8. la \o uv = lc \o wx /\ n = m
  BY <1>6 DEF SamePair
<1> HIDE DEF uv, wx
<1>11. k = l
  BY <1>3, <1>8
<1>12. lengthPrefixed(a) \o uv = lengthPrefixed(c) \o wx
  BY <1>8 DEF la, lc
<1>13. SamePair(a, c, uv, wx)
  BY <1>7, <1>12, PrefixSplits
<1>14. lengthPrefixed(u) \o lv = lengthPrefixed(w) \o lx
  BY <1>13 DEF SamePair, uv, wx, lu, lw
<1>15. SamePair(u, w, lv, lx)
  BY <1>1, <1>14, PrefixSplits
<1>16. v = x
  <2> DEFINE e == <<>>
  <2>1. e \in Octets
    BY DEF Octets
  <2>2. lengthPrefixed(v) \o e = lengthPrefixed(x) \o e
    BY <1>15 DEF SamePair, lv, lx
  <2> HIDE DEF e
  <2>3. SamePair(v, x, e, e)
    BY <2>1, <2>2, PrefixSplits
  <2> QED  BY <2>3 DEF SamePair
<1> QED  BY <1>11, <1>13, <1>15, <1>16 DEF SamePair, SameInfo
LEMMA InputSplits ==
    ASSUME NEW n \in Octets, NEW m \in Octets, NEW z \in Octets, NEW y \in Octets,
           NEW e \in Octets, NEW f \in Octets,
           Len(n) = 1, Len(m) = 1, Len(z) = Len(y), (n \o z) \o e = (m \o y) \o f
    PROVE  SamePair(z, y, e, f)
<1> DEFINE p == n \o z
           q == m \o y
<1>1. p \in Octets /\ q \in Octets /\ Len(p) = Len(q)
  <2>1. p \in Octets /\ Len(p) = Len(n) + Len(z)
    BY OctetsJoin
  <2>2. q \in Octets /\ Len(q) = Len(m) + Len(y)
    BY OctetsJoin
  <2> QED  BY <2>1, <2>2
<1>2. p \o e = q \o f
  OBVIOUS
<1> HIDE DEF p, q
<1>3. SamePair(p, q, e, f)
  BY <1>1, <1>2, SplitLeft
<1>4. n \o z = m \o y
  BY <1>3 DEF SamePair, p, q
<1>5. SamePair(n, m, z, y)
  BY <1>4, SplitLeft
<1> QED  BY <1>3, <1>5 DEF SamePair

LEMMA ArgsType ==
    ASSUME NEW a \in ConcatArgs
    PROVE  /\ a.z \in Octets /\ a.algID \in Octets /\ a.apu \in Octets /\ a.apv \in Octets
           /\ Len(a.algID) < Word /\ Len(a.apu) < Word /\ Len(a.apv) < Word
           /\ a.keyLen \in Int
  BY KDFAssumption DEF ConcatArgs

\* The input of a block tells all arguments of its call (ConcatKDF).
LEMMA BlockInputInjective ==
    ASSUME NEW a \in ConcatArgs, NEW c \in ConcatArgs,
           NEW i \in 0..(Word - 1), NEW j \in 0..(Word - 1),
           a.keyLen > 0, c.keyLen > 0, a.keyLen * 8 < Word, c.keyLen * 8 < Word,
           blockInput(i, a) = blockInput(j, c)
    PROVE  a = c
<1> DEFINE n == Uint32(i)
           m == Uint32(j)
           z == a.z
           y == c.z
           e == otherInfo(a.algID, a.apu, a.apv, a.keyLen)
           f == otherInfo(c.algID, c.apu, c.apv, c.keyLen)
<1>1. n \in Octets /\ m \in Octets /\ Len(n) = 1 /\ Len(m) = 1
  BY Uint32Type, KDFAssumption
<1>2. z \in Octets /\ y \in Octets /\ Len(z) = Len(y)
  BY ArgsType, KDFAssumption DEF ConcatArgs
<1>3. a.keyLen \in Nat /\ c.keyLen \in Nat
  BY ArgsType
<1>4. e \in Octets
  BY <1>3, ArgsType, OtherInfoType
<1>5. f \in Octets
  BY <1>3, ArgsType, OtherInfoType
<1>6. (n \o z) \o e = (m \o y) \o f
  BY DEF blockInput
<1> HIDE DEF n, m, z, y, e, f
<1>7. SamePair(z, y, e, f)
  BY <1>1, <1>2, <1>4, <1>5, <1>6, InputSplits
<1>8. SameInfo(a.algID, c.algID, a.apu, c.apu, a.apv, c.apv, a.keyLen, c.keyLen)
  <2> DEFINE a1 == a.algID
             u1 == a.apu
             v1 == a.apv
             k1 == a.keyLen
             a2 == c.algID
             u2 == c.apu
             v2 == c.apv
             k2 == c.keyLen
  <2>1. /\ a1 \in Octets /\ u1 \in Octets /\ v1 \in Octets /\ k1 \in Nat
        /\ Len(a1) < Word /\ Len(u1) < Word /\ Len(v1) < Word /\ k1 * 8 < Word
    BY <1>3, ArgsType
  <2>2. /\ a2 \in Octets /\ u2 \in Octets /\ v2 \in Octets /\ k2 \in Nat
        /\ Len(a2) < Word /\ Len(u2) < Word /\ Len(v2) < Word /\ k2 * 8 < Word
    BY <1>3, ArgsType
  <2>3. otherInfo(a1, u1, v1, k1) = otherInfo(a2, u2, v2, k2)
    BY <1>7 DEF SamePair, e, f
  <2> HIDE DEF a1, u1, v1, k1, a2, u2, v2, k2
  <2>4. SameInfo(a1, a2, u1, u2, v1, v2, k1, k2)
    BY <2>1, <2>2, <2>3, OtherInfoInjective
  <2> QED  BY <2>4 DEF a1, u1, v1, k1, a2, u2, v2, k2
<1>9. a.z = c.z
  BY <1>7 DEF SamePair, z, y
<1> QED  BY <1>8, <1>9 DEF SameInfo, ConcatArgs

-----------------------------------------------------------------------------

\* The octets of the hashes ConcatKDF computes for a call.
BlockOctets(a) ==
    {Sum(blockInput(i, a))[j] : i \in 0..(Word - 1), j \in 1..HashLen}

(***************************************************************************)
(* A ConcatKDF key, finished or not, holds octets of its own blocks only,  *)
(* and a call without a positive length derives none (ConcatKDF).          *)
(***************************************************************************)
ConcatIInv ==
    /\ DOMAIN call = {"args", "i", "out", "u", "t", "b"}
    /\ Running("ConcatKDF") =>
          /\ call.args \in ConcatArgs /\ call.i \in 0..(Word - 1)
          /\ call.out \in Seq(BlockOctets(call.args))
    /\ \A d \in Keys("ConcatKDF") :
          /\ d.from \in ConcatArgs
          /\ d.key \in Seq(BlockOctets(d.from))
          /\ d.key # <<>> => d.from.keyLen > 0

LEMMA SumType ==
    ASSUME NEW a, NEW i \in 0..(Word - 1)
    PROVE  Sum(blockInput(i, a)) \in Seq(BlockOctets(a))
<1> DEFINE s == Sum(blockInput(i, a))
<1>1. s = [j \in 1..HashLen |-> s[j]]
  BY DEF Sum, OctetsOf
<1>2. \A j \in 1..HashLen : s[j] \in BlockOctets(a)
  BY DEF BlockOctets
<1> HIDE DEF s
<1>3. [j \in 1..HashLen |-> s[j]] \in Seq(BlockOctets(a))
  BY <1>2, KDFAssumption
<1> QED  BY <1>1, <1>3 DEF s

LEMMA KeysGrow ==
    ASSUME NEW key, derived' = derived \cup {[from |-> call.args, key |-> key]},
           NEW d \in Keys("ConcatKDF")'
    PROVE  \/ d \in Keys("ConcatKDF")
           \/ d.from = call.args /\ d.key = key /\ Running("ConcatKDF")
  BY DEF Keys, Running

LEMMA KeysStay ==
    ASSUME derived' = derived
    PROVE  Keys("ConcatKDF")' = Keys("ConcatKDF")
  BY DEF Keys

\* A step that returns from a call of the other function.
LEMMA OtherReturn ==
    ASSUME ConcatIInv, NEW key, Return(key), Running("PBKDF2")
    PROVE  ConcatIInv'
<1>1. derived' = derived \cup {[from |-> call.args, key |-> key]} /\ call' = Idle
  BY DEF Return
<1>2. /\ ~Running("ConcatKDF") /\ ~Running("ConcatKDF")'
      /\ DOMAIN call' = {"args", "i", "out", "u", "t", "b"}
  BY <1>1 DEF Running, Idle, NoArgs
<1>3. \A d \in Keys("ConcatKDF")' : d \in Keys("ConcatKDF")
  BY <1>1, <1>2, KeysGrow
<1> QED  BY <1>2, <1>3 DEF ConcatIInv

LEMMA InitConcatIInv == Init => ConcatIInv
  BY DEF Init, ConcatIInv, Running, Idle, NoArgs, Keys

LEMMA CallConcatIInv == ASSUME ConcatIInv, CallConcatKDF PROVE ConcatIInv'
<1>1. PICK a \in ConcatArgs : call' = Called(a)
  BY DEF CallConcatKDF
<1>2. derived' = derived
  BY DEF CallConcatKDF
<1>3. /\ call'.args = a /\ call'.i = 1 /\ call'.out = <<>>
      /\ DOMAIN call' = {"args", "i", "out", "u", "t", "b"}
  BY <1>1 DEF Called, Idle
<1>4. 1 \in 0..(Word - 1) /\ <<>> \in Seq(BlockOctets(a))
  BY KDFAssumption
<1>5. Keys("ConcatKDF")' = Keys("ConcatKDF")
  BY <1>2, KeysStay
<1> QED  BY <1>3, <1>4, <1>5 DEF ConcatIInv

LEMMA ConcatBlockIInv == ASSUME ConcatIInv, ConcatBlock PROVE ConcatIInv'
<1> DEFINE a == call.args
<1>1. /\ Running("ConcatKDF")
      /\ call' = [call EXCEPT !.i = (@ + 1) % Word,
                              !.out = appendSum(@, blockInput(call.i, a))]
      /\ derived' = derived
  BY DEF ConcatBlock
<1>2. a \in ConcatArgs /\ call.i \in 0..(Word - 1) /\ call.out \in Seq(BlockOctets(a))
  BY <1>1 DEF ConcatIInv
<1>3. /\ DOMAIN call = {"args", "i", "out", "u", "t", "b"}
      /\ DOMAIN call' = {"args", "i", "out", "u", "t", "b"}
      /\ call'.args = a /\ call'.i = (call.i + 1) % Word
      /\ call'.out = appendSum(call.out, blockInput(call.i, a))
  BY <1>1 DEF ConcatIInv
<1>4. (call.i + 1) % Word \in 0..(Word - 1)
  BY <1>2, KDFAssumption
<1>5. Sum(blockInput(call.i, a)) \in Seq(BlockOctets(a))
  BY <1>2, SumType
<1>6. appendSum(call.out, blockInput(call.i, a)) \in Seq(BlockOctets(a))
  <2> DEFINE S == BlockOctets(a)
             x == call.out
             y == Sum(blockInput(call.i, a))
  <2>1. x \in Seq(S) /\ y \in Seq(S)
    BY <1>2, <1>5
  <2>2. appendSum(call.out, blockInput(call.i, a)) = x \o y
    BY DEF appendSum
  <2> HIDE DEF S, x, y
  <2>3. x \o y \in Seq(S)
    BY <2>1, ConcatProperties
  <2> QED  BY <2>2, <2>3 DEF S
<1> HIDE DEF a
<1>7. Keys("ConcatKDF")' = Keys("ConcatKDF")
  BY <1>1, KeysStay
<1> QED  BY <1>2, <1>3, <1>4, <1>6, <1>7 DEF ConcatIInv

LEMMA ConcatReturnIInv == ASSUME ConcatIInv, ConcatReturn PROVE ConcatIInv'
<1> DEFINE a == call.args
<1>1. Running("ConcatKDF") /\ a \in ConcatArgs /\ call.out \in Seq(BlockOctets(a))
  BY DEF ConcatReturn, ConcatIInv
<1>2. a.keyLen \in Int
  BY <1>1, ArgsType
<1>3. PICK key : /\ Return(key) /\ key \in Seq(BlockOctets(a))
                 /\ key # <<>> => a.keyLen > 0
  <2>1. CASE a.keyLen <= 0 /\ Return(<<>>)
    <3>1. <<>> \in Seq(BlockOctets(a))
      OBVIOUS
    <3> QED  BY <2>1, <3>1
  <2>2. CASE /\ a.keyLen > 0 /\ Len(call.out) >= a.keyLen
             /\ Return(SubSeq(call.out, 1, a.keyLen))
    <3> DEFINE S == BlockOctets(a)
               x == call.out
               n == a.keyLen
    <3>1. x \in Seq(S) /\ n \in Nat /\ n > 0 /\ Len(x) >= n
      BY <1>1, <1>2, <2>2
    <3> HIDE DEF S, x, n
    <3>2. \A j \in 1..n : x[j] \in S
      BY <3>1, LenProperties, ElementOfSeq
    <3>3. SubSeq(x, 1, n) \in Seq(S)
      BY <3>1, <3>2, SubSeqProperties
    <3> QED  BY <2>2, <3>3 DEF S, x, n
  <2> QED  BY <2>1, <2>2 DEF ConcatReturn
<1>4. derived' = derived \cup {[from |-> call.args, key |-> key]} /\ call' = Idle
  BY <1>3 DEF Return
<1>5. ~Running("ConcatKDF")' /\ DOMAIN call' = {"args", "i", "out", "u", "t", "b"}
  BY <1>4 DEF Running, Idle, NoArgs
<1>6. ASSUME NEW d \in Keys("ConcatKDF")'
      PROVE  /\ d.from \in ConcatArgs
             /\ d.key \in Seq(BlockOctets(d.from))
             /\ d.key # <<>> => d.from.keyLen > 0
  <2>1. CASE d \in Keys("ConcatKDF")
    BY <2>1 DEF ConcatIInv
  <2>2. CASE d.from = call.args /\ d.key = key
    BY <2>2, <1>1, <1>3
  <2> QED  BY <1>4, <2>1, <2>2, KeysGrow
<1> QED  BY <1>5, <1>6 DEF ConcatIInv

LEMMA PBKDF2StepIInv ==
    ASSUME ConcatIInv, CallPBKDF2 \/ StartBlock \/ Iterate \/ EndBlock
    PROVE  ConcatIInv'
<1>1. derived' = derived
  BY DEF CallPBKDF2, StartBlock, Iterate, EndBlock
<1>2. /\ DOMAIN call' = {"args", "i", "out", "u", "t", "b"}
      /\ ~Running("ConcatKDF")'
  <2>1. CASE CallPBKDF2
    <3>1. PICK a \in PBKDF2Args : call' = Called(a)
      BY <2>1 DEF CallPBKDF2
    <3>2. call'.args = a /\ DOMAIN call' = {"args", "i", "out", "u", "t", "b"}
      BY <3>1 DEF Called, Idle
    <3>3. a.kdf = "PBKDF2"
      BY DEF PBKDF2Args
    <3> QED  BY <3>2, <3>3 DEF Running
  <2>2. CASE StartBlock \/ Iterate \/ EndBlock
    <3>1. call.args.kdf = "PBKDF2" /\ DOMAIN call = {"args", "i", "out", "u", "t", "b"}
      BY <2>2 DEF StartBlock, Iterate, EndBlock, Running, ConcatIInv
    <3>2. call'.args = call.args /\ DOMAIN call' = DOMAIN call
      BY <2>2, <3>1 DEF StartBlock, Iterate, EndBlock
    <3> QED  BY <3>1, <3>2 DEF Running
  <2> QED  BY <2>1, <2>2
<1>3. Keys("ConcatKDF")' = Keys("ConcatKDF")
  BY <1>1, KeysStay
<1> QED  BY <1>2, <1>3 DEF ConcatIInv

LEMMA PBKDF2ReturnIInv == ASSUME ConcatIInv, PBKDF2Return PROVE ConcatIInv'
<1>1. Running("PBKDF2") /\ \E key : Return(key)
  BY DEF PBKDF2Return
<1> QED  BY <1>1, OtherReturn

LEMMA StutterConcatIInv == ASSUME ConcatIInv, UNCHANGED vars PROVE ConcatIInv'
  BY DEF ConcatIInv, Running, Keys, vars

(***************************************************************************)
(* A key of ConcatKDF holds octets of the blocks of its own call only.     *)
(***************************************************************************)
THEOREM ConcatInvariant == Spec => []ConcatIInv
<1>1. Init => ConcatIInv
  BY InitConcatIInv
<1>2. ConcatIInv /\ [Next]_vars => ConcatIInv'
  BY CallConcatIInv, ConcatBlockIInv, ConcatReturnIInv, PBKDF2StepIInv, PBKDF2ReturnIInv,
     StutterConcatIInv DEF Next
<1> QED  BY <1>1, <1>2, PTL DEF Spec

(***************************************************************************)
(* Keys of different contexts share no octet, for all shared secrets of    *)
(* one length and all algorithm names, party information and key lengths   *)
(* that 32 bits can hold (ConcatKDF, lengthPrefixed).                      *)
(***************************************************************************)
THEOREM ContextsInvariant == Spec => []ContextsSeparated
<1>1. ConcatIInv => ContextsSeparated
  <2> SUFFICES ASSUME ConcatIInv,
                      NEW d \in Keys("ConcatKDF"), NEW e \in Keys("ConcatKDF"),
                      d.from.keyLen * 8 < Word, e.from.keyLen * 8 < Word,
                      NEW o, o \in Range(d.key), o \in Range(e.key)
               PROVE  d.from = e.from
    BY DEF ContextsSeparated
  <2> DEFINE a == d.from
             c == e.from
             S == BlockOctets(a)
             T == BlockOctets(c)
             k == d.key
             l == e.key
  <2>1. /\ a \in ConcatArgs /\ c \in ConcatArgs
        /\ k \in Seq(S) /\ l \in Seq(T)
        /\ k # <<>> => a.keyLen > 0
        /\ l # <<>> => c.keyLen > 0
    BY DEF ConcatIInv
  <2>2. o \in Range(k) /\ o \in Range(l)
    OBVIOUS
  <2>3. a.keyLen * 8 < Word /\ c.keyLen * 8 < Word
    OBVIOUS
  <2> HIDE DEF a, c, S, T, k, l
  <2>4. k # <<>> /\ o \in S
    BY <2>1, <2>2, LenProperties, ElementOfSeq DEF Range
  <2>5. l # <<>> /\ o \in T
    BY <2>1, <2>2, LenProperties, ElementOfSeq DEF Range
  <2>6. PICK i \in 0..(Word - 1), m \in 1..HashLen : o = Sum(blockInput(i, a))[m]
    BY <2>4 DEF S, BlockOctets
  <2>7. PICK j \in 0..(Word - 1), n \in 1..HashLen : o = Sum(blockInput(j, c))[n]
    BY <2>5 DEF T, BlockOctets
  <2>8. blockInput(i, a) = blockInput(j, c)
    <3> DEFINE x == blockInput(i, a)
               y == blockInput(j, c)
    <3>1. Sum(x)[m] = <<{[key |-> <<>>, msg |-> x, times |-> 1]}, m>>
      BY DEF Sum, OctetsOf
    <3>2. Sum(y)[n] = <<{[key |-> <<>>, msg |-> y, times |-> 1]}, n>>
      BY DEF Sum, OctetsOf
    <3>3. o = Sum(x)[m] /\ o = Sum(y)[n]
      BY <2>6, <2>7
    <3> HIDE DEF x, y
    <3>4. {[key |-> <<>>, msg |-> x, times |-> 1]} = {[key |-> <<>>, msg |-> y, times |-> 1]}
      BY <3>1, <3>2, <3>3
    <3>5. [key |-> <<>>, msg |-> x, times |-> 1] = [key |-> <<>>, msg |-> y, times |-> 1]
      BY <3>4
    <3>6. x = y
      BY <3>5
    <3> QED  BY <3>6 DEF x, y
  <2>9. a = c
    BY <2>1, <2>3, <2>4, <2>5, <2>8, BlockInputInjective
  <2> QED  BY <2>9 DEF a, c
<1> QED  BY <1>1, ConcatInvariant, PTL

-----------------------------------------------------------------------------
(* Blocks and their octets.                                                *)

\* The place of an octet tells its block and its place in that.
LEMMA PlaceUnique ==
    ASSUME NEW n \in Nat \ {0}, NEW p \in Int, NEW q \in Int, NEW j \in 1..n, NEW k \in 1..n,
           (p - 1) * n + j = (q - 1) * n + k
    PROVE  p = q /\ j = k
<1> DEFINE x == p - 1
           y == q - 1
<1>1. x \in Int /\ y \in Int /\ x * n + j = y * n + k
  OBVIOUS
<1>2. p = x + 1 /\ q = y + 1
  OBVIOUS
<1> HIDE DEF x, y
<1>3. CASE x >= y + 1
  <2>1. x * n >= (y + 1) * n
    BY <1>1, <1>3, SMT
  <2>2. (y + 1) * n = y * n + n
    BY <1>1, SMT
  <2>3. x * n \in Int /\ y * n \in Int
    BY <1>1
  <2> QED  BY <1>1, <2>1, <2>2, <2>3
<1>4. CASE y >= x + 1
  <2>1. y * n >= (x + 1) * n
    BY <1>1, <1>4, SMT
  <2>2. (x + 1) * n = x * n + n
    BY <1>1, SMT
  <2>3. x * n \in Int /\ y * n \in Int
    BY <1>1
  <2> QED  BY <1>1, <2>1, <2>2, <2>3
<1>5. x = y
  BY <1>1, <1>3, <1>4
<1>6. j = k
  <2>1. x * n \in Int
    BY <1>1
  <2> QED  BY <1>1, <1>5, <2>1
<1> QED  BY <1>2, <1>5, <1>6

\* The place of an octet, by division.
LEMMA PlaceDivides ==
    ASSUME NEW n \in Nat \ {0}, NEW p \in Nat \ {0}, NEW j \in 1..n, NEW m \in Nat \ {0},
           m = (p - 1) * n + j
    PROVE  (m - 1) \div n + 1 = p /\ ((m - 1) % n) + 1 = j
<1> DEFINE x == m - 1
           q == x \div n
           r == x % n
<1>1. x \in Nat
  OBVIOUS
<1>2. q \in Int /\ x = n * q + r /\ r \in 0..(n - 1)
  <2> HIDE DEF x
  <2> QED  BY <1>1, SMT
<1> HIDE DEF q, r
<1>3. q + 1 \in Int /\ r + 1 \in 1..n
  BY <1>2
<1>4. (p - 1) * n + j = ((q + 1) - 1) * n + (r + 1)
  <2>1. m = n * q + r + 1
    BY <1>2
  <2>2. ((q + 1) - 1) * n = n * q
    BY <1>2, SMT
  <2>3. n * q \in Int
    BY <1>2
  <2> QED  BY <1>2, <2>1, <2>2, <2>3
<1>5. p = q + 1 /\ j = r + 1
  BY <1>3, <1>4, PlaceUnique
<1> QED  BY <1>5 DEF q, r

\* As many blocks as PBKDF2 computes are enough.
LEMMA BlocksCover ==
    ASSUME NEW k \in Nat \ {0}, NEW c \in Int, c >= blocks(k)
    PROVE  c \in Nat /\ k <= c * HashLen
<1> DEFINE x == k + HashLen - 1
           q == x \div HashLen
           r == x % HashLen
<1>1. x \in Nat /\ HashLen \in Nat \ {0}
  BY KDFAssumption
<1>2. q \in Int /\ x = HashLen * q + r /\ r \in 0..(HashLen - 1)
  <2> HIDE DEF x
  <2> QED  BY <1>1, SMT
<1>3. c >= q
  BY DEF blocks
<1> HIDE DEF q, r
<1>4. HashLen * q \in Int /\ HashLen * q >= k
  BY <1>1, <1>2
<1>5. q >= 0
  <2>1. ASSUME q <= -1 PROVE FALSE
    <3>1. HashLen * q <= 0
      BY <1>1, <1>2, <2>1, SMT
    <3> QED  BY <1>4, <3>1
  <2> QED  BY <1>2, <2>1
<1>6. c * HashLen >= q * HashLen
  BY <1>1, <1>2, <1>3, <1>5, SMT
<1>7. q * HashLen = HashLen * q /\ c * HashLen \in Int
  BY <1>1, <1>2, SMT
<1> QED  BY <1>2, <1>3, <1>4, <1>5, <1>6, <1>7

\* A sequence given place by place.
LEMMA SeqOfPlaces ==
    ASSUME NEW n \in Nat, NEW s, s = [m \in 1..n |-> s[m]]
    PROVE  s \in Seq({s[m] : m \in 1..n}) /\ Len(s) = n
<1> DEFINE S == {s[m] : m \in 1..n}
<1>1. \A m \in 1..n : s[m] \in S
  OBVIOUS
<1> HIDE DEF S
<1>2. [m \in 1..n |-> s[m]] \in Seq(S) /\ Len([m \in 1..n |-> s[m]]) = n
  BY <1>1
<1> QED  BY <1>2 DEF S

\* u is s followed by t, place by place.
Joined(u, s, n, t, k) ==
    /\ u = [m \in 1..(n + k) |-> u[m]]
    /\ \A m \in 1..n : u[m] = s[m]
    /\ \A m \in 1..k : u[n + m] = t[m]

\* A sequence joined to another, place by place.
LEMMA JoinPlaces ==
    ASSUME NEW n \in Nat, NEW s, s = [m \in 1..n |-> s[m]],
           NEW k \in Nat, NEW t, t = [m \in 1..k |-> t[m]]
    PROVE  Joined(s \o t, s, n, t, k)
<1> DEFINE S == {s[m] : m \in 1..n} \cup {t[m] : m \in 1..k}
<1>1. s \in Seq({s[m] : m \in 1..n}) /\ Len(s) = n
  BY SeqOfPlaces
<1>2. t \in Seq({t[m] : m \in 1..k}) /\ Len(t) = k
  BY SeqOfPlaces
<1>3. s \in Seq(S) /\ t \in Seq(S)
  BY <1>1, <1>2
<1> HIDE DEF S
<1> DEFINE u == s \o t
<1>4. /\ u \in Seq(S) /\ Len(u) = n + k
      /\ \A m \in 1..(n + k) : u[m] = IF m <= n THEN s[m] ELSE t[m - n]
  BY <1>1, <1>2, <1>3, ConcatProperties
<1> HIDE DEF u
<1>5. u = [m \in 1..(n + k) |-> u[m]]
  BY <1>4
<1>6. \A m \in 1..n : u[m] = s[m]
  <2> TAKE m \in 1..n
  <2>1. m \in 1..(n + k) /\ m <= n
    OBVIOUS
  <2> QED  BY <1>4, <2>1
<1>7. \A m \in 1..k : u[n + m] = t[m]
  <2> TAKE m \in 1..k
  <2>1. n + m \in 1..(n + k) /\ ~(n + m <= n) /\ (n + m) - n = m
    OBVIOUS
  <2> QED  BY <1>4, <2>1
<1> QED  BY <1>5, <1>6, <1>7 DEF u, Joined

\* Before the first block there are no octets.
LEMMA NoBlocks == ASSUME NEW hash PROVE Blocked(<<>>, hash, 0)
<1>1. 0 * HashLen = 0
  BY KDFAssumption, SMT
<1>2. <<>> = [m \in 1..0 |-> <<>>[m]]
  OBVIOUS
<1> QED  BY <1>1, <1>2 DEF Blocked, Octetwise

\* The next block goes behind those before it (h.Sum, and append in PBKDF2).
LEMMA NextBlock ==
    ASSUME NEW out, NEW hash, NEW c \in Nat, Blocked(out, hash, c)
    PROVE  Blocked(out \o OctetsOf(hash[c + 1]), hash, c + 1)
<1> DEFINE n == c * HashLen
           t == OctetsOf(hash[c + 1])
           u == out \o t
<1>1. HashLen \in Nat \ {0} /\ n \in Nat /\ (c + 1) * HashLen = n + HashLen
  <2>1. HashLen \in Nat \ {0}
    BY KDFAssumption
  <2> QED  BY <2>1, SMT
<1>2. out = [m \in 1..n |-> out[m]] /\ \A m \in 1..n : OctetAt(out, hash, m)
  BY DEF Blocked, Octetwise
<1>3. t = [m \in 1..HashLen |-> t[m]] /\ \A m \in 1..HashLen : t[m] = <<hash[c + 1], m>>
  BY DEF OctetsOf
<1> HIDE DEF n, t
<1>4. /\ u = [m \in 1..(n + HashLen) |-> u[m]]
      /\ \A m \in 1..n : u[m] = out[m]
      /\ \A m \in 1..HashLen : u[n + m] = t[m]
  <2>1. n \in Nat /\ HashLen \in Nat
    BY <1>1
  <2>2. out = [m \in 1..n |-> out[m]]
    BY <1>2
  <2>3. t = [m \in 1..HashLen |-> t[m]]
    BY <1>3
  <2>4. Joined(out \o t, out, n, t, HashLen)
    BY <2>1, <2>2, <2>3, JoinPlaces
  <2> QED  BY <2>4 DEF Joined, u
<1> HIDE DEF u
<1>5. ASSUME NEW m \in 1..(n + HashLen) PROVE OctetAt(u, hash, m)
  <2>1. CASE m \in 1..n
    <3>1. u[m] = out[m] /\ OctetAt(out, hash, m)
      BY <1>2, <1>4, <2>1
    <3> QED  BY <3>1 DEF OctetAt
  <2>2. CASE m \notin 1..n
    <3> DEFINE j == m - n
    <3>1. j \in 1..HashLen /\ m = n + j
      BY <1>1, <2>2
    <3>2. u[m] = <<hash[c + 1], j>>
      BY <1>3, <1>4, <3>1
    <3>3. m = ((c + 1) - 1) * HashLen + j
      BY <3>1 DEF n
    <3>4. c + 1 \in 1..m
      <4>1. n >= c
        BY <1>1, SMT DEF n
      <4> QED  BY <1>1, <3>1, <4>1
    <3> HIDE DEF j
    <3> QED  BY <3>1, <3>2, <3>3, <3>4 DEF OctetAt
  <2> QED  BY <2>1, <2>2
<1> QED  BY <1>1, <1>4, <1>5 DEF Blocked, Octetwise, u, t

\* The first octets of whole blocks are a key.
LEMMA FirstOctets ==
    ASSUME NEW out, NEW hash, NEW c \in Nat, Blocked(out, hash, c),
           NEW k \in Nat, k <= c * HashLen
    PROVE  Octetwise(SubSeq(out, 1, k), hash, k)
<1> DEFINE n == c * HashLen
           S == {out[m] : m \in 1..n}
           key == SubSeq(out, 1, k)
<1>1. n \in Nat
  BY KDFAssumption, SMT
<1>2. out = [m \in 1..n |-> out[m]] /\ \A m \in 1..n : OctetAt(out, hash, m)
  BY DEF Blocked, Octetwise
<1>3. k <= n
  OBVIOUS
<1> HIDE DEF n
<1>4. out \in Seq(S) /\ Len(out) = n
  BY <1>1, <1>2, SeqOfPlaces
<1> HIDE DEF S
<1>5. key = [m \in 1..k |-> out[m]]
  BY <1>1, <1>3, <1>4
<1> HIDE DEF key
<1>6. key = [m \in 1..k |-> key[m]] /\ \A m \in 1..k : key[m] = out[m]
  BY <1>5
<1>7. ASSUME NEW m \in 1..k PROVE OctetAt(key, hash, m)
  <2>1. m \in 1..n
    BY <1>1, <1>3
  <2>2. OctetAt(out, hash, m) /\ key[m] = out[m]
    BY <1>2, <1>6, <2>1
  <2> QED  BY <2>2 DEF OctetAt
<1> QED  BY <1>6, <1>7 DEF Octetwise, key

-----------------------------------------------------------------------------
(* Counters modulo Word, and what a block is made of.                      *)

\* A remainder is the only one.
LEMMA RemainderUnique ==
    ASSUME NEW n \in Nat \ {0}, NEW q \in Nat, NEW r \in 0..(n - 1)
    PROVE  (n * q + r) % n = r
<1> DEFINE p == q + 1
           j == r + 1
           m == n * q + r + 1
<1>1. n * q \in Nat /\ (p - 1) * n = n * q
  BY SMT
<1>2. p \in Nat \ {0} /\ j \in 1..n /\ m \in Nat \ {0}
  BY <1>1
<1>3. m = (p - 1) * n + j
  BY <1>1
<1>4. m - 1 = n * q + r /\ j - 1 = r
  BY <1>1
<1> HIDE DEF p, j, m
<1>5. ((m - 1) % n) + 1 = j
  BY <1>2, <1>3, PlaceDivides
<1>6. (m - 1) % n \in Int
  BY <1>2
<1> QED  BY <1>4, <1>5, <1>6

\* The 32-bit counter counts modulo Word.
LEMMA CounterWraps ==
    ASSUME NEW x \in Nat
    PROVE  /\ x % Word \in 0..(Word - 1)
           /\ (x % Word) % Word = x % Word
           /\ ((x % Word) + 1) % Word = (x + 1) % Word
<1> DEFINE q == x \div Word
           r == x % Word
<1>1. Word \in Nat \ {0} /\ Word > 8
  BY KDFAssumption
<1>2. q \in Int /\ x = Word * q + r /\ r \in 0..(Word - 1)
  BY <1>1, SMT
<1> HIDE DEF q, r
<1>3. q \in Nat
  <2>1. ASSUME q <= -1 PROVE FALSE
    <3>1. Word * q <= -Word
      BY <1>1, <1>2, <2>1, SMT
    <3> QED  BY <1>1, <1>2, <3>1
  <2> QED  BY <1>2, <2>1
<1>4. r % Word = r
  BY <1>1, <1>2, ModOfLess
<1>5. (r + 1) % Word = (x + 1) % Word
  <2>1. CASE r + 1 < Word
    <3>1. (r + 1) % Word = r + 1
      BY <1>1, <1>2, <2>1, ModOfLess
    <3>2. r + 1 \in 0..(Word - 1)
      BY <1>1, <1>2, <2>1
    <3>3. (Word * q + (r + 1)) % Word = r + 1
      BY <1>1, <1>3, <3>2, RemainderUnique
    <3>4. Word * q + (r + 1) = x + 1
      <4>1. Word * q \in Int
        BY <1>1, <1>2
      <4> QED  BY <1>2, <4>1
    <3> QED  BY <3>1, <3>3, <3>4
  <2>2. CASE r + 1 = Word
    <3>1. 0 \in 0..(Word - 1) /\ q + 1 \in Nat
      BY <1>1, <1>3
    <3>2. (Word * 1 + 0) % Word = 0
      BY <1>1, <3>1, RemainderUnique
    <3>3. (Word * (q + 1) + 0) % Word = 0
      BY <1>1, <3>1, RemainderUnique
    <3>4. Word * (q + 1) + 0 = x + 1
      <4>1. Word * q \in Int /\ Word * (q + 1) = Word * q + Word
        BY <1>1, <1>2, SMT
      <4> QED  BY <1>1, <1>2, <2>2, <4>1
    <3>5. Word * 1 + 0 = r + 1
      BY <1>1, <2>2, SMT
    <3> QED  BY <3>2, <3>3, <3>4, <3>5
  <2> QED  BY <1>1, <1>2, <2>1, <2>2
<1> QED  BY <1>2, <1>4, <1>5 DEF r

\* A block that ConcatKDF hashes depends on its number modulo Word.
LEMMA BlockInputWraps ==
    ASSUME NEW a, NEW n \in Nat
    PROVE  blockInput(n % Word, a) = blockInput(n, a)
<1>1. (n % Word) % Word = n % Word
  BY CounterWraps
<1> QED  BY <1>1 DEF blockInput, Uint32

\* An algorithm's name, which holds no zero octet, is told from the salt input
\* behind it (pbes2SaltInput).
LEMMA SaltSplits ==
    ASSUME NEW a \in Alg, NEW c \in Alg, NEW x \in Octets, NEW y \in Octets,
           pbes2SaltInput(a, x) = pbes2SaltInput(c, y)
    PROVE  a = c /\ x = y
<1> DEFINE zero == <<0>>
           ax   == zero \o x
           cy   == zero \o y
<1>1. a \in Octets /\ c \in Octets
  BY KDFAssumption
<1>2. zero \in Octets /\ Len(zero) = 1 /\ zero[1] = 0
  BY KDFAssumption DEF Octets
<1>3. pbes2SaltInput(a, x) = (a \o zero) \o x /\ pbes2SaltInput(c, y) = (c \o zero) \o y
  BY DEF pbes2SaltInput
<1> HIDE DEF zero
<1>4. (a \o zero) \o x = a \o ax
  <2>1. ThreeOctets(a, zero, x)
    BY <1>1, <1>2 DEF ThreeOctets
  <2> QED  BY <2>1, OctetsAssociate
<1>5. (c \o zero) \o y = c \o cy
  <2>1. ThreeOctets(c, zero, y)
    BY <1>1, <1>2 DEF ThreeOctets
  <2> QED  BY <2>1, OctetsAssociate
<1>6. /\ ax \in Octets /\ cy \in Octets
      /\ Len(ax) \in Nat \ {0} /\ Len(cy) \in Nat \ {0}
      /\ ax[1] = 0 /\ cy[1] = 0
  <2>1. /\ ax \in Octets /\ Len(ax) = Len(zero) + Len(x) /\ Len(x) \in Nat
        /\ cy \in Octets /\ Len(cy) = Len(zero) + Len(y) /\ Len(y) \in Nat
    BY <1>2, OctetsJoin
  <2>2. ax[1] = zero[1] /\ cy[1] = zero[1]
    <3>1. /\ \A i \in 1..(Len(zero) + Len(x)) :
                ax[i] = IF i <= Len(zero) THEN zero[i] ELSE x[i - Len(zero)]
          /\ \A i \in 1..(Len(zero) + Len(y)) :
                cy[i] = IF i <= Len(zero) THEN zero[i] ELSE y[i - Len(zero)]
      BY <1>2, ConcatProperties DEF Octets
    <3>2. 1 \in 1..(Len(zero) + Len(x)) /\ 1 \in 1..(Len(zero) + Len(y)) /\ 1 <= Len(zero)
      BY <1>2, <2>1
    <3> QED  BY <3>1, <3>2
  <2> QED  BY <1>2, <2>1, <2>2
<1>7. a \o ax = c \o cy
  BY <1>3, <1>4, <1>5
<1> HIDE DEF ax, cy
<1>8. ASSUME NEW e \in Alg, NEW f \in Alg, NEW u \in Octets, NEW v \in Octets,
             Len(e) < Len(f), Len(u) \in Nat \ {0}, u[1] = 0, e \o u = f \o v
      PROVE  FALSE
  <2>1. e \in Octets /\ f \in Octets
    BY KDFAssumption
  <2>2. /\ Len(e) \in Nat /\ Len(f) \in Nat /\ Len(v) \in Nat
        /\ \A i \in 1..(Len(e) + Len(u)) :
              (e \o u)[i] = IF i <= Len(e) THEN e[i] ELSE u[i - Len(e)]
        /\ \A i \in 1..(Len(f) + Len(v)) :
              (f \o v)[i] = IF i <= Len(f) THEN f[i] ELSE v[i - Len(f)]
    BY <2>1, ConcatProperties, LenProperties DEF Octets
  <2> DEFINE i == Len(e) + 1
  <2>3. /\ i \in 1..(Len(e) + Len(u)) /\ ~(i <= Len(e)) /\ i - Len(e) = 1
        /\ i \in 1..(Len(f) + Len(v)) /\ i <= Len(f) /\ i \in 1..Len(f)
    BY <1>8, <2>2
  <2> HIDE DEF i
  <2>4. (e \o u)[i] = u[1]
    BY <2>2, <2>3
  <2>5. (f \o v)[i] = f[i]
    BY <2>2, <2>3
  <2>6. f[i] # 0
    BY <2>3, KDFAssumption
  <2> QED  BY <1>8, <2>4, <2>5, <2>6
<1>9. Len(a) = Len(c)
  <2>1. Len(a) \in Nat /\ Len(c) \in Nat
    BY <1>1, LenProperties DEF Octets
  <2>2. ~(Len(a) < Len(c))
    BY <1>6, <1>7, <1>8
  <2>3. ~(Len(c) < Len(a))
    BY <1>6, <1>7, <1>8
  <2> QED  BY <2>1, <2>2, <2>3
<1>10. SamePair(a, c, ax, cy)
  BY <1>1, <1>6, <1>7, <1>9, SplitLeft
<1>11. zero \o x = zero \o y
  BY <1>10 DEF SamePair, ax, cy
<1>12. SamePair(zero, zero, x, y)
  BY <1>2, <1>11, SplitLeft
<1> QED  BY <1>10, <1>12 DEF SamePair

-----------------------------------------------------------------------------
(* KeyInv is inductive.                                                    *)

\* What the arguments of a call tell of it.
LEMMA CallArgs ==
    /\ \A a \in ConcatArgs : a.kdf = "ConcatKDF" /\ a.keyLen \in Int
    /\ \A a \in PBKDF2Args : /\ a.kdf = "PBKDF2" /\ a.keyLen \in Int /\ a.iterations \in Int
                             /\ a.alg \in Alg /\ a.p2s \in SaltInput
  BY KDFAssumption DEF ConcatArgs, PBKDF2Args

\* The fields of a call.
LEMMA IdleFields ==
    /\ DOMAIN Idle = {"args", "i", "out", "u", "t", "b"}
    /\ Idle.args.kdf = "none" /\ Idle.i = 1 /\ Idle.out = <<>> /\ Idle.u = <<>> /\ Idle.b = 1
  BY DEF Idle, NoArgs

LEMMA InitKeyInv == Init => KeyInv
  BY IdleFields DEF Init, KeyInv, Running

\* Calling either function, before its first block.
LEMMA CallKeyInv == ASSUME KeyInv, CallConcatKDF \/ CallPBKDF2 PROVE KeyInv'
<1>1. PICK a \in ConcatArgs \cup PBKDF2Args : call' = Called(a)
  BY DEF CallConcatKDF, CallPBKDF2
<1>2. derived' = derived
  BY DEF CallConcatKDF, CallPBKDF2
<1>3. /\ call'.args = a /\ call'.i = 1 /\ call'.out = <<>> /\ call'.u = <<>> /\ call'.b = 1
      /\ DOMAIN call' = DOMAIN Idle
  BY <1>1 DEF Called, Idle
<1>4. ConcatLocals(a)'
  <2>1. (0 + 1) % Word = 1
    BY KDFAssumption, ModOfLess
  <2> QED  BY <1>3, <2>1, NoBlocks DEF ConcatLocals
<1>5. PBKDF2Locals(a)'
  <2>1. 1 - 1 = 0 /\ 1 \in Nat \ {0}
    OBVIOUS
  <2> QED  BY <1>3, <2>1, NoBlocks DEF PBKDF2Locals
<1> QED  BY <1>2, <1>3, <1>4, <1>5 DEF KeyInv, Running

\* A step within a call keeps KeyInv, if it keeps its locals.
LEMMA LocalsKeep ==
    ASSUME KeyInv, derived' = derived, DOMAIN call' = DOMAIN Idle, call'.args = call.args,
           Running("ConcatKDF") => ConcatLocals(call.args)',
           Running("PBKDF2") => PBKDF2Locals(call.args)'
    PROVE  KeyInv'
  BY DEF KeyInv, Running

\* A call that returns the key it was to derive keeps KeyInv.
LEMMA ReturnKeeps ==
    ASSUME KeyInv, ~Running("none"), NEW key, Return(key),
           ~Derives(call.args) => key = <<>>,
           Derives(call.args) => Octetwise(key, blockHash(call.args), call.args.keyLen)
    PROVE  KeyInv'
<1> DEFINE d == [from |-> call.args, key |-> key]
<1>1. derived' = derived \cup {d} /\ call' = Idle
  BY DEF Return
<1>2. d.from = call.args /\ d.key = key
  OBVIOUS
<1> HIDE DEF d
<1>3. call.args \in ConcatArgs \cup PBKDF2Args
  BY DEF KeyInv
<1>4. ASSUME NEW e \in derived'
      PROVE  /\ e.from \in ConcatArgs \cup PBKDF2Args
             /\ ~Derives(e.from) => e.key = <<>>
             /\ Derives(e.from) => Octetwise(e.key, blockHash(e.from), e.from.keyLen)
  <2>1. CASE e \in derived
    BY <2>1 DEF KeyInv
  <2>2. CASE e = d
    BY <1>2, <1>3, <2>2
  <2> QED  BY <1>1, <2>1, <2>2
<1> QED  BY <1>1, <1>4, IdleFields DEF KeyInv, Running

\* ConcatKDF's loop writes the block of its counter.
LEMMA ConcatBlockKeyInv == ASSUME KeyInv, ConcatBlock PROVE KeyInv'
<1>a. PICK a : a = call.args
  OBVIOUS
<1>1. /\ Running("ConcatKDF") /\ ~Running("PBKDF2")
      /\ call' = [call EXCEPT !.i = (@ + 1) % Word,
                              !.out = appendSum(@, blockInput(call.i, a))]
      /\ derived' = derived
  BY <1>a DEF ConcatBlock, Running
<1>2. DOMAIN call = DOMAIN Idle /\ ConcatLocals(a)
  BY <1>a, <1>1 DEF KeyInv
<1>3. PICK c \in Nat : call.i = (c + 1) % Word /\ Blocked(call.out, blockHash(a), c)
  BY <1>2 DEF ConcatLocals
<1>4. /\ DOMAIN call' = DOMAIN Idle /\ call'.args = a
      /\ call'.i = (call.i + 1) % Word
      /\ call'.out = call.out \o Sum(blockInput(call.i, a))
  BY <1>a, <1>1, <1>2, IdleFields DEF appendSum
<1>5. call'.i = ((c + 1) + 1) % Word
  BY <1>3, <1>4, CounterWraps
<1>6. blockHash(a)[c + 1] = {[key |-> <<>>, msg |-> blockInput(c + 1, a), times |-> 1]}
  <2>1. a.kdf # "PBKDF2"
    BY <1>a, <1>1 DEF Running
  <2>2. c + 1 \in Nat
    OBVIOUS
  <2> QED  BY <2>1, <2>2 DEF blockHash
<1>7. Sum(blockInput(call.i, a)) = OctetsOf(blockHash(a)[c + 1])
  <2>1. c + 1 \in Nat
    OBVIOUS
  <2>2. blockInput(call.i, a) = blockInput(c + 1, a)
    BY <1>3, <2>1, BlockInputWraps
  <2> QED  BY <1>6, <2>2 DEF Sum
<1>8. Blocked(call'.out, blockHash(a), c + 1)
  BY <1>3, <1>4, <1>7, NextBlock
<1>9. ConcatLocals(a)'
  BY <1>5, <1>8 DEF ConcatLocals
<1> QED  BY <1>a, <1>1, <1>4, <1>9, LocalsKeep

\* ConcatKDF returns the first octets of its blocks.
LEMMA ConcatReturnKeyInv == ASSUME KeyInv, ConcatReturn PROVE KeyInv'
<1>a. PICK a : a = call.args
  OBVIOUS
<1>1. a.kdf = "ConcatKDF" /\ a \in ConcatArgs /\ ConcatLocals(a) /\ ~Running("none")
  <2>1. a.kdf = "ConcatKDF" /\ ~Running("none")
    BY <1>a DEF ConcatReturn, Running
  <2> QED  BY <1>a, <2>1, CallArgs DEF KeyInv, Running
<1>2. PICK c \in Nat : Blocked(call.out, blockHash(a), c)
  BY <1>1 DEF ConcatLocals
<1>3. a.keyLen \in Int /\ (Derives(a) <=> a.keyLen > 0)
  BY <1>1, CallArgs DEF Derives
<1>4. CASE a.keyLen <= 0 /\ Return(<<>>)
  <2>1. ~Derives(a)
    BY <1>3, <1>4
  <2> QED  BY <1>a, <1>1, <1>4, <2>1, ReturnKeeps
<1>5. CASE /\ a.keyLen > 0 /\ Len(call.out) >= a.keyLen
           /\ Return(SubSeq(call.out, 1, a.keyLen))
  <2>1. Len(call.out) = c * HashLen
    <3>1. c * HashLen \in Nat
      BY KDFAssumption, SMT
    <3> QED  BY <1>2, <3>1, SeqOfPlaces DEF Blocked, Octetwise
  <2>2. a.keyLen \in Nat /\ a.keyLen <= c * HashLen
    BY <1>3, <1>5, <2>1
  <2>3. Octetwise(SubSeq(call.out, 1, a.keyLen), blockHash(a), a.keyLen)
    BY <1>2, <2>2, FirstOctets
  <2> QED  BY <1>a, <1>1, <1>3, <1>5, <2>3, ReturnKeeps
<1> QED  BY <1>a, <1>4, <1>5 DEF ConcatReturn

\* The arguments and locals of a PBKDF2 call.
LEMMA PBKDF2Facts ==
    ASSUME KeyInv, Running("PBKDF2")
    PROVE  /\ ~Running("none") /\ ~Running("ConcatKDF")
           /\ call.args \in PBKDF2Args /\ PBKDF2Locals(call.args)
           /\ DOMAIN call = {"args", "i", "out", "u", "t", "b"}
  BY CallArgs, IdleFields DEF KeyInv, Running

\* The first HMAC of a block.
LEMMA StartBlockKeyInv == ASSUME KeyInv, StartBlock PROVE KeyInv'
<1>a. PICK a : a = call.args
  OBVIOUS
<1> DEFINE u == PRF(a.password, pbes2SaltInput(a.alg, a.p2s) \o Uint32(call.b))
<1>1. /\ Running("PBKDF2") /\ ~PBKDF2Err(a)
      /\ call' = [call EXCEPT !.u = <<u>>, !.t = {u}, !.i = 1]
      /\ derived' = derived
  BY <1>a DEF StartBlock
<1>2. a \in PBKDF2Args /\ PBKDF2Locals(a) /\ DOMAIN call = {"args", "i", "out", "u", "t", "b"}
  BY <1>a, <1>1, PBKDF2Facts
<1>3. u = HMAC(a, call.b, 1) /\ {u} = HMACs(a, call.b, 1)
  <2>1. u = HMAC(a, call.b, 1)
    BY DEF PRF, HMAC
  <2>2. 1..1 = {1}
    OBVIOUS
  <2> HIDE DEF u
  <2> QED  BY <2>1, <2>2 DEF HMACs
<1> HIDE DEF u
<1>4. /\ DOMAIN call' = DOMAIN call /\ call'.args = a /\ call'.b = call.b
      /\ call'.out = call.out /\ call'.u = <<u>> /\ call'.t = {u} /\ call'.i = 1
  BY <1>a, <1>1, <1>2
<1>5. 1 \in 1..a.iterations
  BY <1>1, <1>2, CallArgs DEF PBKDF2Err
<1>6. PBKDF2Locals(a)'
  BY <1>2, <1>3, <1>4, <1>5 DEF PBKDF2Locals
<1> QED  BY <1>a, <1>1, <1>2, <1>4, <1>6, PBKDF2Facts, IdleFields, LocalsKeep

\* One more iteration of a block.
LEMMA IterateKeyInv == ASSUME KeyInv, Iterate PROVE KeyInv'
<1>a. PICK a : a = call.args
  OBVIOUS
<1>b. PICK b : b = call.b
  OBVIOUS
<1>i. PICK i : i = call.i
  OBVIOUS
<1> DEFINE u == again(call.u[1])
<1>1. /\ Running("PBKDF2") /\ call.u # <<>> /\ i < a.iterations
      /\ call' = [call EXCEPT !.u = <<u>>, !.t = xor(@, u), !.i = @ + 1]
      /\ derived' = derived
  BY <1>a, <1>i DEF Iterate, moreIterations
<1>2. a \in PBKDF2Args /\ PBKDF2Locals(a) /\ DOMAIN call = {"args", "i", "out", "u", "t", "b"}
  BY <1>a, <1>1, PBKDF2Facts
<1>3. /\ i \in 1..a.iterations /\ call.u = <<HMAC(a, b, i)>> /\ call.t = HMACs(a, b, i)
      /\ a.iterations \in Int
  BY <1>1, <1>2, <1>b, <1>i, CallArgs DEF PBKDF2Locals
<1>4. u = HMAC(a, b, i + 1)
  <2>1. call.u[1] = HMAC(a, b, i)
    BY <1>3
  <2>2. again(HMAC(a, b, i)) = HMAC(a, b, i + 1)
    <3>1. PICK h : h = HMAC(a, b, i)
      OBVIOUS
    <3>2. /\ DOMAIN h = {"key", "times", "msg"} /\ h = [f \in DOMAIN h |-> h[f]]
          /\ h.key = HMAC(a, b, i + 1).key /\ h.msg = HMAC(a, b, i + 1).msg
          /\ h.times = i /\ HMAC(a, b, i + 1).times = i + 1
      BY <3>1 DEF HMAC
    <3>3. /\ DOMAIN HMAC(a, b, i + 1) = {"key", "times", "msg"}
          /\ HMAC(a, b, i + 1) =
               [f \in {"key", "times", "msg"} |-> HMAC(a, b, i + 1)[f]]
      BY DEF HMAC
    <3>4. PICK g : g = HMAC(a, b, i + 1)
      OBVIOUS
    <3>5. [h EXCEPT !.times = @ + 1] = g
      BY <3>2, <3>3, <3>4
    <3> QED  BY <3>1, <3>4, <3>5 DEF again
  <2> QED  BY <2>1, <2>2
<1> HIDE DEF u
<1>5. xor(call.t, u) = HMACs(a, b, i + 1)
  <2>1. u \notin HMACs(a, b, i)
    <3>1. ASSUME NEW k \in 1..i PROVE HMAC(a, b, k) # HMAC(a, b, i + 1)
      <4>1. k # i + 1
        BY <1>3
      <4>2. HMAC(a, b, k).times = k /\ HMAC(a, b, i + 1).times = i + 1
        BY DEF HMAC
      <4> QED  BY <4>1, <4>2
    <3> QED  BY <1>4, <3>1 DEF HMACs
  <2>2. HMACs(a, b, i + 1) = HMACs(a, b, i) \cup {HMAC(a, b, i + 1)}
    <3>1. 1..(i + 1) = 1..i \cup {i + 1}
      BY <1>3
    <3> QED  BY <3>1 DEF HMACs
  <2> QED  BY <1>3, <1>4, <2>1, <2>2 DEF xor
<1>6. /\ DOMAIN call' = DOMAIN call /\ call'.args = a /\ call'.b = b
      /\ call'.out = call.out /\ call'.u = <<u>> /\ call'.t = xor(call.t, u)
      /\ call'.i = i + 1
  BY <1>a, <1>b, <1>i, <1>1, <1>2
<1>7. i + 1 \in 1..a.iterations
  BY <1>1, <1>3
<1>8. PBKDF2Locals(a)'
  BY <1>b, <1>2, <1>4, <1>5, <1>6, <1>7 DEF PBKDF2Locals
<1> QED  BY <1>a, <1>1, <1>2, <1>6, <1>8, PBKDF2Facts, IdleFields, LocalsKeep

\* A block is done when it is the exclusive-or of all its HMACs.
LEMMA EndBlockKeyInv == ASSUME KeyInv, EndBlock PROVE KeyInv'
<1>a. PICK a : a = call.args
  OBVIOUS
<1>c. PICK c : c = call.b - 1
  OBVIOUS
<1>1. /\ Running("PBKDF2") /\ call.u # <<>> /\ ~(call.i < a.iterations)
      /\ call' = [call EXCEPT !.out = @ \o OctetsOf(call.t), !.u = <<>>, !.t = {},
                              !.b = @ + 1]
      /\ derived' = derived
  BY <1>a DEF EndBlock, moreIterations
<1>2. a \in PBKDF2Args /\ PBKDF2Locals(a) /\ DOMAIN call = {"args", "i", "out", "u", "t", "b"}
  BY <1>a, <1>1, PBKDF2Facts
<1>3. /\ call.b \in Nat \ {0} /\ Blocked(call.out, blockHash(a), c)
      /\ call.i \in 1..a.iterations /\ call.t = HMACs(a, call.b, call.i)
  BY <1>c, <1>1, <1>2 DEF PBKDF2Locals
<1>4. c \in Nat /\ call.b = c + 1 /\ call.i = a.iterations
  BY <1>c, <1>1, <1>2, <1>3, CallArgs
<1>5. OctetsOf(call.t) = OctetsOf(blockHash(a)[c + 1])
  <2>1. a.kdf = "PBKDF2" /\ c + 1 \in Nat
    BY <1>2, <1>4, CallArgs
  <2>2. blockHash(a)[c + 1] = HMACs(a, c + 1, a.iterations)
    BY <2>1 DEF blockHash
  <2> QED  BY <1>3, <1>4, <2>2
<1>6. /\ DOMAIN call' = DOMAIN call /\ call'.args = a /\ call'.b = call.b + 1
      /\ call'.out = call.out \o OctetsOf(call.t) /\ call'.u = <<>>
  BY <1>a, <1>1, <1>2
<1>7. Blocked(call'.out, blockHash(a), c + 1)
  BY <1>3, <1>4, <1>5, <1>6, NextBlock
<1>8. PBKDF2Locals(a)'
  <2>1. call'.b \in Nat \ {0} /\ call'.b - 1 = c + 1
    BY <1>4, <1>6
  <2> QED  BY <1>6, <1>7, <2>1 DEF PBKDF2Locals
<1> QED  BY <1>a, <1>1, <1>2, <1>6, <1>8, PBKDF2Facts, IdleFields, LocalsKeep

\* PBKDF2 returns the first octets of its blocks.
LEMMA PBKDF2ReturnKeyInv == ASSUME KeyInv, PBKDF2Return PROVE KeyInv'
<1>a. PICK a : a = call.args
  OBVIOUS
<1>1. Running("PBKDF2")
  BY DEF PBKDF2Return
<1>2. /\ a \in PBKDF2Args /\ PBKDF2Locals(a) /\ ~Running("none")
      /\ a.kdf = "PBKDF2" /\ a.keyLen \in Int /\ a.iterations \in Int
  BY <1>a, <1>1, PBKDF2Facts, CallArgs
<1>3. Derives(a) <=> ~PBKDF2Err(a)
  BY <1>2 DEF Derives, PBKDF2Err
<1>4. CASE PBKDF2Err(a) /\ Return(<<>>)
  BY <1>a, <1>2, <1>3, <1>4, ReturnKeeps
<1>5. CASE /\ ~PBKDF2Err(a) /\ call.b > blocks(a.keyLen)
           /\ Return(SubSeq(call.out, 1, a.keyLen))
  <2>c. PICK c : c = call.b - 1
    OBVIOUS
  <2>1. a.keyLen \in Nat \ {0}
    BY <1>2, <1>5 DEF PBKDF2Err
  <2>2. blocks(a.keyLen) \in Int
    BY <2>1, KDFAssumption, SMT DEF blocks
  <2>3. call.b \in Nat \ {0} /\ Blocked(call.out, blockHash(a), c)
    BY <1>2, <2>c DEF PBKDF2Locals
  <2>4. c \in Int /\ c >= blocks(a.keyLen)
    BY <1>5, <2>c, <2>2, <2>3
  <2>5. c \in Nat /\ a.keyLen <= c * HashLen
    BY <2>1, <2>4, BlocksCover
  <2>6. Octetwise(SubSeq(call.out, 1, a.keyLen), blockHash(a), a.keyLen)
    BY <2>1, <2>3, <2>5, FirstOctets
  <2> QED  BY <1>a, <1>2, <1>3, <1>5, <2>6, ReturnKeeps
<1> QED  BY <1>a, <1>4, <1>5 DEF PBKDF2Return

LEMMA StutterKeyInv == ASSUME KeyInv, UNCHANGED vars PROVE KeyInv'
  BY DEF KeyInv, ConcatLocals, PBKDF2Locals, Running, vars

(***************************************************************************)
(* A key is the first keyLen octets of the blocks of its call, each block  *)
(* the hash, or the exclusive-or of the HMACs, that its number gives       *)
(* (ConcatKDF and PBKDF2).                                                 *)
(***************************************************************************)
THEOREM KeyInvariant == Spec => []KeyInv
<1>1. Init => KeyInv
  BY InitKeyInv
<1>2. KeyInv /\ [Next]_vars => KeyInv'
  BY CallKeyInv, ConcatBlockKeyInv, ConcatReturnKeyInv, StartBlockKeyInv, IterateKeyInv,
     EndBlockKeyInv, PBKDF2ReturnKeyInv, StutterKeyInv DEF Next
<1> QED  BY <1>1, <1>2, PTL DEF Spec

-----------------------------------------------------------------------------
(* What the blocks tell of their calls.                                    *)

\* The exclusive-or that is a block of a PBKDF2 key tells the algorithm and
\* the salt input of its call, and its own number modulo Word.
LEMMA HMACsTell ==
    ASSUME NEW a \in PBKDF2Args, NEW c \in PBKDF2Args, NEW n \in Nat, NEW m \in Nat,
           a.iterations > 0, HMACs(a, n, a.iterations) = HMACs(c, m, c.iterations)
    PROVE  a.alg = c.alg /\ a.p2s = c.p2s /\ n % Word = m % Word
<1> DEFINE x == pbes2SaltInput(a.alg, a.p2s)
           y == pbes2SaltInput(c.alg, c.p2s)
           p == Uint32(n)
           q == Uint32(m)
<1>1. /\ a.alg \in Alg /\ a.p2s \in Octets /\ a.alg \in Octets /\ a.iterations \in Int
      /\ c.alg \in Alg /\ c.p2s \in Octets /\ c.alg \in Octets
  BY CallArgs, KDFAssumption
<1>2. x \in Octets /\ y \in Octets
  <2>1. <<0>> \in Octets
    BY KDFAssumption DEF Octets
  <2>2. a.alg \o <<0>> \in Octets /\ c.alg \o <<0>> \in Octets
    BY <1>1, <2>1, OctetsJoin
  <2> QED  BY <1>1, <2>2, OctetsJoin DEF pbes2SaltInput
<1>3. /\ p \in Octets /\ Len(p) = 1 /\ p[1] = n % Word
      /\ q \in Octets /\ Len(q) = 1 /\ q[1] = m % Word
  BY Uint32Type
<1>4. x \o p = y \o q
  <2>1. 1 \in 1..a.iterations
    BY <1>1
  <2>2. HMAC(a, n, 1) \in HMACs(c, m, c.iterations)
    BY <2>1 DEF HMACs
  <2>3. PICK k \in 1..c.iterations : HMAC(a, n, 1) = HMAC(c, m, k)
    BY <2>2 DEF HMACs
  <2>4. HMAC(a, n, 1).msg = x \o p /\ HMAC(c, m, k).msg = y \o q
    BY DEF HMAC
  <2> QED  BY <2>3, <2>4
<1> HIDE DEF x, y, p, q
<1>5. SamePair(x, y, p, q)
  BY <1>2, <1>3, <1>4, SplitRight
<1>6. pbes2SaltInput(a.alg, a.p2s) = pbes2SaltInput(c.alg, c.p2s)
  BY <1>5 DEF SamePair, x, y
<1>7. a.alg = c.alg /\ a.p2s = c.p2s
  BY <1>1, <1>6, SaltSplits
<1> QED  BY <1>3, <1>5, <1>7 DEF SamePair

\* The number of a block that ConcatKDF hashes is what it begins with.
LEMMA InputTellsNumber ==
    ASSUME NEW a \in ConcatArgs, a.keyLen > 0, NEW n \in Nat, NEW m \in Nat,
           blockInput(n, a) = blockInput(m, a)
    PROVE  n % Word = m % Word
<1> DEFINE p == Uint32(n)
           q == Uint32(m)
           z == a.z
           e == otherInfo(a.algID, a.apu, a.apv, a.keyLen)
<1>1. /\ p \in Octets /\ Len(p) = 1 /\ p[1] = n % Word
      /\ q \in Octets /\ Len(q) = 1 /\ q[1] = m % Word
  BY Uint32Type
<1>2. z \in Octets /\ e \in Octets
  <2>1. a.keyLen \in Nat
    BY ArgsType
  <2> QED  BY <2>1, ArgsType, OtherInfoType
<1>3. (p \o z) \o e = (q \o z) \o e
  BY DEF blockInput
<1> HIDE DEF p, q, z, e
<1>4. p \o z \in Octets /\ q \o z \in Octets
  BY <1>1, <1>2, OctetsJoin
<1>5. SamePair(p \o z, q \o z, e, e)
  BY <1>2, <1>3, <1>4, SplitRight
<1>6. p \o z = q \o z
  BY <1>5 DEF SamePair
<1>7. SamePair(p, q, z, z)
  BY <1>1, <1>2, <1>6, SplitRight
<1> QED  BY <1>1, <1>7 DEF SamePair

\* Within a key, a block's hash tells its number modulo Word.
LEMMA BlockHashTells ==
    ASSUME NEW a \in ConcatArgs \cup PBKDF2Args, Derives(a), NEW n \in Nat, NEW m \in Nat,
           blockHash(a)[n] = blockHash(a)[m]
    PROVE  n % Word = m % Word
<1>1. CASE a \in PBKDF2Args
  <2>1. a.kdf = "PBKDF2"
    BY <1>1, CallArgs
  <2>2. a.iterations > 0
    BY <2>1 DEF Derives
  <2>3. HMACs(a, n, a.iterations) = HMACs(a, m, a.iterations)
    BY <2>1 DEF blockHash
  <2> QED  BY <1>1, <2>2, <2>3, HMACsTell
<1>2. CASE a \in ConcatArgs
  <2>1. a.kdf # "PBKDF2"
    BY <1>2, CallArgs
  <2> DEFINE x == blockInput(n, a)
             y == blockInput(m, a)
  <2>2. {[key |-> <<>>, msg |-> x, times |-> 1]} = {[key |-> <<>>, msg |-> y, times |-> 1]}
    BY <2>1 DEF blockHash
  <2> HIDE DEF x, y
  <2>3. [key |-> <<>>, msg |-> x, times |-> 1] = [key |-> <<>>, msg |-> y, times |-> 1]
    BY <2>2
  <2>4. x = y
    BY <2>3
  <2>5. a.keyLen > 0
    BY DEF Derives
  <2> QED  BY <1>2, <2>4, <2>5, InputTellsNumber DEF x, y
<1> QED  BY <1>1, <1>2

\* An octet of a key is one of a place of it.
LEMMA OctetHasPlace ==
    ASSUME NEW key, NEW hash, NEW n \in Nat, Octetwise(key, hash, n), NEW o \in Range(key)
    PROVE  \E k \in Nat, j \in 1..HashLen : o = <<hash[k], j>>
<1>1. DOMAIN key = 1..n
  BY DEF Octetwise
<1>2. PICK m \in 1..n : o = key[m]
  BY <1>1 DEF Range
<1>3. PICK k \in 1..m : \E j \in 1..HashLen : key[m] = <<hash[k], j>>
  BY <1>2 DEF Octetwise, OctetAt
<1> QED  BY <1>2, <1>3

\* The block and the place in it of an octet of a key.
LEMMA BlockOfPlace ==
    ASSUME NEW m \in Nat \ {0}, NEW n \in Nat \ {0}, NEW j \in 1..HashLen,
           m = (n - 1) * HashLen + j
    PROVE  (m - 1) \div HashLen + 1 = n /\ ((m - 1) % HashLen) + 1 = j
<1>1. PICK h \in Nat \ {0} : h = HashLen
  BY KDFAssumption
<1>2. j \in 1..h /\ m = (n - 1) * h + j
  BY <1>1
<1>3. (m - 1) \div h + 1 = n /\ ((m - 1) % h) + 1 = j
  <2>1. (m - 1) \div h + 1 = n
    BY <1>1, <1>2, PlaceDivides, SMT
  <2>2. ((m - 1) % h) + 1 = j
    BY <1>1, <1>2, PlaceDivides, SMT
  <2> QED  BY <2>1, <2>2
<1> QED  BY <1>1, <1>3

\* No block of a counted key has a number above Word - 1.
LEMMA BlocksCounted ==
    ASSUME NEW a, a.keyLen \in Int, Counted(a), NEW m \in 1..a.keyLen,
           NEW n \in Nat \ {0}, NEW j \in 1..HashLen, m = (n - 1) * HashLen + j
    PROVE  n \in 0..(Word - 1) /\ n % Word = n
<1>1. Word \in Nat \ {0} /\ HashLen \in Nat \ {0}
  BY KDFAssumption
<1>2. (n - 1) * HashLen + j <= (Word - 1) * HashLen
  <2>1. a.keyLen <= (Word - 1) * HashLen /\ (Word - 1) * HashLen \in Int
    BY <1>1 DEF Counted
  <2>2. m <= a.keyLen
    OBVIOUS
  <2> QED  BY <2>1, <2>2
<1>3. n <= Word - 1
  <2> SUFFICES ASSUME n >= Word PROVE FALSE
    BY <1>1
  <2>1. n - 1 >= Word - 1 /\ n - 1 \in Nat /\ Word - 1 \in Nat
    BY <1>1
  <2>2. ASSUME NEW x \in Nat, NEW y \in Nat, NEW h \in Nat, x >= y
        PROVE  x * h >= y * h /\ x * h \in Nat /\ y * h \in Nat
    BY <2>2, SMT
  <2>3. (n - 1) * HashLen >= (Word - 1) * HashLen
    BY <1>1, <2>1, <2>2
  <2>4. (n - 1) * HashLen \in Nat /\ (Word - 1) * HashLen \in Nat /\ j >= 1
    BY <1>1, <2>1, <2>2
  <2> QED  BY <1>2, <2>3, <2>4
<1>4. n < Word
  BY <1>1, <1>3
<1> QED  BY <1>1, <1>3, <1>4, ModOfLess

-----------------------------------------------------------------------------
(* The properties of the keys.                                             *)

(***************************************************************************)
(* No octet is in the keys of two PBES2 algorithms, or of two salt inputs: *)
(* the zero octet behind the name keeps them apart (pbes2SaltInput).       *)
(***************************************************************************)
THEOREM VariantsInvariant == Spec => []VariantsSeparated
<1>1. KeyInv => VariantsSeparated
  <2> SUFFICES ASSUME KeyInv, NEW d \in Keys("PBKDF2"), NEW e \in Keys("PBKDF2"),
                      NEW o, o \in Range(d.key), o \in Range(e.key)
               PROVE  d.from.alg = e.from.alg /\ d.from.p2s = e.from.p2s
    BY DEF VariantsSeparated
  <2>1. ASSUME NEW f \in Keys("PBKDF2"), o \in Range(f.key)
        PROVE  /\ f.from \in PBKDF2Args /\ f.from.iterations > 0
               /\ \E k \in Nat, j \in 1..HashLen :
                     o = <<HMACs(f.from, k, f.from.iterations), j>>
    <3>1. /\ f \in derived /\ f.from.kdf = "PBKDF2"
          /\ f.from \in ConcatArgs \cup PBKDF2Args
      BY DEF KeyInv, Keys
    <3>2. f.from \in PBKDF2Args
      BY <3>1, CallArgs
    <3>3. Derives(f.from)
      <4> SUFFICES ASSUME f.key = <<>> PROVE FALSE
        BY <3>1 DEF KeyInv
      <4> QED  BY <2>1 DEF Range
    <3>4. f.from.iterations > 0 /\ f.from.keyLen \in Nat
      BY <3>1, <3>2, <3>3, CallArgs DEF Derives
    <3>5. Octetwise(f.key, blockHash(f.from), f.from.keyLen)
      BY <3>1, <3>3 DEF KeyInv
    <3>6. PICK k \in Nat, j \in 1..HashLen : o = <<blockHash(f.from)[k], j>>
      BY <2>1, <3>4, <3>5, OctetHasPlace
    <3>7. blockHash(f.from)[k] = HMACs(f.from, k, f.from.iterations)
      BY <3>1 DEF blockHash
    <3> QED  BY <3>2, <3>4, <3>6, <3>7
  <2>2. PICK k \in Nat, j \in 1..HashLen :
             o = <<HMACs(d.from, k, d.from.iterations), j>>
    BY <2>1
  <2>3. PICK l \in Nat, i \in 1..HashLen :
             o = <<HMACs(e.from, l, e.from.iterations), i>>
    BY <2>1
  <2>4. HMACs(d.from, k, d.from.iterations) = HMACs(e.from, l, e.from.iterations)
    BY <2>2, <2>3
  <2> QED  BY <2>1, <2>4, HMACsTell
<1> QED  BY <1>1, KeyInvariant, PTL

\* Two places of a counted key hold two octets.
LEMMA PlacesDiffer ==
    ASSUME NEW a \in ConcatArgs \cup PBKDF2Args, Derives(a), Counted(a), NEW key,
           Octetwise(key, blockHash(a), a.keyLen),
           NEW x \in 1..a.keyLen, NEW y \in 1..a.keyLen, key[x] = key[y]
    PROVE  x = y
<1>1. a.keyLen \in Int /\ HashLen \in Nat \ {0}
  BY CallArgs, KDFAssumption
<1>2. PICK n \in 1..x : \E j \in 1..HashLen :
             x = (n - 1) * HashLen + j /\ key[x] = <<blockHash(a)[n], j>>
  BY DEF Octetwise, OctetAt
<1>3. PICK j \in 1..HashLen :
             x = (n - 1) * HashLen + j /\ key[x] = <<blockHash(a)[n], j>>
  BY <1>2
<1>4. PICK m \in 1..y : \E i \in 1..HashLen :
             y = (m - 1) * HashLen + i /\ key[y] = <<blockHash(a)[m], i>>
  BY DEF Octetwise, OctetAt
<1>5. PICK i \in 1..HashLen :
             y = (m - 1) * HashLen + i /\ key[y] = <<blockHash(a)[m], i>>
  BY <1>4
<1>6. j = i /\ blockHash(a)[n] = blockHash(a)[m]
  BY <1>3, <1>5
<1>7. n \in Nat \ {0} /\ m \in Nat \ {0}
  BY <1>1
<1>8. n % Word = m % Word
  BY <1>6, <1>7, BlockHashTells
<1>9. n % Word = n /\ m % Word = m
  BY <1>1, <1>3, <1>5, <1>7, BlocksCounted
<1> QED  BY <1>3, <1>5, <1>6, <1>8, <1>9

(***************************************************************************)
(* A key is as long as asked for, whole blocks or not, and uses no octet   *)
(* twice, whichever the key and hash lengths are (ConcatKDF and PBKDF2).   *)
(***************************************************************************)
THEOREM WholeKeysInvariant == Spec => []WholeKeys
<1>1. KeyInv => WholeKeys
  <2> SUFFICES ASSUME KeyInv, NEW d \in derived, d.from.keyLen > 0, Counted(d.from),
                      d.from.kdf = "PBKDF2" => d.from.iterations > 0
               PROVE  Len(d.key) = d.from.keyLen /\ IsInjective(d.key)
    BY DEF WholeKeys
  <2>1. d.from \in ConcatArgs \cup PBKDF2Args /\ Derives(d.from)
    BY DEF KeyInv, Derives
  <2>2. Octetwise(d.key, blockHash(d.from), d.from.keyLen)
    BY <2>1 DEF KeyInv
  <2>3. d.from.keyLen \in Nat
    BY <2>1, CallArgs
  <2>4. d.key = [m \in 1..d.from.keyLen |-> d.key[m]]
    BY <2>2 DEF Octetwise
  <2>5. Len(d.key) = d.from.keyLen
    BY <2>3, <2>4, SeqOfPlaces
  <2>6. DOMAIN d.key = 1..d.from.keyLen
    BY <2>4
  <2> QED  BY <2>1, <2>2, <2>5, <2>6, PlacesDiffer DEF IsInjective
<1> QED  BY <1>1, KeyInvariant, PTL

(***************************************************************************)
(* Every octet of a PBES2 key is where RFC 8018 has it: the exclusive-or   *)
(* of all of the HMACs of the block it falls in, at its place in that      *)
(* (PBKDF2), for every salt, iteration count, hash and key length.         *)
(***************************************************************************)
THEOREM RFC8018Invariant == Spec => []MatchesRFC8018
<1>1. KeyInv => MatchesRFC8018
  <2> SUFFICES ASSUME KeyInv, NEW d \in Keys("PBKDF2"), Counted(d.from),
                      NEW i \in 1..Len(d.key)
               PROVE  d.key[i] =
                        <<{[key |-> d.from.password,
                            msg |-> d.from.alg \o <<0>> \o d.from.p2s \o
                                      <<(i - 1) \div HashLen + 1>>,
                            times |-> n] : n \in 1..d.from.iterations},
                          ((i - 1) % HashLen) + 1>>
    BY DEF MatchesRFC8018
  <2> DEFINE a == d.from
             bl == (i - 1) \div HashLen + 1
  <2>1. /\ d \in derived /\ a.kdf = "PBKDF2" /\ a \in ConcatArgs \cup PBKDF2Args
    BY DEF KeyInv, Keys
  <2>2. a.keyLen \in Int /\ HashLen \in Nat \ {0}
    BY <2>1, CallArgs, KDFAssumption
  <2>3. Derives(a)
    <3> SUFFICES ASSUME d.key = <<>> PROVE FALSE
      BY <2>1 DEF KeyInv
    <3> QED  OBVIOUS
  <2>4. Octetwise(d.key, blockHash(a), a.keyLen) /\ a.keyLen \in Nat
    BY <2>1, <2>2, <2>3 DEF KeyInv, Derives
  <2>5. Len(d.key) = a.keyLen
    <3>1. d.key = [m \in 1..a.keyLen |-> d.key[m]]
      BY <2>4 DEF Octetwise
    <3> QED  BY <2>4, <3>1, SeqOfPlaces
  <2>6. PICK n \in 1..i : \E j \in 1..HashLen :
               i = (n - 1) * HashLen + j /\ d.key[i] = <<blockHash(a)[n], j>>
    BY <2>4, <2>5 DEF Octetwise, OctetAt
  <2>7. PICK j \in 1..HashLen :
               i = (n - 1) * HashLen + j /\ d.key[i] = <<blockHash(a)[n], j>>
    BY <2>6
  <2>8. n \in Nat \ {0} /\ i \in 1..a.keyLen /\ i \in Nat \ {0}
    BY <2>4, <2>5
  <2>9. bl = n /\ ((i - 1) % HashLen) + 1 = j
    <3>1. i \in Nat \ {0} /\ i = (n - 1) * HashLen + j
      BY <2>7, <2>8
    <3> QED  BY <2>8, <3>1, BlockOfPlace
  <2>10. n % Word = n
    BY <2>2, <2>7, <2>8, BlocksCounted
  <2>11. blockHash(a)[n] =
           {[key |-> a.password, msg |-> a.alg \o <<0>> \o a.p2s \o <<n>>, times |-> k] :
               k \in 1..a.iterations}
    <3>1. blockHash(a)[n] = HMACs(a, n, a.iterations)
      BY <2>1, <2>8 DEF blockHash
    <3>2. pbes2SaltInput(a.alg, a.p2s) \o Uint32(n) = a.alg \o <<0>> \o a.p2s \o <<n>>
      BY <2>10 DEF pbes2SaltInput, Uint32
    <3> DEFINE x == a.alg \o <<0>> \o a.p2s \o <<n>>
    <3>3. ASSUME NEW k
          PROVE  HMAC(a, n, k) = [key |-> a.password, msg |-> x, times |-> k]
      BY <3>2 DEF HMAC
    <3> HIDE DEF x
    <3>4. HMACs(a, n, a.iterations) =
            {[key |-> a.password, msg |-> x, times |-> k] : k \in 1..a.iterations}
      BY <3>3 DEF HMACs
    <3> QED  BY <3>1, <3>4 DEF x
  <2> QED  BY <2>7, <2>9, <2>11
<1> QED  BY <1>1, KeyInvariant, PTL
=============================================================================

---------------------------- MODULE CBCHMACProofs ----------------------------
(***************************************************************************)
(* Proofs about CBCHMAC: padding is undone exactly, and what is decrypted  *)
(* was encrypted as it is.                                                 *)
(***************************************************************************)
EXTENDS CBCHMAC, SequenceTheorems, TLAPS

-----------------------------------------------------------------------------
(* Padding.                                                                *)

\* How many octets pkcs7Pad adds.
PadLen(b) == BlockSize - (Len(b) % BlockSize)

\* The pad completes a block and is never empty (pkcs7Pad's n).
LEMMA PadLenFacts ==
    ASSUME NEW m \in Nat, NEW n \in Nat \ {0}
    PROVE  /\ m % n \in 0..(n - 1)
           /\ (m + (n - (m % n))) % n = 0
<1> DEFINE q == m \div n
<1>1. q \in Int /\ m = n * q + (m % n)
  BY SMT
<1>2. m % n \in 0..(n - 1)
  OBVIOUS
<1>3. m + (n - (m % n)) = n * (q + 1)
  BY <1>1, <1>2
<1>4. (n * (q + 1)) % n = 0
  BY <1>1
<1> HIDE DEF q
<1> QED  BY <1>2, <1>3, <1>4

\* No two lengths of a pad complete the same block.
LEMMA SameResidue ==
    ASSUME NEW n \in Nat \ {0}, NEW m \in Nat, NEW s \in 1..n, NEW t \in 1..n,
           (m + s) % n = 0, (m + t) % n = 0
    PROVE  s = t
<1> DEFINE p == (m + s) \div n
           q == (m + t) \div n
<1>1. p \in Int /\ q \in Int /\ m + s = n * p /\ m + t = n * q
  BY SMT
<1> HIDE DEF p, q
<1>2. s - t = n * (p - q)
  BY <1>1
<1>3. CASE p = q
  <2>1. m + s = m + t
    BY <1>1, <1>3
  <2> QED  BY <2>1
<1>4. CASE p >= q + 1
  <2>1. n * (p - q) >= n
    BY <1>1, <1>4, SMT
  <2> QED  BY <2>1, <1>2
<1>5. CASE q >= p + 1
  <2>1. n * (q - p) >= n
    BY <1>1, <1>5, SMT
  <2>2. t - s = n * (q - p)
    BY <1>1
  <2> QED  BY <2>1, <2>2
<1> QED  BY <1>1, <1>3, <1>4, <1>5

\* What pkcs7Pad returns, octet by octet.
LEMMA PadProperties ==
    ASSUME NEW b \in Octets
    PROVE  /\ PadLen(b) \in 1..BlockSize
           /\ pkcs7Pad(b) \in Octets
           /\ Len(pkcs7Pad(b)) = Len(b) + PadLen(b)
           /\ Len(pkcs7Pad(b)) % BlockSize = 0
           /\ \A i \in 1..Len(b) : pkcs7Pad(b)[i] = b[i]
           /\ \A i \in (Len(b) + 1)..(Len(b) + PadLen(b)) : pkcs7Pad(b)[i] = PadLen(b)
<1> DEFINE n   == PadLen(b)
           pad == [i \in 1..n |-> n]
<1>1. Len(b) \in Nat /\ BlockSize \in Nat \ {0}
  BY CBCHMACAssumption, LenProperties DEF Octets
<1>2. Len(b) % BlockSize \in 0..(BlockSize - 1) /\ (Len(b) + n) % BlockSize = 0
  BY <1>1, PadLenFacts DEF PadLen
<1>3. n \in 1..BlockSize
  BY <1>1, <1>2 DEF PadLen
<1>4. n \in Octet /\ n \in Nat
  BY <1>3, <1>1, CBCHMACAssumption
<1> HIDE DEF n
<1>5. pad \in Octets /\ Len(pad) = n /\ \A i \in 1..n : pad[i] = n
  BY <1>4 DEF Octets
<1>6. pkcs7Pad(b) = b \o pad
  BY DEF pkcs7Pad, n, PadLen
<1> HIDE DEF pad
<1>7. /\ b \o pad \in Octets
      /\ Len(b \o pad) = Len(b) + n
      /\ \A i \in 1..(Len(b) + n) : (b \o pad)[i] = IF i <= Len(b) THEN b[i] ELSE pad[i - Len(b)]
  BY <1>5, ConcatProperties DEF Octets
<1>8. \A i \in 1..Len(b) : (b \o pad)[i] = b[i]
  BY <1>7, <1>1, <1>4
<1>9. ASSUME NEW i \in (Len(b) + 1)..(Len(b) + n)
      PROVE  (b \o pad)[i] = n
  <2>1. i \in 1..(Len(b) + n) /\ ~(i <= Len(b)) /\ i - Len(b) \in 1..n
    BY <1>1, <1>4
  <2> QED  BY <2>1, <1>7, <1>5
<1> QED  BY <1>2, <1>3, <1>6, <1>7, <1>8, <1>9 DEF n

(***************************************************************************)
(* pkcs7Unpad gives back exactly what pkcs7Pad was given, whatever its     *)
(* length: the empty string and whole blocks included.                     *)
(***************************************************************************)
THEOREM UnpadInvertsPad ==
    ASSUME NEW b \in Octets
    PROVE  pkcs7Unpad(pkcs7Pad(b)) = [ok |-> TRUE, out |-> b]
<1> DEFINE p == pkcs7Pad(b)
           n == PadLen(b)
<1>1. /\ n \in 1..BlockSize /\ p \in Octets /\ Len(p) = Len(b) + n /\ Len(p) % BlockSize = 0
      /\ \A i \in 1..Len(b) : p[i] = b[i]
      /\ \A i \in (Len(b) + 1)..(Len(b) + n) : p[i] = n
  BY PadProperties
<1>2. Len(b) \in Nat /\ BlockSize \in Nat \ {0} /\ n \in Nat
  BY <1>1, CBCHMACAssumption, LenProperties DEF Octets
<1> HIDE DEF p, n
<1>3. p[Len(p)] = n /\ Len(p) # 0 /\ n # 0 /\ n <= BlockSize /\ n <= Len(p)
  BY <1>1, <1>2
<1>4. \A i \in (Len(p) - n + 1)..Len(p) : p[i] = n
  BY <1>1, <1>2
<1>5. SubSeq(p, 1, Len(p) - n) = b
  <2>1. Len(p) - n = Len(b)
    BY <1>1, <1>2
  <2>2. \A i \in 1..Len(b) : p[i] \in Octet
    BY <1>1, <1>2, LenProperties, ElementOfSeq DEF Octets
  <2>3. /\ SubSeq(p, 1, Len(b)) \in Seq(Octet)
        /\ Len(SubSeq(p, 1, Len(b))) = IF 1 <= Len(b) THEN Len(b) - 1 + 1 ELSE 0
        /\ \A i \in 1..(Len(b) - 1 + 1) : SubSeq(p, 1, Len(b))[i] = p[1 + i - 1]
    BY <2>2, <1>2, SubSeqProperties
  <2>4. /\ Len(SubSeq(p, 1, Len(b))) = Len(b)
        /\ \A i \in 1..Len(b) : SubSeq(p, 1, Len(b))[i] = b[i]
    BY <2>3, <1>1, <1>2
  <2> QED  BY <2>1, <2>3, <2>4, SeqEqual DEF Octets
<1>6. pkcs7Unpad(p) = [ok |-> TRUE, out |-> SubSeq(p, 1, Len(p) - p[Len(p)])]
  BY <1>1, <1>3, <1>4 DEF pkcs7Unpad
<1> QED  BY <1>3, <1>5, <1>6 DEF p

(***************************************************************************)
(* pkcs7Unpad accepts nothing but padded strings: what it accepts is what  *)
(* pkcs7Pad makes of what it returns, so no two padded strings unpad alike *)
(* (the check of the whole pad, and of blockSize).                         *)
(***************************************************************************)
THEOREM PadInvertsUnpad ==
    ASSUME NEW b \in Octets, pkcs7Unpad(b).ok
    PROVE  /\ pkcs7Unpad(b).out \in Octets
           /\ pkcs7Pad(pkcs7Unpad(b).out) = b
<1> DEFINE n == b[Len(b)]
           x == SubSeq(b, 1, Len(b) - n)
<1>1. /\ Len(b) # 0 /\ Len(b) % BlockSize = 0 /\ n # 0 /\ n <= BlockSize /\ n <= Len(b)
      /\ \A i \in (Len(b) - n + 1)..Len(b) : b[i] = n
      /\ pkcs7Unpad(b).out = x
  BY DEF pkcs7Unpad
<1>2. /\ Len(b) \in Nat /\ BlockSize \in Nat \ {0}
      /\ \A i \in 1..Len(b) : b[i] \in Octet /\ b[i] \in Nat
  BY CBCHMACAssumption, LenProperties, ElementOfSeq DEF Octets
<1>3. n \in 1..BlockSize /\ Len(b) - n \in Nat
  BY <1>1, <1>2
<1> HIDE DEF n
<1>4. x \in Octets /\ Len(x) = Len(b) - n /\ \A i \in 1..(Len(b) - n) : x[i] = b[i]
  <2>1. \A i \in 1..(Len(b) - n) : b[i] \in Octet
    BY <1>2, <1>3
  <2>2. /\ x \in Seq(Octet)
        /\ Len(x) = IF 1 <= Len(b) - n THEN Len(b) - n - 1 + 1 ELSE 0
        /\ \A i \in 1..(Len(b) - n - 1 + 1) : x[i] = b[1 + i - 1]
    BY <2>1, <1>2, <1>3, SubSeqProperties
  <2> QED  BY <2>2, <1>2, <1>3 DEF Octets
<1> HIDE DEF x
<1>5. PadLen(x) = n
  <2>1. PadLen(x) \in 1..BlockSize /\ (Len(x) + PadLen(x)) % BlockSize = 0
    BY <1>4, PadProperties
  <2>2. \A m \in Nat, s, t \in 1..BlockSize :
           (m + s) % BlockSize = 0 /\ (m + t) % BlockSize = 0 => s = t
    BY <1>2, SameResidue
  <2>3. (Len(x) + n) % BlockSize = 0
    BY <1>1, <1>2, <1>3, <1>4
  <2> QED  BY <2>1, <2>2, <2>3, <1>3, <1>4, <1>2
<1>6. /\ pkcs7Pad(x) \in Octets
      /\ Len(pkcs7Pad(x)) = Len(b)
      /\ \A i \in 1..(Len(b) - n) : pkcs7Pad(x)[i] = b[i]
      /\ \A i \in (Len(b) - n + 1)..Len(b) : pkcs7Pad(x)[i] = b[i]
  <2>1. /\ pkcs7Pad(x) \in Octets
        /\ Len(pkcs7Pad(x)) = Len(x) + n
        /\ \A i \in 1..Len(x) : pkcs7Pad(x)[i] = x[i]
        /\ \A i \in (Len(x) + 1)..(Len(x) + n) : pkcs7Pad(x)[i] = n
    BY <1>4, <1>5, PadProperties
  <2>2. Len(x) + n = Len(b)
    BY <1>2, <1>3, <1>4
  <2> QED  BY <2>1, <2>2, <1>1, <1>4
<1>7. \A i \in 1..Len(pkcs7Pad(x)) : pkcs7Pad(x)[i] = b[i]
  BY <1>6, <1>2, <1>3
<1>8. pkcs7Pad(x) = b
  BY <1>6, <1>7, SeqEqual DEF Octets
<1> QED  BY <1>1, <1>4, <1>8

-----------------------------------------------------------------------------
(* Tags.                                                                   *)

\* Joined octet strings come apart in one way: by the length of the first,
LEMMA SplitLeft ==
    ASSUME NEW a \in Octets, NEW x \in Octets, NEW b \in Octets, NEW y \in Octets,
           Len(a) = Len(b), a \o x = b \o y
    PROVE  a = b /\ x = y
<1>1. /\ a \in Seq(Octet) /\ x \in Seq(Octet) /\ b \in Seq(Octet) /\ y \in Seq(Octet)
      /\ Len(a) \in Nat /\ Len(x) \in Nat /\ Len(y) \in Nat
  BY LenProperties DEF Octets
<1>2. ASSUME NEW i \in 1..Len(a) PROVE a[i] = (a \o x)[i] /\ b[i] = (b \o y)[i]
  BY <1>1, ConcatProperties
<1>3. a = b
  BY <1>1, <1>2, SeqEqual
<1> QED BY <1>1, <1>3, ConcatSimplifications

\* and by the length of the last.
LEMMA SplitRight ==
    ASSUME NEW a \in Octets, NEW x \in Octets, NEW b \in Octets, NEW y \in Octets,
           Len(x) = Len(y), a \o x = b \o y
    PROVE  a = b /\ x = y
<1>1. Len(a) \in Nat /\ Len(b) \in Nat /\ Len(x) \in Nat
  BY LenProperties DEF Octets
<1>2. Len(a \o x) = Len(a) + Len(x) /\ Len(b \o y) = Len(b) + Len(y)
  BY ConcatProperties DEF Octets
<1>3. Len(a) = Len(b)
  BY <1>1, <1>2
<1> QED BY <1>3, SplitLeft

SameParts(k, v, c, a, l, w, d, b) == k = l /\ v = w /\ c = d /\ a = b

\* The octets under a tag tell AAD, IV and ciphertext apart: AL has a fixed
\* length and fixes that of the AAD, and the IV is a block (cbcTag).
LEMMA TagSeparates ==
    ASSUME NEW k \in Octets, NEW v \in Octets, NEW c \in Octets, NEW a \in Octets,
           NEW l \in Octets, NEW w \in Octets, NEW d \in Octets, NEW b \in Octets,
           Len(v) = Len(w), Len(a) <= MaxLen, Len(b) <= MaxLen,
           cbcTag(k, v, c, a) = cbcTag(l, w, d, b)
    PROVE  SameParts(k, v, c, a, l, w, d, b)
<1>1. /\ Len(a) \in 0..MaxLen /\ Len(b) \in 0..MaxLen
      /\ Len(v) \in Nat /\ Len(w) \in Nat
  BY CBCHMACAssumption, LenProperties DEF Octets
<1>2. /\ cbcAL(a) \in Octets /\ cbcAL(b) \in Octets
      /\ Len(cbcAL(a)) = 8 /\ Len(cbcAL(b)) = 8
      /\ cbcAL(a) = cbcAL(b) => Len(a) = Len(b)
  BY <1>1, Uint64Assumption DEF cbcAL
<1>3. /\ a \o v \in Octets /\ b \o w \in Octets
      /\ Len(a \o v) = Len(a) + Len(v) /\ Len(b \o w) = Len(b) + Len(w)
  BY ConcatProperties DEF Octets
<1>4. (a \o v) \o c \in Octets /\ (b \o w) \o d \in Octets
  BY <1>3, ConcatProperties DEF Octets
<1>5. k = l /\ ((a \o v) \o c) \o cbcAL(a) = ((b \o w) \o d) \o cbcAL(b)
  BY DEF cbcTag
<1>6. (a \o v) \o c = (b \o w) \o d /\ cbcAL(a) = cbcAL(b)
  <2>1. \A p, q \in Octets : p \o cbcAL(a) = q \o cbcAL(b) => p = q /\ cbcAL(a) = cbcAL(b)
    <3>1. Len(cbcAL(a)) = Len(cbcAL(b))
      BY <1>2
    <3> QED  BY <1>2, <3>1, SplitRight, Zenon
  <2> DEFINE p == (a \o v) \o c
             q == (b \o w) \o d
  <2>2. p \in Octets /\ q \in Octets /\ p \o cbcAL(a) = q \o cbcAL(b)
    BY <1>4, <1>5
  <2> HIDE DEF p, q
  <2>3. p = q /\ cbcAL(a) = cbcAL(b)
    BY <2>1, <2>2, Zenon
  <2> QED  BY <2>3 DEF p, q
<1>7. Len(a \o v) = Len(b \o w)
  BY <1>1, <1>2, <1>3, <1>6
<1>8. a \o v = b \o w /\ c = d
  <2> DEFINE p == a \o v
             q == b \o w
  <2>1. p \in Octets /\ q \in Octets /\ Len(p) = Len(q) /\ p \o c = q \o d
    BY <1>3, <1>6, <1>7
  <2> HIDE DEF p, q
  <2>2. p = q /\ c = d
    BY <2>1, SplitLeft
  <2> QED  BY <2>2 DEF p, q
<1>9. a = b /\ v = w
  BY <1>2, <1>6, <1>8, SplitLeft
<1> QED  BY <1>5, <1>8, <1>9 DEF SameParts
-----------------------------------------------------------------------------
(* The calls.                                                              *)

\* What holds of the message encryptCBCHMAC makes.
SealOf(cek, x, m) ==
    /\ m \in Messages /\ Len(m.aad) <= MaxLen
    /\ Len(m.iv) = BlockSize
    /\ Len(m.ciphertext) # 0 /\ Len(m.ciphertext) % BlockSize = 0
    /\ m.tag = cbcTag(macKey(cek), m.iv, m.ciphertext, m.aad)
    /\ CBCDecrypt(encKey(cek), m.iv, m.ciphertext) = pkcs7Pad(x)
    /\ \A other \in Cek : CBCDecrypt(encKey(other), m.iv, m.ciphertext) \in Octets

\* Both halves of a key are octet strings (cbcSplit).
LEMMA HalvesType ==
    ASSUME NEW cek \in Cek
    PROVE  macKey(cek) \in Octets /\ encKey(cek) \in Octets
<1>1. cek \in Seq(Octet) /\ Len(cek) \in Nat
  BY CBCHMACAssumption, LenProperties DEF Octets
<1>2. \A i \in 1..Len(cek) : cek[i] \in Octet
  BY <1>1, ElementOfSeq
<1>3. Len(cek) \div 2 \in 0..Len(cek)
  BY <1>1
<1>4. macKey(cek) \in Seq(Octet)
  BY <1>1, <1>2, <1>3, SubSeqProperties DEF macKey
<1>5. encKey(cek) \in Seq(Octet)
  BY <1>1, <1>2, <1>3, SubSeqProperties DEF encKey
<1> QED  BY <1>4, <1>5 DEF Octets

\* A tag is a key and the octets it covers (cbcTag).
LEMMA TagType ==
    ASSUME NEW k \in Octets, NEW v \in Octets, NEW c \in Octets, NEW a \in Octets,
           Len(a) <= MaxLen
    PROVE  cbcTag(k, v, c, a) \in Tags /\ cbcTag(k, v, c, a) # NoTag
<1>1. Len(a) \in 0..MaxLen
  BY CBCHMACAssumption, LenProperties DEF Octets
<1>2. cbcAL(a) \in Octets /\ Len(cbcAL(a)) = 8
  BY <1>1, Uint64Assumption DEF cbcAL
<1> DEFINE p == (a \o v) \o c
<1>3. p \in Octets
  BY ConcatProperties DEF Octets
<1>4. cbcTag(k, v, c, a) = [key |-> k, over |-> p \o cbcAL(a)]
  BY DEF cbcTag
<1> DEFINE f == cbcAL(a)
<1>21. f \in Octets /\ Len(f) = 8
  BY <1>2
<1> HIDE DEF p, f
<1>41. p \in Seq(Octet) /\ f \in Seq(Octet) /\ Len(p) \in Nat
  BY <1>21, <1>3, LenProperties DEF Octets
<1>42. p \o f \in Seq(Octet) /\ Len(p \o f) = Len(p) + Len(f)
  BY <1>41, ConcatProperties
<1>5. p \o f \in Octets /\ Len(p \o f) = Len(p) + 8 /\ Len(p) \in Nat
  BY <1>21, <1>41, <1>42 DEF Octets
<1>6. p \o f # <<>>
  BY <1>5
<1> QED  BY <1>4, <1>5, <1>6 DEF Tags, NoTag, f

\* encryptCBCHMAC.
LEMMA EncryptMakesSeal ==
    ASSUME NEW cek \in Cek, NEW x \in Plaintext, NEW aad \in AAD, NEW iv \in Random
    PROVE  SealOf(cek, x, encryptCBCHMAC(cek, x, aad, iv))
<1> DEFINE p == pkcs7Pad(x)
           c == CBCEncrypt(encKey(cek), iv, p)
           t == cbcTag(macKey(cek), iv, c, aad)
<1>1. /\ x \in Octets /\ Len(x) \in Nat /\ aad \in Octets /\ Len(aad) <= MaxLen
      /\ iv \in Octets /\ Len(iv) = BlockSize
  BY CBCHMACAssumption, LenProperties DEF Octets
<1>2. Len(p) # 0 /\ Len(p) % BlockSize = 0
  <2>1. Len(p) = Len(x) + PadLen(x) /\ PadLen(x) \in 1..BlockSize /\ Len(p) % BlockSize = 0
    BY <1>1, PadProperties
  <2> QED  BY <2>1, <1>1, CBCHMACAssumption
<1>3. /\ c \in Octets /\ Len(c) = Len(p) /\ CBCDecrypt(encKey(cek), iv, c) = p
      /\ \A other \in Cek : CBCDecrypt(encKey(other), iv, c) \in Octets
  BY CBCAssumption
<1>4. t \in Tags
  BY <1>1, <1>3, HalvesType, TagType
<1>5. encryptCBCHMAC(cek, x, aad, iv) = [aad |-> aad, iv |-> iv, ciphertext |-> c, tag |-> t]
  BY DEF encryptCBCHMAC, message
<1> DEFINE m == [aad |-> aad, iv |-> iv, ciphertext |-> c, tag |-> t]
<1>6. m.aad = aad /\ m.iv = iv /\ m.ciphertext = c /\ m.tag = t
  OBVIOUS
<1>7. m \in Messages
  BY <1>1, <1>3, <1>4 DEF Messages
<1>8. /\ Len(m.aad) <= MaxLen /\ Len(m.iv) = BlockSize
      /\ Len(m.ciphertext) # 0 /\ Len(m.ciphertext) % BlockSize = 0
  BY <1>1, <1>2, <1>3, <1>6
<1>9. /\ m.tag = cbcTag(macKey(cek), m.iv, m.ciphertext, m.aad)
      /\ CBCDecrypt(encKey(cek), m.iv, m.ciphertext) = pkcs7Pad(x)
      /\ \A other \in Cek : CBCDecrypt(encKey(other), m.iv, m.ciphertext) \in Octets
  BY <1>3, <1>6
<1> HIDE DEF m
<1>10. SealOf(cek, x, m)
  BY <1>7, <1>8, <1>9 DEF SealOf
<1> QED  BY <1>5, <1>10 DEF m

\* What decryptCBCHMAC returns on each path.
LEMMA DecryptOutcome ==
    ASSUME NEW cek, NEW m
    PROVE  \/ decryptCBCHMAC(cek, m) = [err |-> "ErrDecryptFailed", cek |-> cek, out |-> <<>>]
           \/ /\ Len(m.iv) = BlockSize
              /\ m.tag = cbcTag(macKey(cek), m.iv, m.ciphertext, m.aad)
              /\ pkcs7Unpad(CBCDecrypt(encKey(cek), m.iv, m.ciphertext)).ok
              /\ decryptCBCHMAC(cek, m) =
                    [err |-> "nil", cek |-> cek,
                     out |-> pkcs7Unpad(CBCDecrypt(encKey(cek), m.iv, m.ciphertext)).out]
  BY DEF decryptCBCHMAC

\* A message one key verifies was made with that MAC key as it is.
LEMMA AcceptedIsMade ==
    ASSUME NEW cek \in Cek, NEW m \in Messages, Len(m.aad) <= MaxLen, Len(m.iv) = BlockSize,
           NEW sk \in Cek, NEW x, NEW made, SealOf(sk, x, made),
           m.tag = made.tag,
           m.tag = cbcTag(macKey(cek), m.iv, m.ciphertext, m.aad)
    PROVE  m = made /\ macKey(cek) = macKey(sk)
<1>1. /\ m.aad \in Octets /\ m.iv \in Octets /\ m.ciphertext \in Octets
      /\ made \in Messages
      /\ made.aad \in Octets /\ made.iv \in Octets /\ made.ciphertext \in Octets
      /\ Len(made.aad) <= MaxLen /\ Len(made.iv) = BlockSize
      /\ made.tag = cbcTag(macKey(sk), made.iv, made.ciphertext, made.aad)
  BY DEF SealOf, Messages
<1>2. /\ macKey(cek) = macKey(sk) /\ m.iv = made.iv
      /\ m.ciphertext = made.ciphertext /\ m.aad = made.aad
  <2> DEFINE k1 == macKey(cek)
             k2 == macKey(sk)
             v1 == m.iv
             v2 == made.iv
             c1 == m.ciphertext
             c2 == made.ciphertext
             a1 == m.aad
             a2 == made.aad
  <2>1. /\ k1 \in Octets /\ k2 \in Octets /\ v1 \in Octets /\ v2 \in Octets
        /\ c1 \in Octets /\ c2 \in Octets /\ a1 \in Octets /\ a2 \in Octets
    BY <1>1, HalvesType
  <2>2. Len(v1) = Len(v2) /\ Len(a1) <= MaxLen /\ Len(a2) <= MaxLen
    BY <1>1
  <2>3. cbcTag(k1, v1, c1, a1) = cbcTag(k2, v2, c2, a2)
    BY <1>1
  <2> HIDE DEF k1, k2, v1, v2, c1, c2, a1, a2
  <2>4. SameParts(k1, v1, c1, a1, k2, v2, c2, a2)
    BY <2>1, <2>2, <2>3, TagSeparates
  <2> QED  BY <2>4 DEF SameParts, k1, k2, v1, v2, c1, c2, a1, a2
<1>3. m = made
  BY <1>1, <1>2 DEF Messages
<1> QED  BY <1>2, <1>3
-----------------------------------------------------------------------------
(* The invariant.                                                          *)

\* Every recorded encryption made what SealOf says (Encrypt).
LEMMA SealedIsSeal ==
    ASSUME IInv, NEW s \in sealed
    PROVE  /\ s.cek \in Cek /\ s.plaintext \in Plaintext /\ s.made \in Messages
           /\ SealOf(s.cek, s.plaintext, s.made)
<1>1. s.cek \in Cek /\ s.plaintext \in Plaintext /\ s.made \in Messages
  BY DEF IInv, TypeOK
<1>2. PICK aad \in AAD : \E iv \in Random :
         s.made = encryptCBCHMAC(s.cek, s.plaintext, aad, iv)
  BY DEF IInv, Made
<1>3. PICK iv \in Random : s.made = encryptCBCHMAC(s.cek, s.plaintext, aad, iv)
  BY <1>2
<1>4. SealOf(s.cek, s.plaintext, encryptCBCHMAC(s.cek, s.plaintext, aad, iv))
  BY <1>1, EncryptMakesSeal
<1> QED  BY <1>1, <1>3, <1>4

\* What one key verifies is one of the sealed messages, with its MAC key.
LEMMA VerifiedIsSealed ==
    ASSUME IInv, NEW cek \in Cek, Len(wire.iv) = BlockSize,
           wire.tag = cbcTag(macKey(cek), wire.iv, wire.ciphertext, wire.aad)
    PROVE  \E s \in sealed : wire = s.made /\ macKey(cek) = macKey(s.cek)
<1>1. wire \in Messages /\ Len(wire.aad) <= MaxLen
  BY DEF IInv, TypeOK
<1>2. wire.tag # NoTag
  <2>1. wire.iv \in Octets /\ wire.ciphertext \in Octets /\ wire.aad \in Octets
    BY <1>1 DEF Messages
  <2> DEFINE k == macKey(cek)
             v == wire.iv
             c == wire.ciphertext
             a == wire.aad
  <2>2. k \in Octets /\ v \in Octets /\ c \in Octets /\ a \in Octets /\ Len(a) <= MaxLen
    BY <1>1, <2>1, HalvesType
  <2>3. wire.tag = cbcTag(k, v, c, a)
    OBVIOUS
  <2> HIDE DEF k, v, c, a
  <2> QED  BY <2>2, <2>3, TagType
<1>3. PICK s \in sealed : wire.tag = s.made.tag
  BY <1>2 DEF IInv
<1>4. s.cek \in Cek /\ SealOf(s.cek, s.plaintext, s.made)
  BY SealedIsSeal
<1> DEFINE m == wire
           sk == s.cek
           x == s.plaintext
           made == s.made
<1>5. m \in Messages /\ sk \in Cek /\ SealOf(sk, x, made) /\ m.tag = made.tag
      /\ Len(m.aad) <= MaxLen /\ Len(m.iv) = BlockSize
      /\ m.tag = cbcTag(macKey(cek), m.iv, m.ciphertext, m.aad)
  BY <1>1, <1>3, <1>4
<1> HIDE DEF m, sk, x, made
<1>6. m = made /\ macKey(cek) = macKey(sk)
  BY <1>5, AcceptedIsMade
<1> QED  BY <1>6 DEF m, sk, made

\* A result is typed whatever the message on the wire was.
LEMMA DecryptType ==
    ASSUME IInv, NEW cek \in Cek
    PROVE  decryptCBCHMAC(cek, wire) \in
               [err : {"none", "nil", "ErrDecryptFailed"}, cek : Octets, out : Octets]
<1> DEFINE p == CBCDecrypt(encKey(cek), wire.iv, wire.ciphertext)
<1>1. cek \in Octets /\ <<>> \in Octets
  BY CBCHMACAssumption DEF Octets
<1>2. CASE decryptCBCHMAC(cek, wire) = [err |-> "ErrDecryptFailed", cek |-> cek, out |-> <<>>]
  BY <1>1, <1>2
<1>3. CASE /\ Len(wire.iv) = BlockSize
           /\ wire.tag = cbcTag(macKey(cek), wire.iv, wire.ciphertext, wire.aad)
           /\ pkcs7Unpad(p).ok
           /\ decryptCBCHMAC(cek, wire) = [err |-> "nil", cek |-> cek, out |-> pkcs7Unpad(p).out]
  <2>1. PICK s \in sealed : wire = s.made
    BY <1>3, VerifiedIsSealed
  <2>2. SealOf(s.cek, s.plaintext, s.made)
    BY SealedIsSeal
  <2>3. p \in Octets
    BY <2>1, <2>2 DEF SealOf
  <2> HIDE DEF p
  <2>4. pkcs7Unpad(p).out \in Octets
    BY <1>3, <2>3, PadInvertsUnpad
  <2> QED  BY <1>1, <1>3, <2>4
<1> QED  BY <1>2, <1>3, DecryptOutcome

LEMMA InitIInv == Init => IInv
<1> SUFFICES ASSUME Init PROVE IInv
  OBVIOUS
<1> USE DEF Init
<1>1. NoMessage \in Messages /\ NoMessage.aad = <<>> /\ NoMessage.tag = NoTag
  BY DEF NoMessage, message, Messages, NoTag, Tags, Octets
<1>2. NoResult \in [err : {"none", "nil", "ErrDecryptFailed"}, cek : Octets, out : Octets]
      /\ NoResult.err = "none"
  BY DEF NoResult, Octets
<1>3. TypeOK
  BY <1>1, <1>2, CBCHMACAssumption DEF TypeOK
<1> QED  BY <1>1, <1>2, <1>3 DEF IInv

\* One encryption.
LEMMA EncryptIInv == ASSUME IInv, Encrypt PROVE IInv'
<1>1. PICK cek \in Cek, x \in Plaintext, aad \in AAD, iv \in Random :
         /\ wire' = encryptCBCHMAC(cek, x, aad, iv) /\ edits' = 0
         /\ sealed' = sealed \cup
               {[cek |-> cek, plaintext |-> x, made |-> encryptCBCHMAC(cek, x, aad, iv)]}
         /\ result' = NoResult
  BY DEF Encrypt
<1> DEFINE m == encryptCBCHMAC(cek, x, aad, iv)
           new == [cek |-> cek, plaintext |-> x, made |-> m]
<1>2. SealOf(cek, x, m)
  BY EncryptMakesSeal
<1>3. new.cek = cek /\ new.plaintext = x /\ new.made = m /\ new \in sealed'
  BY <1>1
<1>4. m \in Messages /\ Len(m.aad) <= MaxLen
      /\ Len(m.ciphertext) # 0 /\ Len(m.ciphertext) % BlockSize = 0
  BY <1>2 DEF SealOf
<1>5. Made(new)
  BY <1>3, <1>4 DEF Made
<1>6. NoResult \in [err : {"none", "nil", "ErrDecryptFailed"}, cek : Octets, out : Octets]
      /\ NoResult.err = "none"
  BY DEF NoResult, Octets
<1>7. new \in [cek : Cek, plaintext : Plaintext, made : Messages]
  BY <1>4
<1>8. wire' = m /\ sealed' = sealed \cup {new}
  BY <1>1
<1> HIDE DEF m, new
<1>9. TypeOK'
  BY <1>1, <1>4, <1>6, <1>7, <1>8, CBCHMACAssumption DEF IInv, TypeOK
<1>10. \A s \in sealed' : Made(s)
  BY <1>5, <1>8 DEF IInv
<1>11. \E s \in sealed' : wire'.tag = s.made.tag
  BY <1>3, <1>8
<1> QED  BY <1>1, <1>6, <1>9, <1>10, <1>11 DEF IInv, Made

\* A message changed on its way, its tag one of those computed.
LEMMA TransitIInv ==
    ASSUME IInv, NEW m \in Messages, Transit(m),
           m.tag = NoTag \/ \E s \in sealed : m.tag = s.made.tag
    PROVE  IInv'
<1>1. /\ wire' = m /\ edits' = edits + 1 /\ edits < MaxEdits /\ Len(m.aad) <= MaxLen
      /\ result' = NoResult /\ sealed' = sealed
  BY DEF Transit
<1>2. NoResult \in [err : {"none", "nil", "ErrDecryptFailed"}, cek : Octets, out : Octets]
      /\ NoResult.err = "none"
  BY DEF NoResult, Octets
<1>3. TypeOK'
  BY <1>1, <1>2, CBCHMACAssumption DEF IInv, TypeOK
<1> QED  BY <1>1, <1>2, <1>3 DEF IInv, Made

LEMMA ResplitIInv == ASSUME IInv, Resplit PROVE IInv'
<1> DEFINE all == wire.aad \o wire.iv \o wire.ciphertext
<1>1. /\ wire.aad \in Seq(Octet) /\ wire.iv \in Seq(Octet) /\ wire.ciphertext \in Seq(Octet)
      /\ wire.tag \in Tags
  BY DEF IInv, TypeOK, Messages, Octets
<1>2. all \in Seq(Octet)
  BY <1>1, ConcatProperties
<1>3. PICK i \in 0..Len(all) : \E j \in i..Len(all) :
         Transit(message(SubSeq(all, 1, i), SubSeq(all, i + 1, j),
                         SubSeq(all, j + 1, Len(all)), wire.tag))
  BY DEF Resplit
<1>4. PICK j \in i..Len(all) :
         Transit(message(SubSeq(all, 1, i), SubSeq(all, i + 1, j),
                         SubSeq(all, j + 1, Len(all)), wire.tag))
  BY <1>3
<1> HIDE DEF all
<1>5. Len(all) \in Nat /\ \A n \in 1..Len(all) : all[n] \in Octet
  BY <1>2, LenProperties, ElementOfSeq
<1>6. SubSeq(all, 1, i) \in Octets
  BY <1>5, SubSeqProperties DEF Octets
<1>7. SubSeq(all, i + 1, j) \in Octets
  BY <1>5, SubSeqProperties DEF Octets
<1>8. SubSeq(all, j + 1, Len(all)) \in Octets
  BY <1>5, SubSeqProperties DEF Octets
<1> DEFINE m == message(SubSeq(all, 1, i), SubSeq(all, i + 1, j),
                        SubSeq(all, j + 1, Len(all)), wire.tag)
<1>9. m \in Messages /\ m.tag = wire.tag /\ Transit(m)
  BY <1>1, <1>4, <1>6, <1>7, <1>8 DEF message, Messages
<1>10. wire.tag = NoTag \/ \E s \in sealed : wire.tag = s.made.tag
  BY DEF IInv
<1> HIDE DEF m
<1> QED  BY <1>9, <1>10, TransitIInv

LEMMA ReplaceIInv == ASSUME IInv, Replace PROVE IInv'
<1>1. PICK o \in {s.made : s \in sealed} \cup {NoMessage} :
         \/ Transit([wire EXCEPT !.aad = o.aad])
         \/ Transit([wire EXCEPT !.iv = o.iv])
         \/ Transit([wire EXCEPT !.ciphertext = o.ciphertext])
         \/ Transit([wire EXCEPT !.tag = o.tag])
  BY DEF Replace
<1>2. wire \in Messages /\ (wire.tag = NoTag \/ \E s \in sealed : wire.tag = s.made.tag)
  BY DEF IInv, TypeOK
<1>3. o \in Messages /\ (o.tag = NoTag \/ \E s \in sealed : o.tag = s.made.tag)
  <2>1. CASE o = NoMessage
    <3>1. NoMessage \in Messages /\ NoMessage.tag = NoTag
      BY DEF NoMessage, message, Messages, NoTag, Tags, Octets
    <3> QED  BY <2>1, <3>1
  <2>2. CASE o \in {s.made : s \in sealed}
    BY <2>2 DEF IInv, TypeOK
  <2> QED  BY <2>1, <2>2
<1>4. CASE Transit([wire EXCEPT !.aad = o.aad])
  <2> DEFINE m == [wire EXCEPT !.aad = o.aad]
  <2>1. m \in Messages /\ m.tag = wire.tag /\ Transit(m)
    BY <1>2, <1>3, <1>4 DEF Messages
  <2> HIDE DEF m
  <2> QED  BY <1>2, <2>1, TransitIInv
<1>5. CASE Transit([wire EXCEPT !.iv = o.iv])
  <2> DEFINE m == [wire EXCEPT !.iv = o.iv]
  <2>1. m \in Messages /\ m.tag = wire.tag /\ Transit(m)
    BY <1>2, <1>3, <1>5 DEF Messages
  <2> HIDE DEF m
  <2> QED  BY <1>2, <2>1, TransitIInv
<1>6. CASE Transit([wire EXCEPT !.ciphertext = o.ciphertext])
  <2> DEFINE m == [wire EXCEPT !.ciphertext = o.ciphertext]
  <2>1. m \in Messages /\ m.tag = wire.tag /\ Transit(m)
    BY <1>2, <1>3, <1>6 DEF Messages
  <2> HIDE DEF m
  <2> QED  BY <1>2, <2>1, TransitIInv
<1>7. CASE Transit([wire EXCEPT !.tag = o.tag])
  <2> DEFINE m == [wire EXCEPT !.tag = o.tag]
  <2>1. m \in Messages /\ m.tag = o.tag /\ Transit(m)
    BY <1>2, <1>3, <1>7 DEF Messages
  <2> HIDE DEF m
  <2> QED  BY <1>3, <2>1, TransitIInv
<1> QED  BY <1>1, <1>4, <1>5, <1>6, <1>7

LEMMA DecryptIInv == ASSUME IInv, Decrypt PROVE IInv'
<1>1. PICK cek \in Cek : result' = decryptCBCHMAC(cek, wire)
  BY DEF Decrypt
<1>2. wire' = wire /\ edits' = edits /\ sealed' = sealed
  BY DEF Decrypt
<1>3. decryptCBCHMAC(cek, wire) \in
         [err : {"none", "nil", "ErrDecryptFailed"}, cek : Octets, out : Octets]
  BY DecryptType
<1>4. decryptCBCHMAC(cek, wire).cek = cek
  BY DecryptOutcome
<1>5. TypeOK'
  BY <1>1, <1>2, <1>3 DEF IInv, TypeOK
<1> QED  BY <1>1, <1>2, <1>4, <1>5 DEF IInv, Made

LEMMA StutterIInv == ASSUME IInv, UNCHANGED vars PROVE IInv'
  BY DEF IInv, TypeOK, Made, vars

(***************************************************************************)
(* IInv is an invariant of the specification: every tag in circulation is  *)
(* one that encryptCBCHMAC computed, whatever was done to the messages.    *)
(***************************************************************************)
THEOREM IInvInvariant == Spec => []IInv
<1>1. Init => IInv
  BY InitIInv
<1>2. IInv /\ [Next]_vars => IInv'
  BY EncryptIInv, ResplitIInv, ReplaceIInv, DecryptIInv, StutterIInv DEF Next
<1> QED  BY <1>1, <1>2, PTL DEF Spec

(***************************************************************************)
(* Only whole messages that encryptCBCHMAC made are decrypted, for every   *)
(* block size, additional data of any bounded length and any division of   *)
(* the octets.                                                             *)
(***************************************************************************)
THEOREM BoundInvariant == Spec => []Bound
<1>1. IInv => Bound
  <2> SUFFICES ASSUME IInv, result.err = "nil"
               PROVE  \E s \in sealed : wire = s.made /\ macKey(result.cek) = macKey(s.cek)
    BY DEF Bound
  <2>1. result.cek \in Cek /\ result = decryptCBCHMAC(result.cek, wire)
    BY DEF IInv
  <2> DEFINE cek == result.cek
  <2>2. cek \in Cek /\ decryptCBCHMAC(cek, wire).err = "nil"
    BY <2>1
  <2> HIDE DEF cek
  <2>3. /\ Len(wire.iv) = BlockSize
        /\ wire.tag = cbcTag(macKey(cek), wire.iv, wire.ciphertext, wire.aad)
    BY <2>2, DecryptOutcome
  <2>4. \E s \in sealed : wire = s.made /\ macKey(cek) = macKey(s.cek)
    BY <2>2, <2>3, VerifiedIsSealed
  <2> QED  BY <2>4 DEF cek
<1> QED  BY <1>1, IInvInvariant, PTL

(***************************************************************************)
(* The key a message was encrypted with always gives back its plaintext,   *)
(* for plaintexts of every length (encryptCBCHMAC, decryptCBCHMAC).        *)
(***************************************************************************)
THEOREM RoundTripInvariant == Spec => []RoundTrip
<1>1. IInv => RoundTrip
  <2> SUFFICES ASSUME IInv, NEW s \in sealed, wire = s.made, result.err # "none",
                      result.cek = s.cek
               PROVE  result.err = "nil" /\ result.out = s.plaintext
    BY DEF RoundTrip
  <2>1. s.cek \in Cek /\ s.plaintext \in Plaintext /\ SealOf(s.cek, s.plaintext, s.made)
    BY SealedIsSeal
  <2>2. result = decryptCBCHMAC(s.cek, s.made)
    BY DEF IInv
  <2> DEFINE x == s.plaintext
  <2>3. x \in Octets
    BY <2>1, CBCHMACAssumption
  <2> HIDE DEF x
  <2>4. pkcs7Unpad(pkcs7Pad(x)) = [ok |-> TRUE, out |-> x]
    BY <2>3, UnpadInvertsPad
  <2>5. decryptCBCHMAC(s.cek, s.made) = [err |-> "nil", cek |-> s.cek, out |-> s.plaintext]
    BY <2>1, <2>4 DEF decryptCBCHMAC, SealOf, x
  <2> QED  BY <2>2, <2>5
<1> QED  BY <1>1, IInvInvariant, PTL
=============================================================================

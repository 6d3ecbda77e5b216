---------------------------- MODULE KeyWrapProofs ----------------------------
(***************************************************************************)
(* Proofs that AESKeyUnwrap and AESKeyWrap invert each other, for every    *)
(* key, every word, every permutation AES may be and every length.         *)
(***************************************************************************)
EXTENDS KeyWrapProperties, SequenceTheorems, TLAPS

-----------------------------------------------------------------------------
(* Places in the loops.                                                    *)

\* The loops stay among the places.
LEMMA PlacesType ==
    ASSUME NEW n \in 2..MaxWords, NEW b \in BlocksOf(n)
    PROVE  /\ b \in Places /\ Top \in Places /\ <<0, 1>> \in Places
           /\ After(b, n) \in Places
           /\ After(b, n) \in BlocksOf(n) \cup {Top}
           /\ Before(b, n) \in BlocksOf(n) \cup {<<-1, n>>}
           /\ After(Before(b, n), n) = b
BY KeyWrapAssumption DEF Places, Top, BlocksOf, After, Before

\* Going round the loop passes exactly the block at hand...
LEMMA AfterOrder ==
    ASSUME NEW n \in 2..MaxWords, NEW b \in BlocksOf(n), NEW p \in BlocksOf(n)
    PROVE  Below(b, After(p, n)) <=> Below(b, p) \/ b = p
BY KeyWrapAssumption DEF BlocksOf, After, Below

\* ... and overwrites nothing that was recorded for the blocks passed before.
LEMMA AfterApart ==
    ASSUME NEW n \in 2..MaxWords, NEW b \in BlocksOf(n), NEW p \in BlocksOf(n)
    PROVE  /\ b # After(b, n)
           /\ Below(b, p) => b # p /\ b # After(p, n) /\ After(b, n) # After(p, n)
           /\ ~Below(b, After(p, n)) => b # p /\ After(b, n) # p
BY KeyWrapAssumption DEF BlocksOf, After, Below

\* The first place has no block below it, and the last none above.
LEMMA Ends ==
    ASSUME NEW n \in 2..MaxWords, NEW b \in BlocksOf(n)
    PROVE  /\ ~Below(b, <<0, 1>>) /\ Below(b, Top)
           /\ After(<<5, n>>, n) = Top /\ After(<<-1, n>>, n) = <<0, 1>>
BY KeyWrapAssumption DEF BlocksOf, After, Below, Top

-----------------------------------------------------------------------------
(* Blocks.                                                                 *)

\* The counter of a block is one the constants are about.
LEMMA CounterType ==
    ASSUME NEW n \in 2..MaxWords, NEW b \in BlocksOf(n)
    PROVE  counter(n, b[1], b[2]) \in Counters
<1>1. b[1] \in 0..5 /\ b[2] \in 1..MaxWords
  BY KeyWrapAssumption DEF BlocksOf
<1> QED BY <1>1 DEF Counters

\* Replacing a word keeps a key a key, and putting it back undoes it.
LEMMA Replace ==
    ASSUME NEW q \in Seq(Word), NEW i \in 1..Len(q), NEW x \in Word
    PROVE  /\ [q EXCEPT ![i] = x] \in Seq(Word)
           /\ Len([q EXCEPT ![i] = x]) = Len(q)
           /\ [q EXCEPT ![i] = x][i] = x
           /\ [[q EXCEPT ![i] = x] EXCEPT ![i] = q[i]] = q
<1>1. /\ [q EXCEPT ![i] = x] \in Seq(Word) /\ Len([q EXCEPT ![i] = x]) = Len(q)
      /\ \A j \in 1..Len(q) : [q EXCEPT ![i] = x][j] = IF j = i THEN x ELSE q[j]
  BY ExceptSeq
<1> DEFINE p == [q EXCEPT ![i] = x]
<1>2. q[i] \in Word
  OBVIOUS
<1>3. /\ [p EXCEPT ![i] = q[i]] \in Seq(Word) /\ Len([p EXCEPT ![i] = q[i]]) = Len(q)
      /\ \A j \in 1..Len(q) : [p EXCEPT ![i] = q[i]][j] = q[j]
  <2> HIDE DEF p
  <2>1. /\ [p EXCEPT ![i] = q[i]] \in Seq(Word) /\ Len([p EXCEPT ![i] = q[i]]) = Len(p)
        /\ \A j \in 1..Len(p) : [p EXCEPT ![i] = q[i]][j] = IF j = i THEN q[i] ELSE p[j]
    BY <1>1, <1>2, ExceptSeq DEF p
  <2> QED BY <1>1, <2>1 DEF p
<1>4. [p EXCEPT ![i] = q[i]] = q
  <2> HIDE DEF p
  <2> QED BY <1>3, SeqEqual
<1> QED BY <1>1, <1>4

\* unwrapBlock takes back wrapBlock.
LEMMA WrapBlockInverse ==
    ASSUME NEW k \in ValidKek, NEW s \in Registers, NEW n \in 2..MaxWords,
           Len(s.r) = n, NEW b \in BlocksOf(n)
    PROVE  LET d == wrapBlock(k, s, b[1], b[2])
           IN  d \in Registers /\ Len(d.r) = n /\ unwrapBlock(k, d, b[1], b[2]) = s
<1> DEFINE i == b[2]
           t == counter(n, b[1], i)
           e == Enc[k][<<s.a, s.r[i]>>]
           w == wrapBlock(k, s, b[1], i)
<1>1. i \in 1..n /\ n \in Nat /\ n > 1 /\ t \in Counters
  BY CounterType, KeyWrapAssumption DEF BlocksOf
<1>2. s.a \in Word /\ s.r \in Seq(Word) /\ s.r[i] \in Word
  BY <1>1 DEF Registers
<1>3. e \in Word \X Word /\ Dec[k][e] = <<s.a, s.r[i]>>
  BY <1>2, KeyWrapAssumption
<1>4. e[1] \in Word /\ e[2] \in Word /\ e = <<e[1], e[2]>>
  <2>1. e \in Word \X Word
    BY <1>3
  <2> HIDE DEF e
  <2> QED BY <2>1
<1>5. w = [a |-> Xor(e[1], t), r |-> [s.r EXCEPT ![i] = e[2]]]
  BY DEF wrapBlock
<1>6. w.r \in Seq(Word) /\ Len(w.r) = n /\ w.r[i] = e[2] /\ w \in Registers
  <2>1. Xor(e[1], t) \in Word
    BY <1>1, <1>4, KeyWrapAssumption
  <2>2. [s.r EXCEPT ![i] = e[2]] \in Seq(Word) /\ Len([s.r EXCEPT ![i] = e[2]]) = n
        /\ [s.r EXCEPT ![i] = e[2]][i] = e[2]
    <3>1. i \in 1..Len(s.r) /\ e[2] \in Word /\ s.r \in Seq(Word)
      BY <1>1, <1>2, <1>4, SMTT(30)
    <3> HIDE DEF e, i
    <3> QED BY <3>1, Replace, SMTT(30)
  <2> QED BY <1>5, <2>1, <2>2 DEF Registers
<1>7. Xor(w.a, t) = e[1]
  BY <1>1, <1>4, <1>5, KeyWrapAssumption
<1>8. unwrapBlock(k, w, b[1], i) = [a |-> s.a, r |-> [w.r EXCEPT ![i] = s.r[i]]]
  <2>1. Xor(w.a, counter(Len(w.r), b[1], i)) = e[1]
    <3> HIDE DEF w, e
    <3> QED BY <1>6, <1>7
  <2> HIDE DEF w, e, t
  <2>2. Dec[k][<<Xor(w.a, counter(Len(w.r), b[1], i)), w.r[i]>>] = <<s.a, s.r[i]>>
    BY <1>3, <1>4, <1>6, <2>1
  <2> QED BY <2>2 DEF unwrapBlock
<1>9. [w.r EXCEPT ![i] = s.r[i]] = s.r
  BY <1>1, <1>2, <1>4, <1>5, Replace, SMTT(30)
<1> QED BY <1>6, <1>8, <1>9 DEF Registers

\* wrapBlock takes back unwrapBlock.
LEMMA UnwrapBlockInverse ==
    ASSUME NEW k \in ValidKek, NEW s \in Registers, NEW n \in 2..MaxWords,
           Len(s.r) = n, NEW b \in BlocksOf(n)
    PROVE  LET d == unwrapBlock(k, s, b[1], b[2])
           IN  d \in Registers /\ Len(d.r) = n /\ wrapBlock(k, d, b[1], b[2]) = s
<1> DEFINE i == b[2]
           t == counter(n, b[1], i)
           x == Xor(s.a, t)
           e == Dec[k][<<x, s.r[i]>>]
           u == unwrapBlock(k, s, b[1], i)
<1>1. i \in 1..n /\ n \in Nat /\ n > 1 /\ t \in Counters
  BY CounterType, KeyWrapAssumption DEF BlocksOf
<1>2. s.a \in Word /\ s.r \in Seq(Word) /\ s.r[i] \in Word
  BY <1>1 DEF Registers
<1>3. x \in Word /\ Xor(x, t) = s.a
  BY <1>1, <1>2, KeyWrapAssumption
<1>4. e \in Word \X Word /\ Enc[k][e] = <<x, s.r[i]>>
  BY <1>2, <1>3, KeyWrapAssumption, SMTT(30)
<1>5. e[1] \in Word /\ e[2] \in Word /\ e = <<e[1], e[2]>>
  <2>1. e \in Word \X Word
    BY <1>4
  <2> HIDE DEF e
  <2> QED BY <2>1
<1>6. u = [a |-> e[1], r |-> [s.r EXCEPT ![i] = e[2]]]
  BY DEF unwrapBlock
<1>7. u.r \in Seq(Word) /\ Len(u.r) = n /\ u.r[i] = e[2] /\ u \in Registers
  <2>1. [s.r EXCEPT ![i] = e[2]] \in Seq(Word) /\ Len([s.r EXCEPT ![i] = e[2]]) = n
        /\ [s.r EXCEPT ![i] = e[2]][i] = e[2]
    <3>1. i \in 1..Len(s.r) /\ e[2] \in Word /\ s.r \in Seq(Word)
      BY <1>1, <1>2, <1>5, SMTT(30)
    <3> HIDE DEF e, i
    <3> QED BY <3>1, Replace, SMTT(30)
  <2> QED BY <1>5, <1>6, <2>1 DEF Registers
<1>8. wrapBlock(k, u, b[1], i) = [a |-> s.a, r |-> [u.r EXCEPT ![i] = s.r[i]]]
  <2>1. <<u.a, u.r[i]>> = e
    <3> HIDE DEF u, e
    <3> QED BY <1>5, <1>6, <1>7
  <2>2. Enc[k][<<u.a, u.r[i]>>] = <<x, s.r[i]>>
    <3> HIDE DEF u, e, x
    <3> QED BY <1>4, <2>1
  <2>3. Xor(x, counter(Len(u.r), b[1], i)) = s.a
    <3>1. Len(u.r) = n
      BY <1>7
    <3> HIDE DEF u, e, x
    <3> QED BY <1>3, <3>1
  <2> HIDE DEF u, e, t, x
  <2> QED BY <2>2, <2>3 DEF wrapBlock
<1>9. [u.r EXCEPT ![i] = s.r[i]] = s.r
  BY <1>1, <1>2, <1>5, <1>6, Replace, SMTT(30)
<1> QED BY <1>7, <1>8, <1>9 DEF Registers

-----------------------------------------------------------------------------
(* What a step of a call keeps.                                            *)

\* A block stays as it was recorded when another place is written.
LEMMA StepKept ==
    ASSUME NEW k, NEW n \in 2..MaxWords, NEW b \in BlocksOf(n),
           NEW tr \in [Places -> Registers], NEW p \in Places, NEW s,
           Step(k, n, tr, b), b # p, After(b, n) # p
    PROVE  Step(k, n, [tr EXCEPT ![p] = s], b)
<1>1. b \in Places /\ After(b, n) \in Places
  BY PlacesType
<1>2. /\ [tr EXCEPT ![p] = s][b] = tr[b]
      /\ [tr EXCEPT ![p] = s][After(b, n)] = tr[After(b, n)]
  BY <1>1
<1> QED BY <1>2 DEF Step

\* Call d, with its trace u, is c after a round that led to s at p.
Advanced(c, d, u, s, p) ==
    /\ d \in Calls /\ u \in [Places -> Registers] /\ Sound(d, u)
    /\ d.op = c.op /\ d.phase = c.phase /\ d.err = nil
    /\ d.kek = c.kek /\ d.arg = c.arg /\ d.s = s /\ Place(d) = p

\* A round of AESKeyWrap's loop adds a block to the chain.
LEMMA WrapBlockSound ==
    ASSUME NEW c \in Calls, NEW tr \in [Places -> Registers], Sound(c, tr),
           c.op = "wrap", c.phase = "running", c.err = nil, c.at # Top,
           NEW s, s = wrapBlock(c.kek, c.s, c.at[1], c.at[2]),
           NEW p, p = After(c.at, Len(c.s.r)),
           NEW d, d = [c EXCEPT !.s = s, !.at = p],
           NEW u, u = [tr EXCEPT ![p] = s]
    PROVE  Advanced(c, d, u, s, p)
<1> DEFINE n == wordsOf(c)
<1>1. Positioned(c) /\ Traced(c, tr)
  BY DEF Sound
<1>2. /\ c.kek \in ValidKek /\ n \in 2..MaxWords /\ Len(c.s.r) = n
      /\ c.at \in BlocksOf(n) /\ Place(c) = c.at /\ c.s \in Registers
  BY <1>1 DEF Positioned, Place, Calls
<1>3. /\ s \in Registers /\ Len(s.r) = n
      /\ unwrapBlock(c.kek, s, c.at[1], c.at[2]) = c.s
  <2> HIDE DEF n
  <2> QED BY <1>2, WrapBlockInverse
<1>4. /\ p = After(c.at, n) /\ p \in Places /\ p \in BlocksOf(n) \cup {Top}
      /\ p \in (-1..6) \X (-1..MaxWords)
  <2>1. p = After(c.at, n) /\ p \in Places /\ p \in BlocksOf(n) \cup {Top}
    <3> HIDE DEF n
    <3> QED BY <1>2, PlacesType
  <2> QED BY <2>1, KeyWrapAssumption DEF Places
<1>5. /\ d \in Calls /\ d.s = s /\ d.at = p
      /\ d.op = c.op /\ d.phase = c.phase /\ d.kek = c.kek /\ d.arg = c.arg
      /\ d.err = c.err /\ d.out = c.out
  <2>1. [c EXCEPT !.s = s, !.at = p] \in Calls
    BY <1>3, <1>4 DEF Calls
  <2> QED BY <2>1 DEF Calls
<1>6. u \in [Places -> Registers] /\ u[p] = s
  BY <1>3, <1>4
<1>7. wordsOf(d) = n /\ Place(d) = p
  BY <1>5 DEF wordsOf, Place
<1>8. Positioned(d)
  <2> HIDE DEF n
  <2> QED BY <1>2, <1>3, <1>4, <1>5, <1>7 DEF Positioned
<1>9. ASSUME NEW b \in Passed(d)
      PROVE  Step(c.kek, n, u, b)
  <2>1. b \in BlocksOf(n) /\ Below(b, p)
    BY <1>5, <1>7 DEF Passed
  <2>2. Below(b, c.at) \/ b = c.at
    <3> HIDE DEF n
    <3> QED BY <1>2, <1>4, <2>1, AfterOrder
  <2>3. CASE Below(b, c.at)
    <3>1. b \in Passed(c)
      BY <1>2, <2>1, <2>3 DEF Passed
    <3>2. Step(c.kek, n, tr, b)
      BY <1>1, <3>1 DEF Traced
    <3>3. b # p /\ After(b, n) # p
      <4> HIDE DEF n
      <4> QED BY <1>2, <1>4, <2>1, <2>3, AfterApart
    <3> HIDE DEF n
    <3> QED BY <1>2, <1>4, <2>1, <3>2, <3>3, StepKept
  <2>4. CASE b = c.at
    <3> HIDE DEF n
    <3>1. b # p /\ b \in Places
      BY <1>2, <1>4, <2>4, AfterApart, PlacesType
    <3>2. u[b] = c.s
      BY <1>1, <1>2, <2>4, <3>1 DEF Traced
    <3> QED BY <1>2, <1>3, <1>4, <1>6, <2>4, <3>2 DEF Step
  <2> QED BY <2>2, <2>3, <2>4
<1>10. u[<<0, 1>>] = Opened(d.arg.words)
  <2>1. p # <<0, 1>>
    BY <1>2, <1>4, KeyWrapAssumption DEF After, BlocksOf
  <2>2. <<0, 1>> \in Places
    BY <1>2, PlacesType
  <2> QED BY <1>1, <1>5, <2>1, <2>2 DEF Traced
<1>11. Traced(d, u)
  BY <1>5, <1>6, <1>7, <1>9, <1>10 DEF Traced
<1> QED BY <1>5, <1>6, <1>7, <1>8, <1>11 DEF Advanced, Sound, Complete

\* A round of AESKeyUnwrap's loop adds a block to the chain.
LEMMA UnwrapBlockSound ==
    ASSUME NEW c \in Calls, NEW tr \in [Places -> Registers], Sound(c, tr),
           c.op = "unwrap", c.phase = "running", c.err = nil, c.at[1] >= 0,
           NEW s, s = unwrapBlock(c.kek, c.s, c.at[1], c.at[2]),
           NEW p, p = Before(c.at, Len(c.s.r)),
           NEW d, d = [c EXCEPT !.s = s, !.at = p],
           NEW u, u = [tr EXCEPT ![c.at] = s]
    PROVE  Advanced(c, d, u, s, c.at)
<1> DEFINE n == wordsOf(c)
<1>1. Positioned(c) /\ Traced(c, tr)
  BY DEF Sound
<1>2. /\ c.kek \in ValidKek /\ n \in 2..MaxWords /\ Len(c.s.r) = n
      /\ c.at \in BlocksOf(n) /\ Place(c) = After(c.at, n) /\ c.s \in Registers
  <2>1. c.at # <<-1, n>>
    OBVIOUS
  <2> QED BY <1>1, <2>1 DEF Positioned, Place, Calls
<1>3. /\ s \in Registers /\ Len(s.r) = n
      /\ wrapBlock(c.kek, s, c.at[1], c.at[2]) = c.s
  <2> HIDE DEF n
  <2> QED BY <1>2, UnwrapBlockInverse
<1>4. /\ p = Before(c.at, n) /\ p \in BlocksOf(n) \cup {<<-1, n>>}
      /\ After(p, n) = c.at /\ c.at \in Places /\ After(c.at, n) \in Places
      /\ p \in (-1..6) \X (-1..MaxWords)
  <2>1. /\ p = Before(c.at, n) /\ p \in BlocksOf(n) \cup {<<-1, n>>}
        /\ After(p, n) = c.at /\ c.at \in Places /\ After(c.at, n) \in Places
    <3> HIDE DEF n
    <3> QED BY <1>2, PlacesType
  <2>2. p \in (-1..6) \X (-1..MaxWords)
    <3> HIDE DEF n
    <3> QED BY <1>2, <2>1, KeyWrapAssumption DEF BlocksOf
  <2> QED BY <2>1, <2>2
<1>5. /\ d \in Calls /\ d.s = s /\ d.at = p
      /\ d.op = c.op /\ d.phase = c.phase /\ d.kek = c.kek /\ d.arg = c.arg
      /\ d.err = c.err /\ d.out = c.out
  <2>1. [c EXCEPT !.s = s, !.at = p] \in Calls
    BY <1>3, <1>4 DEF Calls
  <2> QED BY <2>1 DEF Calls
<1>6. u \in [Places -> Registers] /\ u[c.at] = s
  BY <1>3, <1>4
<1>7. wordsOf(d) = n /\ Place(d) = c.at
  BY <1>4, <1>5 DEF wordsOf, Place
<1>8. Positioned(d)
  <2> HIDE DEF n
  <2> QED BY <1>2, <1>3, <1>4, <1>5, <1>7 DEF Positioned
<1>9. ASSUME NEW b \in Passed(d)
      PROVE  Step(c.kek, n, u, b)
  <2>1. b \in BlocksOf(n) /\ ~Below(b, c.at)
    BY <1>5, <1>7 DEF Passed
  <2>2. ~Below(b, After(c.at, n)) \/ b = c.at
    <3> HIDE DEF n
    <3> QED BY <1>2, <2>1, AfterOrder
  <2>3. CASE ~Below(b, After(c.at, n))
    <3>1. b \in Passed(c)
      BY <1>2, <2>1, <2>3 DEF Passed
    <3>2. Step(c.kek, n, tr, b)
      BY <1>1, <3>1 DEF Traced
    <3>3. b # c.at /\ After(b, n) # c.at
      <4> HIDE DEF n
      <4> QED BY <1>2, <2>1, <2>3, AfterApart
    <3> HIDE DEF n
    <3> QED BY <1>2, <1>4, <2>1, <3>2, <3>3, StepKept
  <2>4. CASE b = c.at
    <3> HIDE DEF n
    <3>1. c.at # After(c.at, n)
      BY <1>2, AfterApart
    <3>2. u[After(c.at, n)] = c.s
      BY <1>1, <1>2, <1>4, <3>1 DEF Traced
    <3> QED BY <1>2, <1>3, <1>6, <2>4, <3>2 DEF Step
  <2> QED BY <2>2, <2>3, <2>4
<1>10. u[Top] = Closed(d.arg.words)
  <2>1. c.at # Top /\ Top \in Places
    <3> HIDE DEF n
    <3>1. c.at # Top
      BY <1>2 DEF BlocksOf, Top
    <3> QED BY <1>2, <3>1, PlacesType
  <2> QED BY <1>1, <1>5, <2>1 DEF Traced
<1>11. Traced(d, u)
  BY <1>5, <1>6, <1>7, <1>9, <1>10 DEF Traced
<1> QED BY <1>5, <1>6, <1>7, <1>8, <1>11 DEF Advanced, Sound, Complete

-----------------------------------------------------------------------------
(* Beginning and returning.                                                *)

\* A new call has gone through no block.
LEMMA StartWrapSound ==
    ASSUME NEW k \in Kek, NEW x \in Args, Len(x.words) <= MaxWords,
           NEW s, s = [a |-> IV, r |-> x.words],
           NEW d, d = newCall("wrap", k, x, wrapErr(k, x), s, <<0, 1>>),
           NEW u, u = [NoTrace EXCEPT ![<<0, 1>>] = s]
    PROVE  d \in Calls /\ u \in [Places -> Registers] /\ Sound(d, u)
<1>1. s \in Registers /\ NoTrace \in [Places -> Registers]
  BY KeyWrapAssumption DEF Registers, NoTrace, NoRegs, Args
<1>2. d \in Calls
  <2>1. <<0, 1>> \in (-1..6) \X (-1..MaxWords) /\ <<>> \in Seq(Word)
    BY KeyWrapAssumption
  <2>2. wrapErr(k, x) \in {nil, "ErrInvalidKey"}
    BY DEF wrapErr
  <2> QED BY <1>1, <2>1, <2>2 DEF newCall, Calls
<1>3. u \in [Places -> Registers]
  BY <1>1
<1>4. ASSUME d.err = nil
      PROVE  Positioned(d) /\ Traced(d, u) /\ d.phase = "running"
  <2> DEFINE n == Len(x.words)
  <2>1. /\ d.op = "wrap" /\ d.kek = k /\ d.arg = x /\ d.s = s /\ d.at = <<0, 1>>
        /\ d.phase = "running" /\ wordsOf(d) = n /\ Place(d) = <<0, 1>>
    BY <1>4 DEF newCall, wordsOf, Place
  <2>2. k \in ValidKek /\ n \in 2..MaxWords
    BY <1>4, KeyWrapAssumption DEF newCall, wrapErr, nil, Args
  <2>3. <<0, 1>> \in BlocksOf(n) /\ <<0, 1>> \in Places
    BY <2>2, KeyWrapAssumption DEF BlocksOf, Places
  <2>4. Positioned(d)
    BY <2>1, <2>2, <2>3 DEF Positioned
  <2>5. u[<<0, 1>>] = s
    BY <1>1, <2>3
  <2>6. Passed(d) = {}
    <3> HIDE DEF n
    <3> QED BY <2>1, <2>2, Ends DEF Passed
  <2> QED BY <2>1, <2>4, <2>5, <2>6 DEF Traced, Opened
<1> QED BY <1>2, <1>3, <1>4 DEF Sound, Complete

\* Nor has a new unwrapping, which starts from the top.
LEMMA StartUnwrapSound ==
    ASSUME NEW k \in Kek, NEW x \in Args, Len(x.words) - 1 <= MaxWords,
           NEW s, s = IF unwrapErr(k, x) = nil
                      THEN [a |-> Head(x.words), r |-> Tail(x.words)] ELSE NoRegs,
           NEW d, d = newCall("unwrap", k, x, unwrapErr(k, x), s, <<5, Len(x.words) - 1>>),
           NEW u, u = [NoTrace EXCEPT ![Top] = s]
    PROVE  d \in Calls /\ u \in [Places -> Registers] /\ Sound(d, u)
<1> DEFINE n == Len(x.words) - 1
<1>1. x.words \in Seq(Word) /\ n \in -1..MaxWords
  BY KeyWrapAssumption DEF Args
<1>2. unwrapErr(k, x) = nil => k \in ValidKek /\ n \in 2..MaxWords
  BY <1>1, KeyWrapAssumption DEF unwrapErr, nil
<1>3. s \in Registers /\ (unwrapErr(k, x) = nil => Len(s.r) = n)
  <2>1. CASE unwrapErr(k, x) = nil
    <3>1. Head(x.words) \in Word /\ Tail(x.words) \in Seq(Word) /\ Len(Tail(x.words)) = n
      BY <1>1, <1>2, <2>1
    <3> QED BY <2>1, <3>1 DEF Registers
  <2>2. CASE unwrapErr(k, x) # nil
    BY <2>2, KeyWrapAssumption DEF Registers, NoRegs
  <2> QED BY <2>1, <2>2
<1>4. NoTrace \in [Places -> Registers]
  BY KeyWrapAssumption DEF Registers, NoTrace, NoRegs
<1>5. d \in Calls
  <2>1. <<5, n>> \in (-1..6) \X (-1..MaxWords) /\ <<>> \in Seq(Word)
    BY <1>1
  <2>2. unwrapErr(k, x) \in {nil, "ErrInvalidKey", "ErrMalformed"}
    BY DEF unwrapErr
  <2> QED BY <1>3, <2>1, <2>2 DEF newCall, Calls
<1>6. u \in [Places -> Registers]
  BY <1>3, <1>4
<1>7. ASSUME d.err = nil
      PROVE  Positioned(d) /\ Traced(d, u) /\ d.phase = "running"
  <2>1. /\ d.op = "unwrap" /\ d.kek = k /\ d.arg = x /\ d.s = s /\ d.at = <<5, n>>
        /\ d.phase = "running" /\ unwrapErr(k, x) = nil
    BY <1>7 DEF newCall
  <2>2. k \in ValidKek /\ n \in 2..MaxWords /\ <<5, n>> \in BlocksOf(n) /\ Top \in Places
    BY <1>2, <2>1, KeyWrapAssumption DEF BlocksOf, Places, Top
  <2>3. wordsOf(d) = n /\ Place(d) = Top
    <3>1. wordsOf(d) = n /\ Place(d) = After(<<5, n>>, n)
      BY <2>1 DEF wordsOf, Place
    <3> HIDE DEF n
    <3> QED BY <2>2, <3>1, Ends
  <2>4. Positioned(d)
    <3> HIDE DEF n
    <3> QED BY <1>3, <2>1, <2>2, <2>3 DEF Positioned
  <2>5. u[Top] = s
    BY <1>4, <2>2
  <2>6. Passed(d) = {}
    <3> HIDE DEF n
    <3> QED BY <2>1, <2>2, <2>3, Ends DEF Passed
  <2>7. s = Closed(x.words)
    BY <2>1 DEF Closed
  <2> QED BY <2>1, <2>3, <2>4, <2>5, <2>6, <2>7 DEF Traced
<1> QED BY <1>5, <1>6, <1>7 DEF Sound, Complete

\* Call d is c after it returned.
Returned(c, d, tr) ==
    d \in Calls /\ Sound(d, tr) /\ wordsOf(d) = wordsOf(c) /\ Place(d) = Place(c)

\* Returning leaves the chain as it is.
LEMMA ReturnSound ==
    ASSUME NEW c \in Calls, NEW tr \in [Places -> Registers], Sound(c, tr),
           c.op \in {"wrap", "unwrap"}, c.phase = "running", c.err = nil,
           NEW err \in {nil, "ErrDecryptFailed"}, NEW out \in Seq(Word),
           NEW d, d = [c EXCEPT !.phase = "returned", !.err = err, !.out = out],
           c.op = "wrap" => c.at = Top /\ out = <<c.s.a>> \o c.s.r,
           c.op = "unwrap" /\ err = nil => c.at[1] = -1 /\ c.s.a = IV /\ out = c.s.r
    PROVE  Returned(c, d, tr)
<1>1. Positioned(c) /\ Traced(c, tr)
  BY DEF Sound
<1>2. /\ d \in Calls
      /\ d.phase = "returned" /\ d.err = err /\ d.out = out
      /\ d.op = c.op /\ d.kek = c.kek /\ d.arg = c.arg /\ d.s = c.s /\ d.at = c.at
  <2>1. [c EXCEPT !.phase = "returned", !.err = err, !.out = out] \in Calls
    BY DEF Calls
  <2> QED BY <2>1 DEF Calls
<1>3. wordsOf(d) = wordsOf(c)
  BY <1>2 DEF wordsOf
<1>4. Place(d) = Place(c)
  BY <1>2, <1>3 DEF Place
<1>5. Passed(d) = Passed(c)
  BY <1>2, <1>3, <1>4 DEF Passed
<1>6. Positioned(d)
  BY <1>1, <1>2, <1>3 DEF Positioned
<1>7. Traced(d, tr)
  BY <1>1, <1>2, <1>3, <1>4, <1>5 DEF Traced
<1>8. err = nil => Complete(d)
  BY <1>2 DEF Complete
<1> QED BY <1>2, <1>3, <1>4, <1>6, <1>7, <1>8 DEF Returned, Sound

-----------------------------------------------------------------------------
(* Undoing a call.                                                         *)

\* What a call that succeeded turned into what.
Plain(c)   == IF c.op = "wrap" THEN c.arg.words ELSE c.out
Wrapped(c) == IF c.op = "wrap" THEN c.out ELSE c.arg.words

\* The whole chain, from the plain key at the bottom to the wrapped one on top.
Chain(c, tr) ==
    /\ c.kek \in ValidKek /\ wordsOf(c) \in 2..MaxWords
    /\ Plain(c) \in Seq(Word) /\ Len(Plain(c)) = wordsOf(c)
    /\ Wrapped(c) \in Seq(Word) /\ Len(Wrapped(c)) = wordsOf(c) + 1
    /\ tr[<<0, 1>>] = Opened(Plain(c))
    /\ tr[Top] = Closed(Wrapped(c))
    /\ \A b \in BlocksOf(wordsOf(c)) : Step(c.kek, wordsOf(c), tr, b)

\* Putting a word before a key and taking it off again.
LEMMA ConsHeadTail ==
    ASSUME NEW a \in Word, NEW r \in Seq(Word)
    PROVE  /\ <<a>> \o r \in Seq(Word) /\ Len(<<a>> \o r) = Len(r) + 1
           /\ Head(<<a>> \o r) = a /\ Tail(<<a>> \o r) = r
<1>1. <<a>> \o r \in Seq(Word) /\ Len(<<a>> \o r) = Len(r) + 1 /\ Head(<<a>> \o r) = a
  OBVIOUS
<1>2. Tail(<<a>> \o r) \in Seq(Word) /\ Len(Tail(<<a>> \o r)) = Len(r)
  BY <1>1
<1>3. \A i \in 1..Len(r) : Tail(<<a>> \o r)[i] = r[i]
  BY <1>1
<1> QED BY <1>1, <1>2, <1>3, SeqEqual

\* A call that succeeded leaves a whole chain.
LEMMA ChainComplete ==
    ASSUME NEW c \in Calls, NEW tr, Sound(c, tr), Succeeded(c)
    PROVE  Chain(c, tr)
<1> DEFINE n == wordsOf(c)
<1>1. Positioned(c) /\ Traced(c, tr) /\ Complete(c) /\ c.op \in {"wrap", "unwrap"}
  BY DEF Sound, Succeeded, Calls
<1>2. /\ c.kek \in ValidKek /\ n \in 2..MaxWords /\ Len(c.s.r) = n
      /\ c.s = [a |-> c.s.a, r |-> c.s.r] /\ c.s.a \in Word /\ c.s.r \in Seq(Word)
      /\ c.arg.words \in Seq(Word) /\ c.phase = "returned"
  BY <1>1 DEF Positioned, Calls, Registers, Args, Succeeded
<1>3. CASE c.op = "wrap"
  <2>1. c.at = Top /\ c.out = <<c.s.a>> \o c.s.r /\ Place(c) = Top /\ n = Len(c.arg.words)
    BY <1>1, <1>2, <1>3 DEF Complete, Place, wordsOf
  <2>2. tr[<<0, 1>>] = Opened(c.arg.words) /\ tr[Top] = c.s
    BY <1>1, <1>3, <2>1 DEF Traced
  <2>3. c.out \in Seq(Word) /\ Len(c.out) = n + 1 /\ c.s = Closed(c.out)
    <3> HIDE DEF n
    <3>0. c.s.a \in Word /\ c.s.r \in Seq(Word) /\ Len(c.s.r) = n
      BY <1>2
    <3> DEFINE o == <<c.s.a>> \o c.s.r
    <3>1. /\ o \in Seq(Word) /\ Len(o) = Len(c.s.r) + 1
          /\ Head(o) = c.s.a /\ Tail(o) = c.s.r
      BY <3>0, ConsHeadTail
    <3> HIDE DEF o
    <3>2. c.out = o
      BY <2>1 DEF o
    <3> QED BY <1>2, <3>0, <3>1, <3>2 DEF Closed
  <2>4. Passed(c) = BlocksOf(n)
    <3> HIDE DEF n
    <3>1. \A b \in BlocksOf(n) : Below(b, Top)
      BY <1>2, Ends
    <3> QED BY <1>3, <2>1, <3>1 DEF Passed, n
  <2> QED BY <1>1, <1>2, <1>3, <2>1, <2>2, <2>3, <2>4 DEF Chain, Plain, Wrapped, Traced
<1>4. CASE c.op = "unwrap"
  <2>1. /\ c.at[1] = -1 /\ c.s.a = IV /\ c.out = c.s.r /\ n = Len(c.arg.words) - 1
        /\ Place(c) = After(c.at, n)
    BY <1>1, <1>2, <1>4 DEF Complete, Place, wordsOf
  <2>2. c.at = <<-1, n>>
    <3>1. c.at \in BlocksOf(n) \cup {<<-1, n>>}
      BY <1>1, <1>4 DEF Positioned
    <3> HIDE DEF n
    <3> QED BY <2>1, <3>1 DEF BlocksOf
  <2>3. Place(c) = <<0, 1>>
    <3> HIDE DEF n
    <3> QED BY <1>2, <2>1, <2>2, KeyWrapAssumption DEF After
  <2>4. tr[Top] = Closed(c.arg.words) /\ tr[<<0, 1>>] = c.s
    BY <1>1, <1>4, <2>3 DEF Traced
  <2>5. c.s = Opened(c.out)
    BY <1>2, <2>1 DEF Opened
  <2>6. Passed(c) = BlocksOf(n)
    <3> HIDE DEF n
    <3>1. \A b \in BlocksOf(n) : ~Below(b, <<0, 1>>)
      BY <1>2, Ends
    <3> QED BY <1>4, <2>3, <3>1 DEF Passed, n
  <2>7. Len(c.arg.words) = n + 1
    BY <1>2, <2>1
  <2> QED BY <1>1, <1>2, <1>4, <2>1, <2>4, <2>5, <2>6, <2>7 DEF Chain, Plain, Wrapped, Traced
<1> QED BY <1>1, <1>3, <1>4

-----------------------------------------------------------------------------
(* The invariant.                                                          *)

\* It holds of a call that has yet to be made.
LEMMA InitIInv == Init => IInv
<1> SUFFICES ASSUME Init PROVE IInv
  OBVIOUS
<1>1. PICK k \in Kek : call = NoCall(k)
  BY DEF Init
<1>2. /\ NoRegs \in Registers /\ Arg(<<>>) \in Args /\ <<>> \in Seq(Word)
      /\ <<0, 1>> \in (-1..6) \X (-1..MaxWords)
  BY KeyWrapAssumption DEF NoRegs, Registers, Arg, Args
<1>3. NoCall(k) \in Calls
  BY <1>2 DEF NoCall, Calls
<1>4. NoTrace \in [Places -> Registers]
  BY <1>2 DEF NoTrace
<1>5. call.op = "none" /\ call.phase = "returned"
  BY <1>1 DEF NoCall
<1>6. TypeOK
  BY <1>1, <1>3, <1>4 DEF TypeOK, Init
<1>7. prev.call = call
  BY DEF Init
<1> QED BY <1>5, <1>6, <1>7 DEF IInv, Sound, Retraced, Undoes, Follows, Succeeded

\* Wrapping what was just unwrapped starts from the registers left there.
LEMMA StartWrapRetraced ==
    ASSUME NEW d \in Calls, NEW tr, Sound(d, tr),
           NEW k \in Kek, NEW x \in Args,
           NEW c, c = newCall("wrap", k, x, wrapErr(k, x), [a |-> IV, r |-> x.words], <<0, 1>>)
    PROVE  Retraced(c, d, tr)
<1> SUFFICES ASSUME Undoes(c, d) PROVE c.err = nil /\ c.s = tr[Place(c)]
  BY DEF Retraced
<1>1. /\ c.op = "wrap" /\ c.kek = k /\ c.arg = x /\ c.err = wrapErr(k, x)
      /\ c.s = Opened(x.words) /\ Place(c) = <<0, 1>>
  BY DEF newCall, Place, Opened
<1>2. d.op = "unwrap" /\ Succeeded(d) /\ d.kek = k /\ x = Arg(d.out)
  BY <1>1 DEF Undoes, Follows
<1>3. Chain(d, tr) /\ Plain(d) = d.out
  BY <1>2, ChainComplete DEF Plain
<1>4. k \in ValidKek /\ Len(d.out) >= 2 /\ tr[<<0, 1>>] = Opened(d.out)
  <2>1. wordsOf(d) \in 2..MaxWords /\ Len(d.out) = wordsOf(d)
    BY <1>3 DEF Chain
  <2> QED BY <1>2, <1>3, <2>1, KeyWrapAssumption DEF Chain
<1>5. x.words = d.out /\ x.ragged = FALSE
  BY <1>2 DEF Arg
<1> QED BY <1>1, <1>4, <1>5 DEF wrapErr

\* Unwrapping what was just wrapped starts from the registers left there.
LEMMA StartUnwrapRetraced ==
    ASSUME NEW d \in Calls, NEW tr, Sound(d, tr),
           NEW k \in Kek, NEW x \in Args,
           NEW s, s = IF unwrapErr(k, x) = nil
                      THEN [a |-> Head(x.words), r |-> Tail(x.words)] ELSE NoRegs,
           NEW c, c = newCall("unwrap", k, x, unwrapErr(k, x), s, <<5, Len(x.words) - 1>>)
    PROVE  Retraced(c, d, tr)
<1> SUFFICES ASSUME Undoes(c, d) PROVE c.err = nil /\ c.s = tr[Place(c)]
  BY DEF Retraced
<1>1. /\ c.op = "unwrap" /\ c.kek = k /\ c.arg = x /\ c.err = unwrapErr(k, x)
      /\ c.s = s /\ c.at = <<5, Len(x.words) - 1>>
  BY DEF newCall
<1>2. d.op = "wrap" /\ Succeeded(d) /\ d.kek = k /\ x = Arg(d.out)
  BY <1>1 DEF Undoes, Follows
<1>3. Chain(d, tr) /\ Wrapped(d) = d.out
  BY <1>2, ChainComplete DEF Wrapped
<1>4. /\ wordsOf(d) \in 2..MaxWords /\ Len(d.out) = wordsOf(d) + 1
      /\ k \in ValidKek /\ tr[Top] = Closed(d.out)
  BY <1>2, <1>3 DEF Chain
<1>5. x.words = d.out /\ x.ragged = FALSE
  BY <1>2 DEF Arg
<1>6. unwrapErr(k, x) = nil
  BY <1>4, <1>5, KeyWrapAssumption DEF unwrapErr
<1>7. s = Closed(d.out)
  BY <1>5, <1>6 DEF Closed
<1>8. Place(c) = Top
  <2>1. wordsOf(c) = wordsOf(d) /\ c.at = <<5, wordsOf(d)>>
    <3>1. c.op # "wrap" /\ c.arg.words = d.out
      BY <1>1, <1>5
    <3>2. wordsOf(c) = Len(d.out) - 1
      BY <3>1 DEF wordsOf
    <3>3. Len(x.words) - 1 = wordsOf(d)
      BY <1>4, <1>5, KeyWrapAssumption
    <3> QED BY <1>1, <1>5, <3>2, <3>3
  <2>2. Place(c) = After(<<5, wordsOf(d)>>, wordsOf(d))
    BY <1>1, <2>1 DEF Place
  <2> QED BY <1>4, <2>2, KeyWrapAssumption DEF After, Top
<1> QED BY <1>1, <1>4, <1>6, <1>7, <1>8

\* The words of a call that undoes another are as many as the other's.
LEMMA UndoesWords ==
    ASSUME NEW c \in Calls, NEW d \in Calls, NEW tr, Sound(d, tr), Undoes(c, d)
    PROVE  Chain(d, tr) /\ c.kek = d.kek /\ wordsOf(c) = wordsOf(d)
<1>1. Succeeded(d) /\ c.kek = d.kek /\ c.arg.words = d.out
  BY DEF Undoes, Follows, Arg
<1>2. Chain(d, tr)
  BY <1>1, ChainComplete
<1>3. wordsOf(d) \in 2..MaxWords
  BY <1>2 DEF Chain
<1>4. CASE d.op = "wrap" /\ c.op = "unwrap"
  <2>1. wordsOf(c) = Len(d.out) - 1
    BY <1>1, <1>4 DEF wordsOf
  <2>2. Len(d.out) = wordsOf(d) + 1
    BY <1>2, <1>4 DEF Chain, Wrapped
  <2> QED BY <1>1, <1>2, <1>3, <2>1, <2>2, KeyWrapAssumption
<1>5. CASE d.op = "unwrap" /\ c.op = "wrap"
  <2>1. wordsOf(c) = Len(d.out)
    BY <1>1, <1>5 DEF wordsOf
  <2>2. Len(d.out) = wordsOf(d)
    BY <1>2, <1>5 DEF Chain, Plain
  <2> QED BY <1>1, <1>2, <2>1, <2>2
<1> QED BY <1>4, <1>5 DEF Undoes

\* A round of either loop leads to the registers the undone call held there.
LEMMA BlockRetraced ==
    ASSUME NEW c \in Calls, NEW d \in Calls, NEW tr, Sound(d, tr), Positioned(c),
           Retraced(c, d, tr), NEW e \in Calls, NEW s,
           e.op = c.op, e.kek = c.kek, e.arg = c.arg, e.err = nil, e.s = s,
           c.at \in BlocksOf(wordsOf(c)),
           \/ /\ c.op = "wrap" /\ Place(e) = After(c.at, wordsOf(c))
              /\ s = wrapBlock(c.kek, c.s, c.at[1], c.at[2])
           \/ /\ c.op = "unwrap" /\ Place(e) = c.at
              /\ s = unwrapBlock(c.kek, c.s, c.at[1], c.at[2])
    PROVE  Retraced(e, d, tr)
<1> SUFFICES ASSUME Undoes(e, d) PROVE e.err = nil /\ e.s = tr[Place(e)]
  BY DEF Retraced
<1>1. Undoes(c, d)
  BY DEF Undoes, Follows
<1>2. Chain(d, tr) /\ c.kek = d.kek /\ wordsOf(c) = wordsOf(d)
  BY <1>1, UndoesWords
<1>3. c.s = tr[Place(c)]
  BY <1>1 DEF Retraced
<1>4. Step(c.kek, wordsOf(c), tr, c.at)
  BY <1>2 DEF Chain
<1>5. c.op = "wrap" => Place(c) = c.at
  BY DEF Place
<1>6. c.op = "unwrap" => Place(c) = After(c.at, wordsOf(c))
  BY DEF Place
<1> QED BY <1>3, <1>4, <1>5, <1>6 DEF Step

\* Undoing what was wrapped ends with the initial value.
LEMMA UndoneIntegrity ==
    ASSUME NEW c \in Calls, NEW d \in Calls, NEW tr, Sound(d, tr), Positioned(c),
           Retraced(c, d, tr), Undoes(c, d), c.op = "unwrap", c.at[1] = -1
    PROVE  c.s = Opened(d.arg.words) /\ c.s.a = IV
<1> DEFINE n == wordsOf(c)
<1>1. Chain(d, tr) /\ c.s = tr[Place(c)] /\ d.op = "wrap"
  BY UndoesWords DEF Retraced, Undoes
<1>2. n \in 2..MaxWords /\ c.at \in BlocksOf(n) \cup {<<-1, n>>}
  BY DEF Positioned
<1>3. Place(c) = <<0, 1>>
  <2>1. Place(c) = After(c.at, n)
    BY DEF Place
  <2> HIDE DEF n
  <2>2. c.at = <<-1, n>>
    BY <1>2 DEF BlocksOf
  <2> QED BY <1>2, <2>1, <2>2, KeyWrapAssumption DEF After
<1> QED BY <1>1, <1>3 DEF Chain, Plain, Opened

-----------------------------------------------------------------------------
(* The actions.                                                            *)

\* What a caller passes is an argument.
LEMMA ArgType ==
    ASSUME TypeOK, NEW x \in Inputs \cup {Arg(call.out)}
    PROVE  x \in Args
<1>1. Arg(call.out) \in Args
  BY DEF TypeOK, Calls, Arg, Args
<1> QED BY <1>1, KeyWrapAssumption

\* StartWrap keeps the invariant.
LEMMA StartWrapKeeps == IInv /\ StartWrap => IInv'
<1> SUFFICES ASSUME IInv, StartWrap PROVE IInv'
  OBVIOUS
<1>1. PICK k \in Kek, x \in Inputs \cup {Arg(call.out)} :
         /\ Begin(x) /\ Len(x.words) <= MaxWords
         /\ call' = newCall("wrap", k, x, wrapErr(k, x), [a |-> IV, r |-> x.words], <<0, 1>>)
         /\ trace' = [NoTrace EXCEPT ![<<0, 1>>] = [a |-> IV, r |-> x.words]]
  BY DEF StartWrap
<1>2. x \in Args
  BY ArgType DEF IInv
<1>3. call' \in Calls /\ trace' \in [Places -> Registers] /\ Sound(call', trace')
  BY <1>1, <1>2, StartWrapSound
<1>4. prev' = [call |-> call, trace |-> trace] /\ call.phase = "returned"
  BY <1>1 DEF Begin
<1>5. Sound(prev'.call, prev'.trace) /\ Retraced(call', prev'.call, prev'.trace)
  BY <1>1, <1>2, <1>4, StartWrapRetraced DEF IInv, TypeOK
<1>6. call'.op # "none" /\ (call'.phase = "running" => call'.err = nil)
  BY <1>1 DEF newCall
<1> QED BY <1>3, <1>4, <1>5, <1>6 DEF IInv, TypeOK

\* StartUnwrap keeps the invariant.
LEMMA StartUnwrapKeeps == IInv /\ StartUnwrap => IInv'
<1> SUFFICES ASSUME IInv, StartUnwrap PROVE IInv'
  OBVIOUS
<1> DEFINE S(k, x) == IF unwrapErr(k, x) = nil
                      THEN [a |-> Head(x.words), r |-> Tail(x.words)] ELSE NoRegs
<1>1. PICK k \in Kek, x \in Inputs \cup {Arg(call.out)} :
         /\ Begin(x) /\ Len(x.words) - 1 <= MaxWords
         /\ call' = newCall("unwrap", k, x, unwrapErr(k, x), S(k, x),
                            <<5, Len(x.words) - 1>>)
         /\ trace' = [NoTrace EXCEPT ![Top] = S(k, x)]
  BY DEF StartUnwrap
<1>2. x \in Args
  BY ArgType DEF IInv
<1>3. call' \in Calls /\ trace' \in [Places -> Registers] /\ Sound(call', trace')
  BY <1>1, <1>2, StartUnwrapSound
<1>4. prev' = [call |-> call, trace |-> trace] /\ call.phase = "returned"
  BY <1>1 DEF Begin
<1>5. Sound(prev'.call, prev'.trace) /\ Retraced(call', prev'.call, prev'.trace)
  BY <1>1, <1>2, <1>4, StartUnwrapRetraced DEF IInv, TypeOK
<1>6. call'.op # "none" /\ (call'.phase = "running" => call'.err = nil)
  BY <1>1 DEF newCall
<1> QED BY <1>3, <1>4, <1>5, <1>6 DEF IInv, TypeOK

\* A block of AESKeyWrap keeps it.
LEMMA WrapBlockKeeps == IInv /\ WrapBlock => IInv'
<1> SUFFICES ASSUME IInv, WrapBlock PROVE IInv'
  OBVIOUS
<1> DEFINE s == wrapBlock(call.kek, call.s, call.at[1], call.at[2])
           p == After(call.at, Len(call.s.r))
<1>1. /\ call.op = "wrap" /\ call.phase = "running" /\ call.err = nil /\ call.at # Top
      /\ call' = [call EXCEPT !.s = s, !.at = p] /\ trace' = [trace EXCEPT ![p] = s]
      /\ prev' = prev
  BY DEF WrapBlock, Running, Loop, IInv
<1>2. call \in Calls /\ trace \in [Places -> Registers] /\ Sound(call, trace)
  BY DEF IInv, TypeOK
<1>3. /\ call' \in Calls /\ trace' \in [Places -> Registers] /\ Sound(call', trace')
      /\ call'.op = call.op /\ call'.phase = call.phase /\ call'.err = nil
      /\ call'.kek = call.kek /\ call'.arg = call.arg /\ call'.s = s /\ Place(call') = p
  <2>1. /\ s = wrapBlock(call.kek, call.s, call.at[1], call.at[2])
        /\ p = After(call.at, Len(call.s.r))
    OBVIOUS
  <2> HIDE DEF s, p
  <2>2. Advanced(call, call', trace', s, p)
    BY <1>1, <1>2, <2>1, WrapBlockSound
  <2> QED BY <2>2 DEF Advanced
<1>4. Positioned(call) /\ call.at \in BlocksOf(wordsOf(call)) /\ Len(call.s.r) = wordsOf(call)
  BY <1>1, <1>2 DEF Sound, Positioned
<1>5. Retraced(call', prev.call, prev.trace)
  <2>1. prev.call \in Calls /\ Sound(prev.call, prev.trace)
        /\ Retraced(call, prev.call, prev.trace)
    BY DEF IInv, TypeOK
  <2>2. Place(call') = After(call.at, wordsOf(call))
    BY <1>3, <1>4
  <2> QED BY <1>1, <1>2, <1>3, <1>4, <2>1, <2>2, BlockRetraced
<1> QED BY <1>1, <1>3, <1>5 DEF IInv, TypeOK

\* A block of AESKeyUnwrap keeps it.
LEMMA UnwrapBlockKeeps == IInv /\ UnwrapBlock => IInv'
<1> SUFFICES ASSUME IInv, UnwrapBlock PROVE IInv'
  OBVIOUS
<1> DEFINE s == unwrapBlock(call.kek, call.s, call.at[1], call.at[2])
           p == Before(call.at, Len(call.s.r))
<1>1. /\ call.op = "unwrap" /\ call.phase = "running" /\ call.err = nil /\ call.at[1] >= 0
      /\ call' = [call EXCEPT !.s = s, !.at = p] /\ trace' = [trace EXCEPT ![call.at] = s]
      /\ prev' = prev
  BY DEF UnwrapBlock, Running, Loop, IInv
<1>2. call \in Calls /\ trace \in [Places -> Registers] /\ Sound(call, trace)
  BY DEF IInv, TypeOK
<1>3. /\ call' \in Calls /\ trace' \in [Places -> Registers] /\ Sound(call', trace')
      /\ call'.op = call.op /\ call'.phase = call.phase /\ call'.err = nil
      /\ call'.kek = call.kek /\ call'.arg = call.arg /\ call'.s = s
      /\ Place(call') = call.at
  <2>1. /\ s = unwrapBlock(call.kek, call.s, call.at[1], call.at[2])
        /\ p = Before(call.at, Len(call.s.r))
    OBVIOUS
  <2> HIDE DEF s, p
  <2>2. Advanced(call, call', trace', s, call.at)
    BY <1>1, <1>2, <2>1, UnwrapBlockSound
  <2> QED BY <2>2 DEF Advanced
<1>4. Positioned(call) /\ call.at \in BlocksOf(wordsOf(call))
  <2>1. Positioned(call)
    BY <1>1, <1>2 DEF Sound
  <2> QED BY <1>1, <2>1 DEF Positioned
<1>5. Retraced(call', prev.call, prev.trace)
  <2>1. prev.call \in Calls /\ Sound(prev.call, prev.trace)
        /\ Retraced(call, prev.call, prev.trace)
    BY DEF IInv, TypeOK
  <2> QED BY <1>1, <1>2, <1>3, <1>4, <2>1, BlockRetraced
<1> QED BY <1>1, <1>3, <1>5 DEF IInv, TypeOK

\* What remains to be shown of a call that returns what its registers hold.
LEMMA ReturnKeeps ==
    ASSUME IInv, call.op \in {"wrap", "unwrap"}, call.phase = "running",
           NEW err \in {nil, "ErrDecryptFailed"}, NEW out \in Seq(Word), Return(err, out),
           call.op = "wrap" => call.at = Top /\ out = <<call.s.a>> \o call.s.r,
           call.op = "unwrap" /\ err = nil =>
               call.at[1] = -1 /\ call.s.a = IV /\ out = call.s.r,
           Undoes(call, prev.call) => err = nil
    PROVE  IInv'
<1>1. /\ call \in Calls /\ trace \in [Places -> Registers] /\ Sound(call, trace)
      /\ call.err = nil /\ Retraced(call, prev.call, prev.trace)
  BY DEF IInv, TypeOK
<1>2. /\ call' = [call EXCEPT !.phase = "returned", !.err = err, !.out = out]
      /\ trace' = trace /\ prev' = prev
  BY DEF Return
<1>3. call' \in Calls /\ Sound(call', trace) /\ Place(call') = Place(call)
  <2>1. Returned(call, call', trace)
    BY <1>1, <1>2, ReturnSound
  <2> QED BY <2>1 DEF Returned
<1>4. /\ call'.phase = "returned" /\ call'.err = err /\ call'.op = call.op
      /\ call'.kek = call.kek /\ call'.arg = call.arg /\ call'.s = call.s
  BY <1>1, <1>2 DEF Calls
<1>5. Undoes(call', prev.call) => Undoes(call, prev.call)
  BY <1>4 DEF Undoes, Follows
<1>6. Retraced(call', prev.call, prev.trace)
  BY <1>1, <1>3, <1>4, <1>5 DEF Retraced
<1> QED BY <1>1, <1>2, <1>3, <1>4, <1>6 DEF IInv, TypeOK

\* AESKeyWrap's return keeps it.
LEMMA WrapReturnKeeps == IInv /\ WrapReturn => IInv'
<1> SUFFICES ASSUME IInv, WrapReturn PROVE IInv'
  OBVIOUS
<1>1. /\ call.op = "wrap" /\ call.phase = "running" /\ call.at = Top
      /\ Return(nil, <<call.s.a>> \o call.s.r)
  BY DEF WrapReturn, Running
<1>2. <<call.s.a>> \o call.s.r \in Seq(Word)
  <2>1. call.s.a \in Word /\ call.s.r \in Seq(Word)
    BY DEF IInv, TypeOK, Calls, Registers
  <2> QED BY <2>1, ConsHeadTail
<1> QED BY <1>1, <1>2, ReturnKeeps

\* AESKeyUnwrap's return keeps it: an undone wrapping never fails.
LEMMA UnwrapReturnKeeps == IInv /\ UnwrapReturn => IInv'
<1> SUFFICES ASSUME IInv, UnwrapReturn PROVE IInv'
  OBVIOUS
<1> DEFINE err == integrityErr(call.s.a)
           out == IF err = nil THEN call.s.r ELSE <<>>
<1>1. call.op = "unwrap" /\ call.phase = "running" /\ call.at[1] = -1 /\ Return(err, out)
  BY DEF UnwrapReturn, Running
<1>2. err \in {nil, "ErrDecryptFailed"} /\ (call.s.a = IV => err = nil)
  BY DEF integrityErr
<1>3. err = nil => call.s.a = IV
  BY DEF integrityErr, nil
<1>4. out \in Seq(Word)
  <2>1. call.s.r \in Seq(Word) /\ <<>> \in Seq(Word)
    BY DEF IInv, TypeOK, Calls, Registers
  <2> QED BY <2>1
<1>5. Undoes(call, prev.call) => err = nil
  <2> SUFFICES ASSUME Undoes(call, prev.call) PROVE call.s.a = IV
    BY <1>2
  <2>1. /\ call \in Calls /\ Sound(call, trace) /\ call.err = nil
        /\ prev.call \in Calls /\ Sound(prev.call, prev.trace)
        /\ Retraced(call, prev.call, prev.trace)
    BY <1>1 DEF IInv, TypeOK
  <2>2. Positioned(call)
    BY <1>1, <2>1 DEF Sound
  <2> QED BY <1>1, <2>1, <2>2, UndoneIntegrity
<1>6. call.op # "wrap" /\ (err = nil => out = call.s.r)
  BY <1>1
<1> HIDE DEF err, out
<1> QED BY <1>1, <1>2, <1>3, <1>4, <1>5, <1>6, ReturnKeeps

\* Every step keeps the invariant.
LEMMA NextKeeps == IInv /\ [Next]_vars => IInv'
<1> SUFFICES ASSUME IInv, [Next]_vars PROVE IInv'
  OBVIOUS
<1>1. CASE UNCHANGED vars
  BY <1>1 DEF vars, IInv, TypeOK
<1> QED BY <1>1, StartWrapKeeps, WrapBlockKeeps, WrapReturnKeeps, StartUnwrapKeeps,
           UnwrapBlockKeeps, UnwrapReturnKeeps DEF Next

-----------------------------------------------------------------------------
(* The theorems.                                                           *)

(***************************************************************************)
(* The inductive invariant: the loops of AESKeyWrap and AESKeyUnwrap leave *)
(* whole chains of blocks behind, and a call that undoes another goes back *)
(* through the same registers.                                             *)
(***************************************************************************)
THEOREM KeyWrapInvariance == Spec => []IInv
<1> QED BY InitIInv, NextKeeps, PTL DEF Spec

(***************************************************************************)
(* AESKeyUnwrap of what AESKeyWrap gave, with the same key, succeeds and   *)
(* gives back what was wrapped.                                            *)
(***************************************************************************)
THEOREM UnwrapCorrect == Spec => []UnwrapInvertsWrap
<1>1. IInv => UnwrapInvertsWrap
  <2> SUFFICES ASSUME IInv, Follows(call, prev.call), prev.call.op = "wrap",
                      call.op = "unwrap", call.phase = "returned"
               PROVE  call.err = nil /\ call.out = prev.call.arg.words
    BY DEF UnwrapInvertsWrap
  <2>1. /\ call \in Calls /\ Sound(call, trace) /\ Undoes(call, prev.call)
        /\ prev.call \in Calls /\ Sound(prev.call, prev.trace)
        /\ Retraced(call, prev.call, prev.trace)
    BY DEF IInv, TypeOK, Undoes
  <2>2. call.err = nil
    BY <2>1 DEF Retraced
  <2>3. Positioned(call) /\ call.at[1] = -1 /\ call.out = call.s.r
    BY <2>1, <2>2 DEF Sound, Complete
  <2>4. call.s = Opened(prev.call.arg.words)
    BY <2>1, <2>3, UndoneIntegrity
  <2> QED BY <2>2, <2>3, <2>4 DEF Opened
<1> QED BY <1>1, KeyWrapInvariance, PTL

(***************************************************************************)
(* AESKeyWrap of what AESKeyUnwrap gave, with the same key, gives back     *)
(* what was unwrapped: nothing else passes the integrity check.            *)
(***************************************************************************)
THEOREM OnlyWrappings == Spec => []OnlyWrappingsUnwrap
<1>1. IInv => OnlyWrappingsUnwrap
  <2> SUFFICES ASSUME IInv, Follows(call, prev.call), prev.call.op = "unwrap",
                      call.op = "wrap", call.phase = "returned"
               PROVE  call.err = nil /\ call.out = prev.call.arg.words
    BY DEF OnlyWrappingsUnwrap
  <2>1. /\ call \in Calls /\ Sound(call, trace) /\ Undoes(call, prev.call)
        /\ prev.call \in Calls /\ Sound(prev.call, prev.trace)
        /\ Retraced(call, prev.call, prev.trace)
    BY DEF IInv, TypeOK, Undoes
  <2>2. call.err = nil /\ call.s = prev.trace[Place(call)]
    BY <2>1 DEF Retraced
  <2>3. call.at = Top /\ call.out = <<call.s.a>> \o call.s.r /\ Place(call) = Top
    BY <2>1, <2>2 DEF Sound, Complete, Place
  <2>4. Chain(prev.call, prev.trace)
    BY <2>1, UndoesWords
  <2> DEFINE w == prev.call.arg.words
  <2>5. w \in Seq(Word) /\ Len(w) >= 1 /\ call.s = Closed(w)
    <3>1. Wrapped(prev.call) = w
      BY DEF Wrapped
    <3>2. wordsOf(prev.call) \in 2..MaxWords /\ Len(w) = wordsOf(prev.call) + 1
      BY <2>4, <3>1 DEF Chain
    <3>3. Len(w) >= 1
      BY <3>2, KeyWrapAssumption
    <3> QED BY <2>2, <2>3, <2>4, <3>1, <3>3 DEF Chain
  <2>6. call.out = <<Head(w)>> \o Tail(w)
    BY <2>3, <2>5 DEF Closed
  <2>7. <<Head(w)>> \o Tail(w) = w
    <3> HIDE DEF w
    <3>1. /\ <<Head(w)>> \o Tail(w) \in Seq(Word) /\ Len(<<Head(w)>> \o Tail(w)) = Len(w)
          /\ \A i \in 1..Len(w) : (<<Head(w)>> \o Tail(w))[i] = w[i]
      BY <2>5
    <3> QED BY <2>5, <3>1, SeqEqual
  <2> QED BY <2>2, <2>6, <2>7
<1> QED BY <1>1, KeyWrapInvariance, PTL
=============================================================================

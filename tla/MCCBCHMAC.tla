------------------------------ MODULE MCCBCHMAC ------------------------------
(***************************************************************************)
(* Values of CBCHMAC's constants for model checking: octets of two bits,   *)
(* blocks of two octets, and a permutation of blocks for each key.         *)
(***************************************************************************)
EXTENDS CBCHMAC

MCOctet == 0..3

\* Addition stands for XOR, and subtraction undoes it.
MCPermute(k, b)   == <<(b[1] + b[2] + k[1]) % 4, (b[2] + 1) % 4>>
MCUnpermute(k, b) == LET y == (b[2] + 3) % 4 IN <<(b[1] - y - k[1] + 8) % 4, y>>
MCBlock(p, i)     == <<p[2 * i - 1], p[2 * i]>>

MCFlat(blocks, n) == [x \in 1..(2 * n) |-> blocks[(x + 1) \div 2][2 - (x % 2)]]

MCEncrypt(k, v, p) ==
    LET n == Len(p) \div 2
        c[i \in 0..n] ==
            IF i = 0 THEN v
            ELSE LET b == MCBlock(p, i) d == c[i - 1]
                 IN  MCPermute(k, <<(b[1] + d[1]) % 4, (b[2] + d[2]) % 4>>)
    IN  MCFlat(c, n)

MCDecrypt(k, v, c) ==
    LET n == Len(c) \div 2
        p == [i \in 1..n |->
                LET b == MCUnpermute(k, MCBlock(c, i))
                    d == IF i = 1 THEN v ELSE MCBlock(c, i - 1)
                IN  <<(b[1] - d[1] + 4) % 4, (b[2] - d[2] + 4) % 4>>]
    IN  MCFlat(p, n)

\* Big-endian, in base 4.
MCUint64(n) == [i \in 1..8 |-> (n \div 4 ^ (8 - i)) % 4]

MCCek       == {<<0, 1>>, <<0, 2>>, <<2, 1>>}
MCPlaintext == {<<>>, <<1, 1>>, <<2, 2, 2>>}
MCAAD       == {<<>>, <<1, 2>>}
MCRandom    == {<<1, 3>>}
=============================================================================

------------------------------ MODULE MCKeyWrap ------------------------------
(***************************************************************************)
(* Values of KeyWrap's constants for model checking: words of one bit and  *)
(* a small permutation of pairs of words for each key.                     *)
(***************************************************************************)
EXTENDS KeyWrapProperties

MCWord == {0, 1}
MCXor(w, t) == (w + t) % 2

MCKek      == {0, 1, 2}     \* 0 is no AES key
MCValidKek == {1, 2}

\* Two rounds, the second of them dependent on the key.
MCEnc == [k \in MCValidKek |-> [p \in MCWord \X MCWord |->
            LET x == (p[1] + p[2] * k + 1) % 2 IN <<x, (p[2] + x) % 2>>]]
MCDec == [k \in MCValidKek |-> [p \in MCWord \X MCWord |->
            CHOOSE q \in MCWord \X MCWord : MCEnc[k][q] = p]]

Ragged(words) == [words |-> words, ragged |-> TRUE]
MCInputs == {Arg(w) : w \in {<<>>, <<1>>, <<0, 1>>, <<1, 1>>, <<1, 0, 1>>,
                             <<0, 0, 1>>, <<0, 1, 0, 1>>}}
            \cup {Ragged(<<0, 1>>), Ragged(<<1, 0, 1>>)}
=============================================================================

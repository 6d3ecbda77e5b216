-------------------------- MODULE KeyWrapProperties --------------------------
(***************************************************************************)
(* What makes the key wrap correct.                                        *)
(***************************************************************************)
EXTENDS KeyWrap

TypeOK ==
    /\ call \in Calls
    /\ trace \in [Places -> Registers]
    /\ prev \in [call : Calls, trace : [Places -> Registers]]

Succeeded(c) == c.op # "none" /\ c.phase = "returned" /\ c.err = nil

\* Call c was made, with the same key, on what call d gave.
Follows(c, d) == Succeeded(d) /\ c.kek = d.kek /\ c.arg = Arg(d.out)

(***************************************************************************)
(* "AESKeyUnwrap reverses AESKeyWrap" (keywrap.go): unwrapping what was    *)
(* just wrapped, with the same key, succeeds and gives back the key that   *)
(* was wrapped, for every length.                                          *)
(***************************************************************************)
UnwrapInvertsWrap ==
    (/\ Follows(call, prev.call)
     /\ prev.call.op = "wrap" /\ call.op = "unwrap" /\ call.phase = "returned")
        => call.err = nil /\ call.out = prev.call.arg.words

(***************************************************************************)
(* Nothing but a wrapped key unwraps: what AESKeyUnwrap accepts is exactly *)
(* what AESKeyWrap gives for the key it returns.                           *)
(***************************************************************************)
OnlyWrappingsUnwrap ==
    (/\ Follows(call, prev.call)
     /\ prev.call.op = "unwrap" /\ call.op = "wrap" /\ call.phase = "returned")
        => call.err = nil /\ call.out = prev.call.arg.words

-----------------------------------------------------------------------------
(* The inductive invariant behind both.                                    *)

\* The registers of a wrapping before its first block and after its last, given
\* what is wrapped and what comes of it.
Opened(words) == [a |-> IV, r |-> words]
Closed(words) == [a |-> Head(words), r |-> Tail(words)]

wordsOf(c) == IF c.op = "wrap" THEN Len(c.arg.words) ELSE Len(c.arg.words) - 1

\* The place c's registers belong to, and whether a block is below it.
Place(c)    == IF c.op = "wrap" THEN c.at ELSE After(c.at, wordsOf(c))
Below(b, p) == b[1] < p[1] \/ (b[1] = p[1] /\ b[2] < p[2])

\* The blocks c has been through.
Passed(c) == {b \in BlocksOf(wordsOf(c)) : (c.op = "wrap") <=> Below(b, Place(c))}

\* One block of n registers, seen from either side.
Step(k, n, tr, b) ==
    /\ tr[b] \in Registers /\ Len(tr[b].r) = n
    /\ tr[After(b, n)] = wrapBlock(k, tr[b], b[1], b[2])
    /\ tr[b] = unwrapBlock(k, tr[After(b, n)], b[1], b[2])

\* Where c may be in its loop.
Positioned(c) ==
    /\ c.kek \in ValidKek
    /\ wordsOf(c) \in 2..MaxWords
    /\ Len(c.s.r) = wordsOf(c)
    /\ c.op = "wrap"   => c.at \in BlocksOf(wordsOf(c)) \cup {Top}
    /\ c.op = "unwrap" => c.at \in BlocksOf(wordsOf(c)) \cup {<<-1, wordsOf(c)>>}

\* tr is what c left behind.
Traced(c, tr) ==
    /\ tr[Place(c)] = c.s
    /\ c.op = "wrap"   => tr[<<0, 1>>] = Opened(c.arg.words)
    /\ c.op = "unwrap" => tr[Top] = Closed(c.arg.words)
    /\ \A b \in Passed(c) : Step(c.kek, wordsOf(c), tr, b)

\* A call that returned without error went all the way.
Complete(c) ==
    c.phase = "returned" =>
        /\ c.op = "wrap"   => c.at = Top /\ c.out = <<c.s.a>> \o c.s.r
        /\ c.op = "unwrap" => c.at[1] = -1 /\ c.s.a = IV /\ c.out = c.s.r

Sound(c, tr) == (c.op # "none" /\ c.err = nil) => Positioned(c) /\ Traced(c, tr) /\ Complete(c)

\* A call c that undoes the one before it, which left tr behind, goes back
\* through the same registers.
Undoes(c, d) == /\ Follows(c, d)
                /\ \/ d.op = "wrap" /\ c.op = "unwrap"
                   \/ d.op = "unwrap" /\ c.op = "wrap"
Retraced(c, d, tr) == Undoes(c, d) => c.err = nil /\ c.s = tr[Place(c)]

(***************************************************************************)
(* The loops of keywrap.go as a whole: what a call leaves behind is a      *)
(* chain of blocks from the registers it started with, complete when it    *)
(* returned without error, and a call that undoes another never fails and  *)
(* holds, at every place, the registers the other held there.              *)
(***************************************************************************)
IInv ==
    /\ TypeOK
    /\ Sound(call, trace)
    /\ Sound(prev.call, prev.trace)
    /\ call.phase = "running" => call.op # "none" /\ call.err = nil
    /\ prev.call.phase = "returned"
    /\ Retraced(call, prev.call, prev.trace)
=============================================================================

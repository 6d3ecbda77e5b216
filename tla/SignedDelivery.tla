--------------------------- MODULE SignedDelivery ---------------------------
(***************************************************************************)
(* What a signed channel promises, with no serialization, header syntax or *)
(* cryptography: facts are signed, and a fact is delivered only if it was  *)
(* signed.  A fact is a key pair, a payload and the header members the     *)
(* signature protects; a delivery may carry further members, which nothing *)
(* vouches for.                                                            *)
(***************************************************************************)
VARIABLES
    signed,      \* the facts signed so far
    delivered    \* what the consumer currently holds as verified: {} or one fact

vars == <<signed, delivered>>

Vouches(f, d) ==
    /\ f.pair = d.pair
    /\ f.payload = d.payload
    /\ f.members \subseteq d.members

Init == signed = {} /\ delivered = {}

\* One call may sign with several keys; signing never retracts.
SignFacts ==
    /\ signed \subseteq signed'
    /\ delivered' = {}

Deliver ==
    /\ \E d \in delivered' : delivered' = {d} /\ \E f \in signed : Vouches(f, d)
    /\ UNCHANGED signed

Refuse == delivered' = {} /\ UNCHANGED signed

Next == SignFacts \/ Deliver \/ Refuse

Spec == Init /\ [][Next]_vars
=============================================================================

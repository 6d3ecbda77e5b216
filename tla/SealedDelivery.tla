--------------------------- MODULE SealedDelivery ---------------------------
(***************************************************************************)
(* What an encrypted channel promises, with no serialization, header       *)
(* syntax or cryptography: a message is sealed for some readers, and only  *)
(* to one of them is it ever delivered, unchanged.  A message is a         *)
(* plaintext with the header members it is bound to; a delivery may carry  *)
(* further members, which nothing vouches for.                             *)
(***************************************************************************)
VARIABLES
    messages,    \* the messages sealed so far
    delivered    \* what the consumer currently holds as decrypted: {} or one message

vars == <<messages, delivered>>

\* d is what the reader d.reader may make of message m.
Opens(m, d) ==
    /\ d.reader \in m.readers
    /\ d.plaintext = m.plaintext
    /\ m.members \subseteq d.members

Init == messages = {} /\ delivered = {}

SealMessage ==
    /\ \E m \in messages' : messages' = messages \cup {m}
    /\ delivered' = {}

Deliver ==
    /\ \E d \in delivered' : delivered' = {d} /\ \E m \in messages : Opens(m, d)
    /\ UNCHANGED messages

Refuse == delivered' = {} /\ UNCHANGED messages

Next == SealMessage \/ Deliver \/ Refuse

Spec == Init /\ [][Next]_vars
=============================================================================

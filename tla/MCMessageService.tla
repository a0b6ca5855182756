-------------------------- MODULE MCMessageService --------------------------
(* Small instances of the message service for TLC.                         *)
EXTENDS MessageService, TLC

CONSTANTS m1, m2, p1, p2, s1

TwoPins == (m1 :> p1) @@ (m2 :> p2)
OneByte == (m1 :> 1) @@ (m2 :> 1)
UnevenBytes == (m1 :> 1) @@ (m2 :> 2)
Ttls == (m1 :> 1) @@ (m2 :> 2)
OnePin == m1 :> p1
Byte == m1 :> 1
OneTtl == m1 :> 1
OneStripe == [i \in Ids |-> s1]

\* Readers are interchangeable; messages and ids are told apart by the functions above.
Interchangeable == Permutations(Readers)
=============================================================================

-------------------------------- MODULE MCNotes -------------------------------
(* Notes on a small instance. *)
EXTENDS Notes, TLC

CONSTANTS c1, c2, d1, v1, g1, k1, k2, full, half

TwoCredits == {c1, c2}
OneDebit == {d1}
OneIssue == {v1}
NoRange == {}
All == {c1, c2, d1}
MayFail == {c1}
FromFive == g1 :> 5
ToSix == g1 :> 6
Amounts == c1 :> 2 @@ c2 :> 2 @@ d1 :> 1

\* c2 repeats c1, or its key only, or is another note; d1 is of the other
\* table, where the key of c1 is free.
Brings(k, h) == [key |-> k, hash |-> h]
Cases ==
  {c1 :> Brings(k1, full) @@ c2 :> second @@ d1 :> Brings(k1, half) :
     second \in {Brings(k1, full), Brings(k1, half), Brings(k2, full)}}
===============================================================================

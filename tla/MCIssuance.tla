------------------------------ MODULE MCIssuance ------------------------------
(* Issuance on small instances. *)
EXTENDS Issuance, TLC

CONSTANTS q1, q2, q3, q4, k1, k2, k3, pa, pb, fe, rA, rB

ThreeRequests == {q1, q2, q3}
FourRequests == {q1, q2, q3, q4}

\* q1 and q2 are the same request sent twice; q4 reuses q3's key with another
\* payload.
Keying == q1 :> k1 @@ q2 :> k1 @@ q3 :> k2 @@ q4 :> k2
Payloads == q1 :> pa @@ q2 :> pa @@ q3 :> pa @@ q4 :> pb
OnePrefix == [q \in Requests |-> fe]

NoRange == {}
OneRange == {rA}
TwoRanges == {rA, rB}
RangePrefixes == [r \in Configured |-> fe]
\* rB starts where rA does not end: overlapping resolutions.
Froms == rA :> 1 @@ rB :> 2
Tos == rA :> 2 @@ rB :> 3
===============================================================================

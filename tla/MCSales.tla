-------------------------------- MODULE MCSales -------------------------------
(* The shop on a small instance. *)
EXTENDS Sales, TLC

CONSTANTS q1, q2, q3, m1, o1, c1, c2, d1, l1, pA, pB, s1, s2, r1, r2, ana, eva, k1

ThreeSales == {q1, q2, q3}
OneMovement == {m1}
OneOpening == {o1}
TwoClosings == {c1, c2}
OneDeletion == {d1}
OneListing == {l1}
MayFail == {q1}
TwoProducts == {pA, pB}
TwoDrawers == {s1, s2}
TwoRegisters == {r1, r2}
OneActive == {r2}

Stocks == pA :> 2 @@ pB :> 2

\* One line of both products, or two lines of the first.
Line(n) == [sum |-> n, last |-> n, most |-> n]
Both == pA :> Line(1) @@ pB :> Line(1)
Twice == pA :> [sum |-> 2, last |-> 1, most |-> 1] @@ pB :> [sum |-> 0, last |-> 0, most |-> 0]
Asks == q1 :> Both @@ q2 :> Both @@ q3 :> Twice

\* q3 repeats the key of q1 in another session; it pays a peso more, q2 two.
Totals == q1 :> 2 @@ q2 :> 2 @@ q3 :> 2
Payments == q1 :> 2 @@ q2 :> 4 @@ q3 :> 3
SaleKeys == q1 :> k1 @@ q2 :> None @@ q3 :> k1
InSession == q1 :> s1 @@ q2 :> s2 @@ q3 :> s2 @@ c1 :> s1 @@ c2 :> s1
OutTwo == m1 :> -2
MovesA == m1 :> pA

\* ana has s1 open until it is closed, and o1 opens another; d1 deletes the
\* register o1 uses.
Users == s1 :> ana @@ s2 :> eva @@ o1 :> ana
OnRegister == s1 :> r1 @@ s2 :> r1 @@ o1 :> r2 @@ d1 :> r2
===============================================================================

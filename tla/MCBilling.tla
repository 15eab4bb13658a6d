------------------------------ MODULE MCBilling -------------------------------
(* A subscription on a small instance. *)
EXTENDS Billing, TLC

CONSTANTS d1, d2, s1, s2, h1, x1, c1, m1, free, pro

TwoDeliveries == {d1, d2}
OnePayment == d1 :> m1 @@ d2 :> m1
NoneForged == {}
TwoStarts == {s1, s2}
OneChange == {h1}
OneCancel == {x1}
OneCron == {c1}
TwoPlans == {free, pro}
MayFail == {d1}
===============================================================================

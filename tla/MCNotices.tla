------------------------------- MODULE MCNotices ------------------------------
(* The notices of one verdict on a small instance. *)
EXTENDS Notices, TLC

CONSTANTS e1, e2

\* e2 is added, and may be deleted, while jobs run.
TwoEndpoints == {e1, e2}
OneRegistered == {e1}
OneRemovable == {e2}
AllVerdicts == {"accepted", "xmlRejected", "rejected"}
Subscriptions == e1 :> {"invoice.accepted"} @@ e2 :> {}
===============================================================================

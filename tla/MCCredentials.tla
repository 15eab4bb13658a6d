----------------------------- MODULE MCCredentials ----------------------------
(* The credentials of one user on a small instance. *)
EXTENDS Credentials, TLC

CONSTANTS l1, v1, v2, p1, f1, f2, o1, a1, old, new, bad

TwoLocks == {Password, Pin}
OneLogin == {l1}
TwoVerifies == {v1, v2}
OneSet == {p1}
TwoRefreshes == {f1, f2}
OneLogout == {o1}
OneRevocation == {a1}
MayDie == {f1}
MayExpire == {l1}

Two == Password :> 2 @@ Pin :> 2
OldSecrets == Password :> old @@ Pin :> old

\* v2 brings the PIN p1 sets: wrong before it, right after it; v1 is wrong either way.
Offers == l1 :> old @@ v1 :> bad @@ v2 :> new @@ p1 :> new
===============================================================================

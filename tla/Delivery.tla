------------------------------- MODULE Delivery -------------------------------
(***************************************************************************)
(* What the emission pipeline promises of each document: it is sent to     *)
(* DIAN once it is committed, and again only when its first dispatch is    *)
(* forgotten; its standing and what the customer hears of it follow what   *)
(* DIAN ruled, and only a ruling against it opens it again.                *)
(***************************************************************************)
CONSTANT Docs

VARIABLES
  owed,      \* documents committed and not yet known to be dispatched
  work,      \* the dispatch of each
  ruling,    \* what DIAN has ruled of it so far
  standing,  \* what its issuer is shown
  told       \* what its customer has been told

vars == <<owed, work, ruling, standing, told>>

Init ==
  /\ owed = {}
  /\ work = [d \in Docs |-> "none"]
  /\ ruling = [d \in Docs |-> {}]
  /\ standing = [d \in Docs |-> "open"]
  /\ told = [d \in Docs |-> {}]

For(d) == ruling[d] \cap {"accepted", "xmlRejected"} # {}
Against(d) == ruling[d] \cap {"rejected", "xmlRejected"} # {}

Owe(d) ==
  /\ d \notin owed /\ work[d] = "none"
  /\ owed' = owed \cup {d}
  /\ UNCHANGED <<work, ruling, standing, told>>

Start(d) ==
  /\ work[d] = "none" => d \in owed
  /\ work[d] \in {"none", "forgotten"}
  /\ work' = [work EXCEPT ![d] = "running"]
  /\ UNCHANGED <<owed, ruling, standing, told>>

Release(d) ==
  /\ work[d] # "none"
  /\ owed' = owed \ {d}
  /\ UNCHANGED <<work, ruling, standing, told>>

End(d) ==
  /\ work[d] = "running"
  /\ work' = [work EXCEPT ![d] = "over"]
  /\ UNCHANGED <<owed, ruling, standing, told>>

Forget(d) ==
  /\ work[d] = "over"
  /\ work' = [work EXCEPT ![d] = "forgotten"]
  /\ UNCHANGED <<owed, ruling, standing, told>>

\* What DIAN has ruled stays.
Rule(d, v) ==
  /\ work[d] # "none"
  /\ ruling' = [ruling EXCEPT ![d] = @ \cup {v}]
  /\ UNCHANGED <<owed, work, standing, told>>

Settle(d, s) ==
  /\ IF s = "accepted" THEN For(d) ELSE Against(d)
  /\ standing' = [standing EXCEPT ![d] = s]
  /\ UNCHANGED <<owed, work, ruling, told>>

Tell(d, notice) ==
  /\ (IF notice = "invoice.rejected" THEN "rejected" ELSE "accepted") \in ruling[d]
  /\ told' = [told EXCEPT ![d] = @ \cup {notice}]
  /\ UNCHANGED <<owed, work, ruling, standing>>

Next ==
  \E d \in Docs :
    \/ Owe(d) \/ Start(d) \/ Release(d) \/ End(d) \/ Forget(d)
    \/ \E v \in {"accepted", "xmlRejected", "rejected"} : Rule(d, v)
    \/ \E s \in {"open", "accepted", "rejected"} : Settle(d, s)
    \/ \E n \in {"mail", "invoice.accepted", "invoice.rejected"} : Tell(d, n)

Spec == Init /\ [][Next]_vars
===============================================================================

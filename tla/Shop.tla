--------------------------------- MODULE Shop ---------------------------------
(***************************************************************************)
(* What the point of sale promises: a sale, a stock movement, the opening  *)
(* and the closing of a cash session each happen at one instant, or not at *)
(* all.                                                                    *)
(***************************************************************************)
EXTENDS Integers

CONSTANTS Products, Sessions, Sales, Movements, Keys, SessionOf, Asked, Paid, ProductOf, Signed, Float

VARIABLES stock, kardex, cash, status, expected, sold

vars == <<stock, kardex, cash, status, expected, sold>>

Init ==
  /\ stock \in [Products -> Nat]
  /\ kardex = [p \in Products |-> 0]
  /\ cash = [s \in Sessions |-> 0]
  /\ status \in [Sessions -> {"absent", "open"}]
  /\ expected = [s \in Sessions |-> 0]
  /\ sold = {}

\* Sold under a key no sale has, in an open session, with every line in stock.
Sell(q) ==
  /\ \A o \in sold : o # q /\ ~Keys[o][q]
  /\ status[SessionOf[q]] = "open"
  /\ \A p \in Products : Asked[q][p].most <= stock[p]
  /\ stock' = [p \in Products |-> stock[p] - Asked[q][p].last]
  /\ kardex' = [p \in Products |-> kardex[p] - Asked[q][p].sum]
  /\ cash' = [cash EXCEPT ![SessionOf[q]] = @ + Paid[q]]
  /\ sold' = sold \cup {q}
  /\ UNCHANGED <<status, expected>>

Move(m) ==
  /\ stock[ProductOf[m]] + Signed[m] >= 0
  /\ stock' = [stock EXCEPT ![ProductOf[m]] = @ + Signed[m]]
  /\ kardex' = [kardex EXCEPT ![ProductOf[m]] = @ + Signed[m]]
  /\ UNCHANGED <<cash, status, expected, sold>>

Open(s) ==
  /\ status[s] = "absent"
  /\ status' = [status EXCEPT ![s] = "open"]
  /\ UNCHANGED <<stock, kardex, cash, expected, sold>>

Close(s) ==
  /\ status[s] = "open"
  /\ status' = [status EXCEPT ![s] = "closed"]
  /\ expected' = [expected EXCEPT ![s] = Float + cash[s]]
  /\ UNCHANGED <<stock, kardex, cash, sold>>

Next ==
  \/ \E q \in Sales : Sell(q)
  \/ \E m \in Movements : Move(m)
  \/ \E s \in Sessions : Open(s) \/ Close(s)

Spec == Init /\ [][Next]_vars
===============================================================================

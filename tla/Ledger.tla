-------------------------------- MODULE Ledger --------------------------------
(***************************************************************************)
(* What issuing invoices promises to a tenant: a book in which every entry *)
(* takes the next number of its range, no number is used twice under a     *)
(* prefix, and one idempotency key yields one invoice.                     *)
(***************************************************************************)
EXTENDS Integers

CONSTANTS
  Ranges,         \* numbering ranges
  Keys,           \* idempotency keys
  PrefixOf(_),    \* the prefix of a range
  FromOf(_)       \* fromNumber of a range

VARIABLE book     \* the issued invoices: range, number, key

Entries == [range: Ranges, number: Nat, key: Keys]

Init == book = {}

\* The numbers a range may give next.
Candidates(r) == {FromOf(r)} \cup {b.number + 1 : b \in book}

Follows(r, n) ==
  \/ n = FromOf(r) /\ \A b \in book : b.range # r
  \/ \E b \in book : b.range = r /\ n = b.number + 1

Issue(r, n, k) ==
  /\ \A b \in book : b.key # k
  /\ \A b \in book : PrefixOf(b.range) = PrefixOf(r) => b.number # n
  /\ Follows(r, n)
  /\ book' = book \cup {[range |-> r, number |-> n, key |-> k]}

Next == \E r \in Ranges, k \in Keys : \E n \in Candidates(r) : Issue(r, n, k)

Spec == Init /\ [][Next]_book
===============================================================================

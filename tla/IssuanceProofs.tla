---------------------------- MODULE IssuanceProofs ----------------------------
(***************************************************************************)
(* Issuance for every set of requests, keys, ranges and every pool size:   *)
(* the inductive invariant, the properties it implies, and the refinement  *)
(* of the ledger.                                                          *)
(***************************************************************************)
EXTENDS Issuance, TLAPS

Quiet == UNCHANGED <<active, current, holder, row, number, inserted, committed>>

Typed(q, w) ==
  /\ pc' = [pc EXCEPT ![q] = w] /\ w \in Pcs
  /\ answer' \in [Requests -> Answers]
  /\ returned' \in [Requests -> Requests \cup {None}]

\* A range's first number is positive.
LEMMA FromOfPositive == \A r \in RangeIds : FromOf(r) \in Nat \ {0}
BY IssuanceAssumption DEF RangeIds, FromOf

LEMMA Rows ==
  ASSUME NEW r \in Requests \cup Configured PROVE r \in RangeIds /\ r # None
BY IssuanceAssumption DEF RangeIds

LEMMA InitIInv == Init => IInv
<1> SUFFICES ASSUME Init PROVE IInv
  OBVIOUS
<1>1. TypeOK
  BY FromOfPositive, IssuanceAssumption
     DEF Init, TypeOK, RangeIds, Pcs, InTransaction, Answers
<1>2. Phases /\ Reservations /\ Provenance /\ NoClash
  BY DEF Init, Phases, Reservations, HasReserved, Provenance, NoClash
<1>3. RangesStart
  BY FromOfPositive DEF Init, RangesStart
<1>4. RangeGapFree
  <2> SUFFICES ASSUME NEW r \in active
               PROVE  {number[q] : q \in {p \in committed : row[p] = r}} = FromOf(r)..current[r]
    BY DEF RangeGapFree
  <2>1. r \in RangeIds /\ current[r] = FromOf(r) - 1
    BY IssuanceAssumption DEF Init, RangeIds
  <2>2. FromOf(r)..current[r] = {}
    BY <2>1, FromOfPositive
  <2> QED BY <2>2 DEF Init
<1> QED BY <1>1, <1>2, <1>3, <1>4 DEF IInv

(***************************************************************************)
(* Steps that leave the tables, the locks and the reservations alone.      *)
(***************************************************************************)
LEMMA QuietStep ==
  ASSUME IInv, NEW q \in Requests, NEW w, Quiet, Typed(q, w),
         pc[q] # "done",
         w \in {"sign", "commit"} <=> pc[q] \in {"sign", "commit"},
         w = "insert" => pc[q] = "insert"
  PROVE  IInv'
<1> USE DEF IInv
<1>1. TypeOK'
  BY DEF TypeOK, Quiet, Typed
<1>2. pc' \in [Requests -> Pcs] /\ pc'[q] = w /\ \A p \in Requests \ {q} : pc'[p] = pc[p]
  BY DEF Typed, TypeOK
<1>3. Phases'
  BY <1>2 DEF Phases, Quiet, TypeOK
<1>4. \A p \in Requests : HasReserved(p)' => HasReserved(p)
  BY <1>2 DEF HasReserved
<1>5. Reservations'
  BY <1>4 DEF Reservations, Quiet
<1>6. (Provenance /\ RangesStart /\ NoClash /\ RangeGapFree)'
  BY DEF Provenance, RangesStart, NoClash, Clash, SameNumber, RangeGapFree, Quiet
<1> QED BY <1>1, <1>3, <1>5, <1>6

(***************************************************************************)
(* A transaction that rolls back.                                          *)
(***************************************************************************)
LEMMA RollbackStep ==
  ASSUME IInv, NEW q \in Requests, NEW w \in {"done", "reread"},
         Rollback(q), Typed(q, w), pc[q] \in InTransaction
  PROVE  IInv'
<1> USE DEF IInv
<1>1. /\ inserted' = inserted \ {q}
      /\ active' = active /\ current' = current /\ row' = row /\ number' = number
      /\ committed' = committed
      /\ holder' = [r \in RangeIds |-> IF holder[r] = q THEN None ELSE holder[r]]
  BY DEF Rollback, Release
<1>2. pc' \in [Requests -> Pcs] /\ pc'[q] = w /\ \A p \in Requests \ {q} : pc'[p] = pc[p]
  BY DEF Typed, TypeOK
<1>3. TypeOK'
  BY <1>1, <1>2 DEF TypeOK, Typed
<1>4. Phases'
  <2>1. q \notin committed
    BY DEF Phases, InTransaction
  <2> QED BY <1>1, <1>2, <2>1 DEF Phases, TypeOK
<1>5. Reservations'
  <2> SUFFICES ASSUME NEW p \in Requests, HasReserved(p)'
               PROVE  /\ row[p] \in RangeIds
                      /\ PrefixOf(row[p]) = PrefixFor[p]
                      /\ number[p] = current[row[p]] + 1
                      /\ \/ row[p] \in active /\ holder'[row[p]] = p
                         \/ row[p] = p /\ p \notin active
    BY <1>1 DEF Reservations
  <2>1. p # q /\ HasReserved(p)
    BY <1>2 DEF HasReserved
  <2> QED BY <1>1, <2>1 DEF Reservations
<1>6. (Provenance /\ RangesStart /\ RangeGapFree)'
  BY <1>1 DEF Provenance, RangesStart, RangeGapFree
<1>7. NoClash'
  BY <1>1 DEF NoClash, Clash, SameNumber
<1> QED BY <1>3, <1>4, <1>5, <1>6, <1>7

(***************************************************************************)
(* A request that takes a number, from a locked row or from a row of its   *)
(* own that nobody sees.                                                   *)
(***************************************************************************)
LEMMA ReserveStep ==
  ASSUME IInv, NEW q \in Requests, NEW r \in RangeIds,
         pc[q] = "reserve",
         pc' = [pc EXCEPT ![q] = "insert"],
         row' = [row EXCEPT ![q] = r],
         number' = [number EXCEPT ![q] = current[r] + 1],
         PrefixOf(r) = PrefixFor[q],
         holder' \in [RangeIds -> Requests \cup {None}],
         \A x \in RangeIds : holder[x] # None => holder'[x] = holder[x],
         (r \in active /\ holder'[r] = q) \/ (r = q /\ q \notin active),
         UNCHANGED <<active, current, inserted, committed, answer, returned>>
  PROVE  IInv'
<1> USE DEF IInv
<1>1. pc' \in [Requests -> Pcs] /\ pc'[q] = "insert" /\ \A p \in Requests \ {q} : pc'[p] = pc[p]
  BY DEF TypeOK, Pcs, InTransaction
<1>2. /\ row' \in [Requests -> RangeIds \cup {None}] /\ row'[q] = r
      /\ \A p \in Requests \ {q} : row'[p] = row[p]
  BY DEF TypeOK
<1>3. /\ number' \in [Requests -> Nat] /\ number'[q] = current[r] + 1
      /\ \A p \in Requests \ {q} : number'[p] = number[p]
  BY DEF TypeOK
<1>4. q \notin inserted /\ q \notin committed
  BY DEF Phases
<1>5. TypeOK'
  BY <1>1, <1>2, <1>3 DEF TypeOK
<1>6. Phases'
  BY <1>1, <1>4 DEF Phases, TypeOK
<1>7. Reservations'
  <2> SUFFICES ASSUME NEW p \in Requests, HasReserved(p)'
               PROVE  /\ row'[p] \in RangeIds
                      /\ PrefixOf(row'[p]) = PrefixFor[p]
                      /\ number'[p] = current[row'[p]] + 1
                      /\ \/ row'[p] \in active /\ holder'[row'[p]] = p
                         \/ row'[p] = p /\ p \notin active
    BY DEF Reservations
  <2>1. CASE p = q
    BY <1>2, <1>3, <2>1
  <2>2. CASE p # q
    <3>1. HasReserved(p)
      BY <1>1, <2>2 DEF HasReserved
    <3>2. p # None
      BY IssuanceAssumption
    <3> QED BY <1>2, <1>3, <2>2, <3>1, <3>2 DEF Reservations
  <2> QED BY <2>1, <2>2
<1>8. Provenance' /\ RangesStart'
  BY <1>2, <1>4 DEF Provenance, RangesStart, TypeOK
<1>9. NoClash'
  BY <1>3, <1>4 DEF NoClash, Clash, SameNumber, TypeOK
<1>10. RangeGapFree'
  <2> SUFFICES ASSUME NEW x \in active
               PROVE  {number'[p] : p \in {z \in committed : row'[z] = x}} = FromOf(x)..current[x]
    BY DEF RangeGapFree
  <2>1. \A p \in committed : number'[p] = number[p] /\ row'[p] = row[p]
    BY <1>2, <1>3, <1>4 DEF TypeOK
  <2>2. {number'[p] : p \in {z \in committed : row'[z] = x}}
          = {number[p] : p \in {z \in committed : row[z] = x}}
    BY <2>1
  <2> QED BY <2>2 DEF RangeGapFree
<1> QED BY <1>5, <1>6, <1>7, <1>8, <1>9, <1>10

LEMMA InsertStep ==
  ASSUME IInv, NEW q \in Requests, Insert(q) PROVE IInv'
<1> USE DEF IInv
<1>1. /\ pc[q] = "insert" /\ inserted' = inserted \cup {q}
      /\ \A p \in inserted \cup committed : ~Clash(p, q)
      /\ pc' = [pc EXCEPT ![q] = "sign"]
      /\ UNCHANGED <<active, current, holder, row, number, committed, answer, returned>>
  BY DEF Insert, Goto
<1>2. pc' \in [Requests -> Pcs] /\ pc'[q] = "sign" /\ \A p \in Requests \ {q} : pc'[p] = pc[p]
  BY <1>1 DEF TypeOK, Pcs, InTransaction
<1>3. TypeOK'
  BY <1>1, <1>2 DEF TypeOK
<1>4. Phases'
  BY <1>1, <1>2 DEF Phases, TypeOK
<1>5. \A p \in Requests : HasReserved(p)' => HasReserved(p)
  BY <1>1, <1>2 DEF HasReserved
<1>6. Reservations'
  BY <1>1, <1>5 DEF Reservations
<1>7. NoClash'
  <2> SUFFICES ASSUME NEW p \in inserted' \cup committed, NEW x \in inserted' \cup committed,
                      Clash(p, x)
               PROVE  p = x
    BY <1>1 DEF NoClash, Clash, SameNumber
  <2>1. Clash(x, p)
    BY DEF Clash, SameKey, SameNumber
  <2> QED BY <1>1, <2>1 DEF NoClash
<1>8. (Provenance /\ RangesStart /\ RangeGapFree)'
  BY <1>1 DEF Provenance, RangesStart, RangeGapFree
<1> QED BY <1>3, <1>4, <1>6, <1>7, <1>8

(***************************************************************************)
(* Commit: the number becomes the range's last one.                        *)
(***************************************************************************)
LEMMA OnlyReservation ==
  ASSUME IInv, NEW q \in Requests, NEW p \in Requests, p # q,
         HasReserved(q), HasReserved(p)
  PROVE  row[p] # row[q]
BY DEF IInv, Reservations

LEMMA CommitStep ==
  ASSUME IInv, NEW q \in Requests, Commit(q) PROVE IInv'
<1> USE DEF IInv
<1>1. /\ pc[q] = "commit" /\ HasReserved(q)
      /\ active' = active \cup {row[q]}
      /\ current' = [current EXCEPT ![row[q]] = number[q]]
      /\ committed' = committed \cup {q} /\ inserted' = inserted \ {q}
      /\ holder' = [r \in RangeIds |-> IF holder[r] = q THEN None ELSE holder[r]]
      /\ answer' = [answer EXCEPT ![q] = "created"]
      /\ pc' = [pc EXCEPT ![q] = "done"]
      /\ returned' = [returned EXCEPT ![q] = q]
      /\ UNCHANGED <<row, number>>
  BY DEF Commit, Release, Answer, Goto, HasReserved
<1>2. /\ row[q] \in RangeIds
      /\ PrefixOf(row[q]) = PrefixFor[q]
      /\ number[q] = current[row[q]] + 1
      /\ \/ row[q] \in active /\ holder[row[q]] = q
         \/ row[q] = q /\ q \notin active
  BY <1>1 DEF Reservations
<1>3. pc' \in [Requests -> Pcs] /\ pc'[q] = "done" /\ \A p \in Requests \ {q} : pc'[p] = pc[p]
  BY <1>1 DEF TypeOK, Pcs
<1>4. /\ current' \in [RangeIds -> Nat] /\ current'[row[q]] = current[row[q]] + 1
      /\ \A x \in RangeIds \ {row[q]} : current'[x] = current[x]
  BY <1>1, <1>2 DEF TypeOK
<1>5. q \notin committed
  BY <1>1 DEF Phases
<1>6. TypeOK'
  BY <1>1, <1>2, <1>3, <1>4 DEF TypeOK, Answers
<1>7. Phases'
  BY <1>1, <1>3 DEF Phases, TypeOK
<1>8. Reservations'
  <2> SUFFICES ASSUME NEW p \in Requests, HasReserved(p)'
               PROVE  /\ row[p] \in RangeIds
                      /\ PrefixOf(row[p]) = PrefixFor[p]
                      /\ number[p] = current'[row[p]] + 1
                      /\ \/ row[p] \in active' /\ holder'[row[p]] = p
                         \/ row[p] = p /\ p \notin active'
    BY <1>1 DEF Reservations
  <2>1. p # q /\ HasReserved(p)
    BY <1>3 DEF HasReserved
  <2>2. row[p] # row[q]
    BY <1>1, <2>1, OnlyReservation
  <2> QED BY <1>1, <1>4, <2>1, <2>2 DEF Reservations
<1>9. Provenance'
  BY <1>1, <1>2 DEF Provenance
<1>10. RangesStart'
  <2> SUFFICES ASSUME NEW x \in RangeIds
               PROVE  /\ current'[x] >= FromOf(x) - 1
                      /\ x \notin active' => current'[x] = FromOf(x) - 1
    BY DEF RangesStart
  <2>1. FromOf(x) \in Nat /\ current[x] \in Nat
    BY FromOfPositive DEF TypeOK
  <2> QED BY <1>1, <1>4, <2>1 DEF RangesStart
<1>11. NoClash'
  BY <1>1 DEF NoClash, Clash, SameNumber, Phases
<1>12. RangeGapFree'
  <2> SUFFICES ASSUME NEW x \in active'
               PROVE  {number[p] : p \in {z \in committed' : row[z] = x}} = FromOf(x)..current'[x]
    BY <1>1 DEF RangeGapFree
  <2> DEFINE Given(y) == {number[p] : p \in {z \in committed : row[z] = y}}
  <2>1. x \in RangeIds /\ FromOf(x) \in Nat /\ current[x] \in Nat /\ current[x] >= FromOf(x) - 1
    BY <1>1, <1>2, FromOfPositive DEF TypeOK, RangesStart
  <2>2. Given(x) = FromOf(x)..current[x]
    <3>1. CASE x \in active
      BY <3>1 DEF RangeGapFree
    <3>2. CASE x \notin active
      <4>1. Given(x) = {}
        BY <3>2 DEF Provenance
      <4>2. FromOf(x)..current[x] = {}
        BY <2>1, <3>2 DEF RangesStart
      <4> QED BY <4>1, <4>2
    <3> QED BY <3>1, <3>2
  <2>3. CASE x = row[q]
    <3>1. {number[p] : p \in {z \in committed' : row[z] = x}} = Given(x) \cup {current[x] + 1}
      BY <1>1, <1>2, <2>3
    <3>2. FromOf(x)..(current[x] + 1) = (FromOf(x)..current[x]) \cup {current[x] + 1}
      BY <2>1
    <3> QED BY <1>4, <2>2, <2>3, <3>1, <3>2
  <2>4. CASE x # row[q]
    <3>1. {number[p] : p \in {z \in committed' : row[z] = x}} = Given(x)
      BY <1>1, <2>4
    <3> QED BY <1>4, <2>1, <2>2, <2>4, <3>1
  <2> QED BY <2>3, <2>4
<1> QED BY <1>6, <1>7, <1>8, <1>9, <1>10, <1>11, <1>12

LEMMA CreateRangeStep ==
  ASSUME IInv, NEW r \in Configured, CreateRange(r) PROVE IInv'
<1> USE DEF IInv
<1>1. /\ r \notin active /\ active' = active \cup {r} /\ r \in RangeIds /\ r \notin Requests
      /\ UNCHANGED <<current, holder, pc, row, number, inserted, committed, answer, returned>>
  BY IssuanceAssumption DEF CreateRange, RangeIds
<1>2. TypeOK' /\ Phases' /\ Provenance' /\ RangesStart' /\ NoClash'
  BY <1>1 DEF TypeOK, Phases, Provenance, RangesStart, NoClash, Clash, SameNumber
<1>3. Reservations'
  BY <1>1 DEF Reservations, HasReserved
<1>4. RangeGapFree'
  <2> SUFFICES ASSUME NEW x \in active'
               PROVE  {number[p] : p \in {z \in committed : row[z] = x}} = FromOf(x)..current[x]
    BY <1>1 DEF RangeGapFree
  <2>1. CASE x \in active
    BY <2>1 DEF RangeGapFree
  <2>2. CASE x = r
    <3>1. {number[p] : p \in {z \in committed : row[z] = x}} = {}
      BY <1>1, <2>2 DEF Provenance
    <3>2. FromOf(x)..current[x] = {}
      BY <1>1, <2>2, FromOfPositive DEF RangesStart
    <3> QED BY <3>1, <3>2
  <2> QED BY <1>1, <2>1, <2>2
<1> QED BY <1>2, <1>3, <1>4

\* Every step keeps the invariant, one case per action.
LEMMA NextIInv == IInv /\ [Next]_vars => IInv'
<1> SUFFICES ASSUME IInv, [Next]_vars PROVE IInv'
  OBVIOUS
<1> USE DEF Typed, Goto, Answer
<1>0. TypeOK /\ Answers = {"none", "created", "replayed", "conflict", "exhausted", "failed", "error"}
      /\ Pcs = {"reads", "reserve", "insert", "sign", "commit", "lookup", "begin", "reread", "done"}
  BY DEF IInv, Answers, Pcs, InTransaction
<1>1. ASSUME NEW q \in Requests, NEW p \in committed, Verify(q, p)
      PROVE  Typed(q, "done")
  BY <1>0, <1>1 DEF Verify, SnapshotOf, TypeOK
<1>2. ASSUME NEW q \in Requests, Lookup(q) PROVE IInv'
  <2>1. Quiet /\ pc[q] = "lookup"
    BY <1>2 DEF Lookup, Quiet
  <2>2. Typed(q, "done") \/ Typed(q, "begin")
    BY <1>0, <1>1, <1>2 DEF Lookup, TypeOK
  <2> QED BY <2>1, <2>2, QuietStep
<1>3. ASSUME NEW q \in Requests, Begin(q) PROVE IInv'
  <2>1. Quiet /\ pc[q] = "begin" /\ Typed(q, "reads")
    BY <1>0, <1>3 DEF Begin, Quiet, TypeOK
  <2> QED BY <2>1, QuietStep
<1>4. ASSUME NEW q \in Requests, Reads(q) PROVE IInv'
  <2>1. Quiet /\ pc[q] = "reads" /\ Typed(q, "reserve")
    BY <1>0, <1>4 DEF Reads, Quiet, TypeOK
  <2> QED BY <2>1, QuietStep
<1>5. ASSUME NEW q \in Requests, ReserveDefault(q) PROVE IInv'
  <2>1. q \in RangeIds /\ q \notin active
    BY <1>5, IssuanceAssumption DEF ReserveDefault, ActiveFor, PrefixOf, RangeIds
  <2>2. PrefixOf(q) = PrefixFor[q] /\ FromOf(q) = 1
    BY IssuanceAssumption DEF PrefixOf, FromOf
  <2>3. current[q] + 1 = 1
    BY <2>1, <2>2 DEF IInv, RangesStart
  <2>4. /\ pc[q] = "reserve" /\ pc' = [pc EXCEPT ![q] = "insert"]
        /\ row' = [row EXCEPT ![q] = q]
        /\ number' = [number EXCEPT ![q] = current[q] + 1]
        /\ UNCHANGED <<active, current, holder, inserted, committed, answer, returned>>
    BY <1>5, <2>3 DEF ReserveDefault
  <2>5. holder' \in [RangeIds -> Requests \cup {None}]
    BY <1>0, <2>4 DEF TypeOK
  <2> HIDE DEF Goto, Answer, Typed
  <2> QED BY <2>1, <2>2, <2>4, <2>5, ReserveStep
<1>6. ASSUME NEW q \in Requests, NEW r \in RangeIds, ReserveFrom(q, r) PROVE IInv'
  <2>1. /\ r \in active /\ PrefixOf(r) = PrefixFor[q] /\ holder'[r] = q
        /\ holder' \in [RangeIds -> Requests \cup {None}]
        /\ \A x \in RangeIds : holder[x] # None => holder'[x] = holder[x]
    BY <1>0, <1>6 DEF ReserveFrom, ActiveFor, TypeOK
  <2>2. /\ pc[q] = "reserve" /\ pc' = [pc EXCEPT ![q] = "insert"]
        /\ row' = [row EXCEPT ![q] = r]
        /\ number' = [number EXCEPT ![q] = current[r] + 1]
        /\ UNCHANGED <<active, current, inserted, committed, answer, returned>>
    BY <1>6 DEF ReserveFrom
  <2> HIDE DEF Goto, Answer, Typed
  <2> QED BY <2>1, <2>2, ReserveStep
<1>7. ASSUME NEW q \in Requests, NEW r \in RangeIds, Exhausted(q, r) PROVE IInv'
  <2>1. Rollback(q) /\ pc[q] \in InTransaction /\ Typed(q, "done")
    BY <1>0, <1>7 DEF Exhausted, InTransaction, TypeOK
  <2> QED BY <2>1, RollbackStep
<1>8. ASSUME NEW q \in Requests, InsertKeyTaken(q) PROVE IInv'
  <2>1. Rollback(q) /\ pc[q] \in InTransaction /\ Typed(q, "reread")
    BY <1>0, <1>8 DEF InsertKeyTaken, InTransaction, TypeOK
  <2> QED BY <2>1, RollbackStep
<1>9. ASSUME NEW q \in Requests, InsertNumberTaken(q) PROVE IInv'
  <2>1. Rollback(q) /\ pc[q] \in InTransaction /\ Typed(q, "done")
    BY <1>0, <1>9 DEF InsertNumberTaken, InTransaction, TypeOK
  <2> QED BY <2>1, RollbackStep
<1>10. ASSUME NEW q \in Requests, Sign(q) PROVE IInv'
  <2>1. Quiet /\ pc[q] = "sign" /\ Typed(q, "commit")
    BY <1>0, <1>10 DEF Sign, Quiet, TypeOK
  <2> QED BY <2>1, QuietStep
<1>11. ASSUME NEW q \in Requests, Reread(q) PROVE IInv'
  <2>1. Quiet /\ pc[q] = "reread"
    BY <1>11 DEF Reread, Quiet
  <2>2. Typed(q, "done")
    BY <1>0, <1>1, <1>11 DEF Reread, TypeOK
  <2> QED BY <2>1, <2>2, QuietStep
<1>12. ASSUME NEW q \in Requests, Fail(q) PROVE IInv'
  <2>1. Rollback(q) /\ pc[q] \in InTransaction /\ Typed(q, "done")
    BY <1>0, <1>12 DEF Fail, InTransaction, TypeOK
  <2> QED BY <2>1, RollbackStep
<1>13. CASE UNCHANGED vars
  BY <1>13 DEF vars, IInv, TypeOK, Phases, Reservations, HasReserved, Provenance,
     RangesStart, NoClash, Clash, SameNumber, RangeGapFree
<1> QED
  BY <1>2, <1>3, <1>4, <1>5, <1>6, <1>7, <1>8, <1>9, <1>10, <1>11, <1>12, <1>13,
     InsertStep, CommitStep, CreateRangeStep DEF Next, Step

\* The inductive invariant holds in every reachable state.
THEOREM Invariance == Spec => []IInv
BY InitIInv, NextIInv, PTL DEF Spec

\* Types: every table and process keeps to its domain.
THEOREM TypeCorrect == Spec => []TypeOK
<1>1. IInv => TypeOK
  BY DEF IInv
<1> QED BY <1>1, Invariance, PTL

\* IdempotencyService: however many requests race with one key, and whatever
\* else happens to them, one invoice carries that key.
THEOREM IdempotencyHolds == Spec => []OncePerKey
<1>1. IInv => OncePerKey
  BY DEF IInv, NoClash, Clash, OncePerKey
<1> QED BY <1>1, Invariance, PTL

\* NumberingRangesService: no two invoices of a tenant share prefix and
\* number, whatever ranges exist and however they overlap.
THEOREM NumberingHolds == Spec => []NumbersUnique
<1>1. IInv => NumbersUnique
  BY DEF IInv, NoClash, Clash, NumbersUnique
<1> QED BY <1>1, Invariance, PTL

\* The reservation is part of the invoice's transaction: a range has given
\* every number up to its currentNumber to a committed invoice.
THEOREM GapFreeHolds == Spec => []RangeGapFree
<1>1. IInv => RangeGapFree
  BY DEF IInv
<1> QED BY <1>1, Invariance, PTL

(***************************************************************************)
(* Errors: what a done request reserved no longer changes, and neither do  *)
(* committed invoices.                                                     *)
(***************************************************************************)
LEMMA Kept ==
  ASSUME IInv, [Next]_vars
  PROVE  /\ committed \subseteq committed'
         /\ \A q \in Requests : pc[q] # "reserve" => row'[q] = row[q] /\ number'[q] = number[q]
<1>1. committed \subseteq committed'
  BY DEF Next, Step, vars, Lookup, Begin, Reads, ReserveDefault, ReserveFrom, Exhausted,
     Insert, InsertKeyTaken, InsertNumberTaken, Sign, Commit, Reread, Fail, Rollback, CreateRange
<1>2. CASE UNCHANGED <<row, number>>
  BY <1>1, <1>2
<1>3. CASE \E q \in Requests : /\ pc[q] = "reserve"
                               /\ \E r, n : /\ row' = [row EXCEPT ![q] = r]
                                            /\ number' = [number EXCEPT ![q] = n]
  BY <1>1, <1>3 DEF IInv, TypeOK
<1> QED
  BY <1>2, <1>3 DEF Next, Step, vars, Lookup, Begin, Reads, ReserveDefault, ReserveFrom,
     Exhausted, Insert, InsertKeyTaken, InsertNumberTaken, Sign, Commit, Reread, Fail,
     Rollback, CreateRange

\* The number that an insertion finds taken was given by another row, for its
\* own row has given only smaller ones.
LEMMA TakenElsewhere ==
  ASSUME IInv, NEW q \in Requests, pc[q] = "insert",
         NEW p \in committed, SameNumber(p, q)
  PROVE  LostTo(q, p)
<1> USE DEF IInv
<1>1. /\ row[q] \in RangeIds /\ number[q] = current[row[q]] + 1
      /\ current[row[q]] \in Nat /\ FromOf(row[q]) \in Nat
  BY FromOfPositive DEF Reservations, HasReserved, TypeOK
<1>2. ASSUME row[p] = row[q] PROVE FALSE
  <2>1. row[q] \in active
    BY <1>2 DEF Provenance
  <2>2. number[p] \in {number[z] : z \in {y \in committed : row[y] = row[q]}}
    BY <1>2
  <2>3. number[p] \in FromOf(row[q])..current[row[q]]
    BY <2>1, <2>2 DEF RangeGapFree
  <2> QED BY <1>1, <2>3 DEF SameNumber
<1> QED BY <1>2 DEF LostTo

\* Where a request other than the one that moves is, and what it was told.
LEMMA OneMoves ==
  ASSUME IInv, Explained, [Next]_vars, NEW q \in Requests
  PROVE  \/ pc'[q] = pc[q] /\ answer'[q] = answer[q]
         \/ pc[q] # "done" /\ pc'[q] # "reread" /\ answer'[q] # "error"
         \/ InsertKeyTaken(q)
         \/ InsertNumberTaken(q)
<1> USE DEF IInv, TypeOK, Goto, Answer
<1>0. ASSUME answer[q] = "error" PROVE pc[q] = "done"
  BY <1>0 DEF Explained
<1>1. CASE UNCHANGED <<pc, answer>>
  BY <1>1
<1>2. ASSUME NEW z \in Requests, NEW w, w # "reread", pc[z] # "done",
             pc' = [pc EXCEPT ![z] = w],
             \/ answer' = answer
             \/ \E a : a # "error" /\ answer' = [answer EXCEPT ![z] = a]
      PROVE  \/ pc'[q] = pc[q] /\ answer'[q] = answer[q]
             \/ pc[q] # "done" /\ pc'[q] # "reread" /\ answer'[q] # "error"
  BY <1>0, <1>2
<1>3. ASSUME NEW z \in Requests, Step(z) \/ Fail(z), z # q
      PROVE  pc'[q] = pc[q] /\ answer'[q] = answer[q]
  BY <1>3 DEF Step, Lookup, Begin, Reads, ReserveDefault, ReserveFrom, Exhausted, Insert,
     InsertKeyTaken, InsertNumberTaken, Sign, Commit, Reread, Fail, Verify
<1>4. ASSUME Lookup(q) \/ Reread(q)
      PROVE  pc[q] # "done" /\ pc'[q] # "reread" /\ answer'[q] # "error"
  BY <1>0, <1>4 DEF Lookup, Reread, Verify, Explained
<1>5. ASSUME \/ Begin(q) \/ Reads(q) \/ ReserveDefault(q) \/ Insert(q) \/ Sign(q)
             \/ \E r \in RangeIds : ReserveFrom(q, r)
      PROVE  pc[q] # "done" /\ pc'[q] # "reread" /\ answer'[q] # "error"
  BY <1>0, <1>5 DEF Begin, Reads, ReserveDefault, Insert, Sign, ReserveFrom
<1>6. ASSUME Commit(q) \/ Fail(q) \/ \E r \in RangeIds : Exhausted(q, r)
      PROVE  pc[q] # "done" /\ pc'[q] # "reread" /\ answer'[q] # "error"
  BY <1>0, <1>6 DEF Commit, Fail, Exhausted, InTransaction
<1> QED
  BY <1>1, <1>3, <1>4, <1>5, <1>6 DEF Next, Step, vars, CreateRange

LEMMA NextExplained == IInv /\ Explained /\ [Next]_vars => Explained'
<1> SUFFICES ASSUME IInv, Explained, [Next]_vars, NEW q \in Requests
             PROVE  /\ pc'[q] = "reread" => \E p \in committed' : SameKey(p, q)
                    /\ answer'[q] = "error" =>
                         pc'[q] = "done" /\ \E p \in committed' : LostTo(q, p)'
  BY DEF Explained, SameKey
<1>1. ASSUME NEW p \in committed, LostTo(q, p), pc[q] # "reserve"
      PROVE  p \in committed' /\ LostTo(q, p)'
  <2>1. p \in Requests /\ pc[p] # "reserve"
    BY DEF IInv, Phases, TypeOK
  <2> QED BY <1>1, <2>1, Kept DEF LostTo, SameNumber
<1>2. CASE pc'[q] = pc[q] /\ answer'[q] = answer[q]
  BY <1>1, <1>2, Kept DEF Explained
<1>3. CASE pc[q] # "done" /\ pc'[q] # "reread" /\ answer'[q] # "error"
  BY <1>3
<1>4. CASE InsertKeyTaken(q)
  <2>1. answer'[q] # "error"
    BY <1>4 DEF InsertKeyTaken, Explained
  <2> QED BY <1>4, <2>1, Kept DEF InsertKeyTaken
<1>5. CASE InsertNumberTaken(q)
  <2>1. pc[q] = "insert" /\ pc'[q] = "done" /\ \E p \in committed : LostTo(q, p)
    BY <1>5, TakenElsewhere DEF InsertNumberTaken, Answer, Goto, IInv, TypeOK
  <2> QED BY <1>1, <2>1
<1> QED BY <1>2, <1>3, <1>4, <1>5, OneMoves

\* IdempotencyService rethrows what is not a collision of keys: that happens
\* only to a request whose number another row of the prefix had given.
THEOREM ErrorsExplained == Spec => []NoSpuriousError
<1>1. Init => Explained
  BY DEF Init, Explained
<1>2. Explained => NoSpuriousError
  BY DEF Explained, NoSpuriousError
<1> QED BY <1>1, <1>2, Invariance, NextExplained, PTL DEF Spec

(***************************************************************************)
(* Refinement: Commit issues, everything else stutters.                    *)
(***************************************************************************)
LEMMA CommitIssues ==
  ASSUME IInv, NEW q \in Requests, Commit(q) PROVE LedgerOf!Next
<1> USE DEF IInv
<1>1. /\ HasReserved(q) /\ q \in inserted /\ q \notin committed
      /\ committed' = committed \cup {q}
      /\ UNCHANGED <<row, number>>
  BY DEF Commit, HasReserved, Phases
<1>2. /\ row[q] \in RangeIds
      /\ PrefixOf(row[q]) = PrefixFor[q]
      /\ number[q] = current[row[q]] + 1
      /\ \/ row[q] \in active
         \/ row[q] = q /\ q \notin active
  BY <1>1 DEF Reservations
<1>3. KeyOf[q] \in Keys
  BY DEF Keys
<1>4. \A b \in Book : b.key # KeyOf[q]
  BY <1>1 DEF Book, NoClash, Clash, SameKey
<1>5. \A b \in Book : PrefixOf(b.range) = PrefixOf(row[q]) => b.number # number[q]
  BY <1>1, <1>2 DEF Book, NoClash, Clash, SameNumber, Provenance
<1>6. /\ FromOf(row[q]) \in Nat /\ current[row[q]] \in Nat
      /\ current[row[q]] >= FromOf(row[q]) - 1
  BY <1>2, FromOfPositive DEF TypeOK, RangesStart
<1>7. LedgerOf!Follows(row[q], number[q])
  <2>1. CASE current[row[q]] >= FromOf(row[q])
    <3>1. row[q] \in active
      BY <1>2, <1>6, <2>1 DEF RangesStart
    <3>2. current[row[q]] \in {number[p] : p \in {z \in committed : row[z] = row[q]}}
      BY <1>6, <2>1, <3>1 DEF RangeGapFree
    <3>3. PICK p \in committed : row[p] = row[q] /\ number[p] = current[row[q]]
      BY <3>2
    <3>4. [range |-> row[p], number |-> number[p], key |-> KeyOf[p]] \in Book
      BY DEF Book
    <3> QED BY <1>2, <3>3, <3>4 DEF LedgerOf!Follows
  <2>2. CASE current[row[q]] = FromOf(row[q]) - 1
    <3>1. number[q] = FromOf(row[q])
      BY <1>2, <1>6, <2>2
    <3>2. \A p \in committed : row[p] # row[q]
      <4> SUFFICES ASSUME NEW p \in committed, row[p] = row[q] PROVE FALSE
        OBVIOUS
      <4>1. row[q] \in active
        BY DEF Provenance
      <4>2. number[p] \in {number[z] : z \in {y \in committed : row[y] = row[q]}}
        OBVIOUS
      <4>3. number[p] \in FromOf(row[q])..current[row[q]]
        BY <4>1, <4>2 DEF RangeGapFree
      <4> QED BY <1>6, <2>2, <4>3
    <3> QED BY <3>1, <3>2 DEF LedgerOf!Follows, Book
  <2> QED BY <1>6, <2>1, <2>2
<1>8. number[q] \in LedgerOf!Candidates(row[q])
  BY <1>7 DEF LedgerOf!Follows, LedgerOf!Candidates
<1>9. Book' = Book \cup {[range |-> row[q], number |-> number[q], key |-> KeyOf[q]]}
  BY <1>1 DEF Book
<1>10. LedgerOf!Issue(row[q], number[q], KeyOf[q])
  BY <1>4, <1>5, <1>7, <1>9 DEF LedgerOf!Issue
<1> QED BY <1>2, <1>3, <1>8, <1>10 DEF LedgerOf!Next

\* Requests that have committed keep their reservation.
LEMMA OthersStutter ==
  ASSUME IInv, [Next]_vars, \A q \in Requests : ~Commit(q) PROVE UNCHANGED Book
<1>1. committed' = committed
  BY DEF Next, Step, vars, Lookup, Begin, Reads, ReserveDefault, ReserveFrom, Exhausted,
     Insert, InsertKeyTaken, InsertNumberTaken, Sign, Reread, Fail, Rollback, CreateRange
<1>2. \A p \in committed : row'[p] = row[p] /\ number'[p] = number[p]
  <2>1. CASE UNCHANGED <<row, number>>
    BY <2>1
  <2>2. CASE \E q \in Requests : /\ pc[q] = "reserve"
                                 /\ \E r, n : /\ row' = [row EXCEPT ![q] = r]
                                              /\ number' = [number EXCEPT ![q] = n]
    BY <2>2 DEF IInv, Phases, TypeOK
  <2>3. QED
    BY <2>1, <2>2 DEF Next, Step, vars, Lookup, Begin, Reads, ReserveDefault, ReserveFrom,
       Exhausted, Insert, InsertKeyTaken, InsertNumberTaken, Sign, Reread, Fail, Rollback,
       CreateRange
<1> QED BY <1>1, <1>2 DEF Book

\* POST /invoices implements the ledger, for every number of requests and
\* every set of ranges.
THEOREM Refinement == Spec => ImplementsLedger
<1>1. Init => LedgerOf!Init
  BY DEF Init, LedgerOf!Init, Book
<1>2. IInv /\ [Next]_vars => [LedgerOf!Next]_Book
  BY CommitIssues, OthersStutter
<1> QED BY <1>1, <1>2, Invariance, PTL DEF Spec, ImplementsLedger, LedgerOf!Spec
===============================================================================

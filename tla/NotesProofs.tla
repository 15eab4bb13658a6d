------------------------------ MODULE NotesProofs ------------------------------
(***************************************************************************)
(* Notes for any number of credit notes, debit notes, invoices and ranges, *)
(* and any keys the requests bring.                                        *)
(***************************************************************************)
EXTENDS Notes, TLAPS

Before == {"lookup", "reserve", "default"}

\* Where a document is tells what it has.
Progress ==
  /\ \A d \in Documents : pc[d] \in Before => row[d] = None
  /\ \A d \in Documents : pc[d] \in {"insert", "sign", "commit"} => row[d] # None
  /\ \A d \in Documents : row[d] # None =>
       row[d] \in active \/ (d \in Issues /\ row[d] = d /\ pc[d] = "commit")
  /\ \A d \in Documents : d \in active => pc[d] \notin Before
  /\ \A q \in Notes : q \in inserted <=> pc[q] \in {"sign", "commit"}
  /\ \A d \in committed : pc[d] = "done"

\* An invoice on its way has every active range locked it found, or the one it
\* inserted, its own in any case.
Locking ==
  /\ \A r \in RangeIds : holder[r] # None =>
       (r \in active \/ r = holder[r]) /\ pc[holder[r]] = "commit"
  /\ \A v \in Issues : pc[v] = "commit" =>
       holder[row[v]] = v /\ number[v] = current[row[v]] + 1

Taker(d, r) == row[d] = r /\ holder[r] # d

\* A range counts what it gave away.
Counting ==
  /\ \A r \in RangeIds : current[r] >= FromOf(r) - 1 /\ (r \notin active => current[r] = FromOf(r) - 1)
  /\ \A d \in Documents : row[d] # None => number[d] >= FromOf(row[d])
  /\ \A r \in RangeIds, d \in Documents : Taker(d, r) => number[d] <= current[r]
  /\ \A r \in RangeIds : \A n \in FromOf(r)..current[r] : \E d \in Documents : Taker(d, r) /\ number[d] = n
  /\ \A r \in RangeIds, d, e \in Documents : Taker(d, r) /\ Taker(e, r) /\ number[d] = number[e] => d = e

\* The unique indexes, over committed rows and those a transaction waits for.
Apart == \A p, q \in inserted \cup (committed \cap Notes) : Clash(p, q) => p = q

\* What a note leaves behind is written with it.
Kept == events = committed \cap Notes /\ snapshot = committed \cap Notes

IInv == TypeOK /\ Progress /\ Locking /\ Counting /\ Apart /\ Kept /\ ReplayReturnsNote

LEMMA Kinds ==
  /\ Notes \subseteq Documents /\ Issues \subseteq Documents /\ Documents \subseteq RangeIds
  /\ Failing \subseteq Notes
  /\ \A d \in Documents : d # None
  /\ \A r \in RangeIds : r # None /\ FromOf(r) \in Nat /\ FromOf(r) > 0
  /\ \A d \in Documents : d \notin Configured /\ FromOf(d) = 1
  /\ \A q \in Notes : q \notin Issues
  /\ \A v \in Issues : v \notin Notes
BY NotesAssumption DEF Documents, RangeIds, FromOf

LEMMA InitIInv == Init => IInv
<1> SUFFICES ASSUME Init PROVE IInv
  OBVIOUS
<1>1. TypeOK
  <2>1. \A r \in RangeIds : FromOf(r) - 1 \in Nat
    BY Kinds
  <2>2. active \subseteq RangeIds /\ current \in [RangeIds -> Nat]
    BY <2>1 DEF Init, RangeIds
  <2> QED BY <2>2 DEF Init, TypeOK, States, Answers
<1>2. Progress /\ Locking
  BY Kinds DEF Init, Progress, Locking, Before
<1>3. Counting
  BY Kinds DEF Init, Counting, Taker, RangeIds
<1>4. Apart /\ Kept /\ ReplayReturnsNote
  BY Kinds DEF Init, Apart, Kept, ReplayReturnsNote
<1> QED BY <1>1, <1>2, <1>3, <1>4 DEF IInv

\* What the ranges and numbers say holds on while they stay.
LEMMA CountingStays == ASSUME Counting, UNCHANGED <<ranges, reserved>> PROVE Counting'
BY DEF Counting, Taker, ranges, reserved

LEMMA ClashStays ==
  ASSUME UNCHANGED <<input, number>> PROVE \A p, q \in Notes : Clash(p, q)' <=> Clash(p, q)
BY DEF Clash, SameKey, SameNumber, SameKind

\* Steps of a note that reserve, insert and commit nothing.
LEMMA PassingKeeps ==
  ASSUME IInv, NEW q \in Notes, NEW w \in States,
         UNCHANGED <<tenant, ranges, reserved, committed, snapshot, events>>,
         Goto(q, w), pc[q] # "done", w \notin {"insert", "sign"}, w \in Before => pc[q] \in Before,
         IF w = "commit" THEN pc[q] = "sign" /\ inserted' = inserted ELSE inserted' = inserted \ {q},
         \A p \in Documents : p # q => answer'[p] = answer[p] /\ returned'[p] = returned[p],
         answer' \in [Documents -> Answers], returned' \in [Documents -> Notes \cup {None}],
         answer'[q] = "replayed" =>
           \E p \in Existing(q) : returned'[q] = p /\ input[p].hash = input[q].hash
  PROVE  IInv'
<1> USE DEF IInv
<1>1. q \in Documents /\ pc'[q] = w /\ \A d \in Documents : d # q => pc'[d] = pc[d]
  BY Kinds DEF Goto, TypeOK
<1>2. inserted' \subseteq inserted /\ q \notin committed
  BY DEF Progress
<1>3. TypeOK'
  BY <1>2 DEF TypeOK, tenant, ranges, reserved, Goto
<1>4. Progress'
  <2>1. w = "commit" => row[q] # None /\ q \in inserted
    BY <1>1 DEF Progress
  <2>2. w # "commit" => w \notin {"insert", "sign", "commit"} /\ q \notin inserted'
    OBVIOUS
  <2>3. \A p \in Notes : p # q => (p \in inserted' <=> p \in inserted)
    OBVIOUS
  <2>4. /\ \A d \in Documents : pc'[d] \in Before => row'[d] = None
        /\ \A d \in Documents : pc'[d] \in {"insert", "sign", "commit"} => row'[d] # None
    BY <1>1, <2>1, <2>2 DEF Progress, reserved
  <2>5. \A p \in Notes : p \in inserted' <=> pc'[p] \in {"sign", "commit"}
    BY <1>1, <2>1, <2>2, <2>3, Kinds DEF Progress
  <2>6. \A d \in Documents : d \in active' => pc'[d] \notin Before
    BY <1>1, Kinds DEF Progress, ranges
  <2>7. \A d \in committed' : pc'[d] = "done"
    BY <1>1, <1>2 DEF Progress, TypeOK
  <2>8. \A d \in Documents : row'[d] # None =>
          row'[d] \in active' \/ (d \in Issues /\ row'[d] = d /\ pc'[d] = "commit")
    BY <1>1, Kinds DEF Progress, ranges, reserved
  <2> QED BY <2>4, <2>5, <2>6, <2>7, <2>8 DEF Progress
<1>5. Locking'
  <2>1. \A v \in Issues : pc'[v] = pc[v]
    BY <1>1, Kinds
  <2> QED BY <2>1 DEF Locking, TypeOK, ranges, reserved
<1>6. Counting'
  BY CountingStays
<1>7. Apart' /\ Kept'
  BY <1>2, ClashStays DEF Apart, Kept, TypeOK, tenant, reserved
<1>8. ReplayReturnsNote'
  <2>1. \A p \in Notes : Existing(p)' = Existing(p)
    BY DEF Existing, SameKey, SameKind, tenant
  <2> QED BY <2>1, Kinds DEF ReplayReturnsNote, tenant
<1> QED BY <1>3, <1>4, <1>5, <1>6, <1>7, <1>8

\* The answer a repeated request gets is the note it finds.
LEMMA VerifyReturns ==
  ASSUME IInv, NEW q \in Notes, NEW p \in Existing(q), Verify(q, p)
  PROVE  /\ Goto(q, "done")
         /\ \A d \in Documents : d # q => answer'[d] = answer[d] /\ returned'[d] = returned[d]
         /\ answer' \in [Documents -> Answers] /\ returned' \in [Documents -> Notes \cup {None}]
         /\ answer'[q] = "replayed" => returned'[q] = p /\ input[p].hash = input[q].hash
<1> USE DEF IInv
<1>1. p \in snapshot /\ p \in Notes /\ q \in Documents
  BY Kinds DEF Existing, Kept
<1>2. CASE input[p].hash = input[q].hash
  BY <1>1, <1>2 DEF Verify, Answer, TypeOK, Answers
<1>3. CASE input[p].hash # input[q].hash
  BY <1>1, <1>3 DEF Verify, Answer, TypeOK, Answers
<1> QED BY <1>2, <1>3

LEMMA AnsweredKeeps ==
  ASSUME IInv, NEW q \in Notes,
         \/ Refuse(q) \/ Exhausted(q) \/ InsertNumberTaken(q) \/ SignAndSubmit(q) \/ Fail(q)
  PROVE  IInv'
<1> USE DEF IInv
<1>1. q \in Documents
  BY Kinds
<1>2. PICK a \in {"refused", "exhausted", "error", "failed"} : Answer(q, a)
  BY DEF Refuse, Exhausted, InsertNumberTaken, SignAndSubmit, Fail
<1>3. /\ UNCHANGED <<tenant, ranges, reserved, committed, snapshot, events, returned>>
      /\ pc[q] # "done" /\ inserted' \in {inserted, inserted \ {q}}
      /\ pc[q] \notin {"insert", "sign", "commit"} \/ inserted' = inserted \ {q}
  BY DEF Refuse, Exhausted, InsertNumberTaken, SignAndSubmit, Fail, Rollback, tables
<1>4. inserted' = inserted \ {q}
  BY <1>3 DEF Progress
<1>5. /\ answer' \in [Documents -> Answers] /\ answer'[q] # "replayed"
      /\ \A d \in Documents : d # q => answer'[d] = answer[d]
  BY <1>1, <1>2 DEF Answer, TypeOK, Answers
<1>6. Goto(q, "done") /\ returned' \in [Documents -> Notes \cup {None}]
  BY <1>2, <1>3 DEF Answer, TypeOK
<1> QED BY <1>3, <1>4, <1>5, <1>6, PassingKeeps DEF States, Before

LEMMA WalkingKeeps ==
  ASSUME IInv, NEW q \in Notes,
         Lookup(q) \/ ReserveNone(q) \/ InsertKeyTaken(q) \/ Reread(q) \/ LeaveUnsigned(q)
  PROVE  IInv'
<1> USE DEF IInv
<1>1. q \in Documents /\ \A d \in Documents : answer[d] \in Answers
  BY Kinds DEF TypeOK
<1>2. CASE Lookup(q)
  <2>1. UNCHANGED <<tenant, ranges, reserved, tables>> /\ pc[q] = "lookup" /\ inserted' = inserted \ {q}
    BY <1>2 DEF Lookup, Progress, tables
  <2>2. CASE Existing(q) = {}
    <3>1. Goto(q, "reserve") /\ UNCHANGED <<answer, returned>>
      BY <1>2, <2>2 DEF Lookup
    <3>2. answer[q] # "replayed"
      BY <2>2 DEF ReplayReturnsNote
    <3> QED BY <2>1, <3>1, <3>2, PassingKeeps DEF States, Before, tables, TypeOK
  <2>3. CASE Existing(q) # {}
    <3>1. PICK p \in Existing(q) : Verify(q, p)
      BY <1>2, <2>3 DEF Lookup
    <3> QED BY <2>1, <3>1, VerifyReturns, PassingKeeps DEF States, Before, tables
  <2> QED BY <2>2, <2>3
<1>3. CASE ReserveNone(q)
  <2>1. pc[q] = "reserve" /\ Goto(q, "default") /\ inserted' = inserted \ {q}
        /\ UNCHANGED <<tenant, ranges, reserved, tables, answer, returned>>
    BY <1>3 DEF ReserveNone, Progress, tables
  <2> QED BY <2>1, PassingKeeps DEF States, Before, tables, TypeOK, ReplayReturnsNote
<1>4. CASE InsertKeyTaken(q)
  <2>1. pc[q] = "insert" /\ Goto(q, "reread") /\ inserted' = inserted \ {q}
        /\ UNCHANGED <<tenant, ranges, reserved, committed, snapshot, events, answer, returned>>
    BY <1>4 DEF InsertKeyTaken, Rollback
  <2> QED BY <2>1, PassingKeeps DEF States, Before, TypeOK, ReplayReturnsNote
<1>5. CASE Reread(q)
  <2>1. UNCHANGED <<tenant, ranges, reserved, tables>> /\ pc[q] = "reread" /\ inserted' = inserted \ {q}
    BY <1>5 DEF Reread, Progress, tables
  <2>2. PICK p \in Existing(q) : Verify(q, p)
    BY <1>5 DEF Reread
  <2> QED BY <2>1, <2>2, VerifyReturns, PassingKeeps DEF States, Before, tables
<1>6. CASE LeaveUnsigned(q)
  <2>1. pc[q] = "sign" /\ Goto(q, "commit") /\ UNCHANGED <<tenant, ranges, reserved, tables, answer, returned>>
    BY <1>6 DEF LeaveUnsigned
  <2> QED BY <2>1, PassingKeeps DEF States, Before, tables, TypeOK, ReplayReturnsNote
<1> QED BY <1>2, <1>3, <1>4, <1>5, <1>6

LEMMA UploadKeeps == ASSUME IInv, UploadCertificate PROVE IInv'
<1> USE DEF IInv, UploadCertificate
<1>1. TypeOK' /\ Progress' /\ Locking' /\ Kept'
  BY DEF TypeOK, Progress, Locking, Kept, ranges, reserved, tables
<1>2. Counting' /\ Apart'
  BY CountingStays, ClashStays DEF Apart, TypeOK, tables, reserved
<1>3. ReplayReturnsNote'
  BY DEF ReplayReturnsNote, Existing, SameKey, SameKind, tables
<1> QED BY <1>1, <1>2, <1>3

-------------------------------------------------------------------------------
(* Invoices of the prefix *)

LEMMA IssueReserveKeeps ==
  ASSUME IInv, NEW v \in Issues, IssueReserve(v) \/ IssueDefault(v) PROVE IInv'
<1> USE DEF IInv
<1>1. v \in Documents /\ v \in RangeIds /\ v \notin Notes /\ pc[v] = "lookup" /\ row[v] = None /\ v # None
  BY Kinds DEF IssueReserve, IssueDefault, Progress, Before
<1>2. /\ UNCHANGED <<tenant, active, current, tables, answer, returned>> /\ Goto(v, "commit")
      /\ \E r \in RangeIds :
           /\ holder[r] = None /\ holder'[r] = v /\ (r \in active \/ r = v)
           /\ row' = [row EXCEPT ![v] = r]
           /\ number' = [number EXCEPT ![v] = current[r] + 1]
      /\ holder' \in [RangeIds -> Issues \cup {None}]
      /\ \A x \in RangeIds :
           holder'[x] = holder[x] \/ (holder[x] = None /\ holder'[x] = v /\ (x \in active \/ x = v))
  <2>1. CASE IssueReserve(v)
    <3>1. PICK r \in active : /\ row' = [row EXCEPT ![v] = r]
                              /\ number' = [number EXCEPT ![v] = current[r] + 1]
      BY <2>1 DEF IssueReserve
    <3>2. /\ \A x \in active : holder[x] = None
          /\ holder' = [x \in RangeIds |-> IF x \in active THEN v ELSE holder[x]]
          /\ UNCHANGED <<tenant, active, current, tables, answer, returned>> /\ Goto(v, "commit")
      BY <2>1 DEF IssueReserve
    <3> QED BY <3>1, <3>2 DEF TypeOK
  <2>2. CASE IssueDefault(v)
    <3>1. v \notin active /\ holder[v] = None
      BY <1>1 DEF Progress, Before, Locking
    <3>2. current[v] + 1 = 1
      BY <1>1, <3>1, Kinds DEF Counting
    <3>3. /\ row' = [row EXCEPT ![v] = v] /\ number' = [number EXCEPT ![v] = current[v] + 1]
          /\ holder' = [holder EXCEPT ![v] = v]
          /\ UNCHANGED <<tenant, active, current, tables, answer, returned>> /\ Goto(v, "commit")
      BY <2>2, <3>2 DEF IssueDefault
    <3> QED BY <1>1, <3>1, <3>3 DEF TypeOK
  <2> QED BY <2>1, <2>2
<1>3. PICK r \in RangeIds :
        /\ holder[r] = None /\ holder'[r] = v /\ (r \in active \/ r = v)
        /\ row' = [row EXCEPT ![v] = r]
        /\ number' = [number EXCEPT ![v] = current[r] + 1]
  BY <1>2
<1>4. /\ pc'[v] = "commit" /\ row'[v] = r /\ number'[v] = current[r] + 1
      /\ \A d \in Documents : d # v => pc'[d] = pc[d] /\ row'[d] = row[d] /\ number'[d] = number[d]
  BY <1>1, <1>2, <1>3 DEF Goto, TypeOK
<1>5. r # None /\ current[r] \in Nat /\ FromOf(r) \in Nat /\ current[r] >= FromOf(r) - 1
  BY Kinds DEF TypeOK, Counting
<1>6. v \notin committed /\ v \notin inserted
  BY <1>1 DEF Progress, TypeOK
<1>7. TypeOK'
  <2>1. row' \in [Documents -> RangeIds \cup {None}]
    BY <1>3 DEF TypeOK
  <2>2. number' \in [Documents -> Nat]
    <3>1. current[r] + 1 \in Nat
      BY <1>5
    <3> QED BY <1>3, <3>1 DEF TypeOK
  <2>3. pc' \in [Documents -> States]
    BY <1>2 DEF Goto, TypeOK, States
  <2>4. \A d \in inserted \cup committed : row'[d] \in active /\ number'[d] > 0
    BY <1>4, <1>6, Kinds DEF TypeOK
  <2> QED BY <1>2, <2>1, <2>2, <2>3, <2>4 DEF TypeOK, tenant, tables
<1>8. Progress'
  BY <1>1, <1>2, <1>3, <1>4, <1>5, <1>6, Kinds DEF Progress, tables, Before, TypeOK
<1>9. Locking'
  <2>1. \A u \in Issues : u # v /\ pc[u] = "commit" => row[u] \in RangeIds /\ holder'[row[u]] = u
    BY <1>2, Kinds DEF Locking, Progress, TypeOK
  <2>2. \A u \in Issues : pc'[u] = "commit" =>
          holder'[row'[u]] = u /\ number'[u] = current'[row'[u]] + 1
    BY <1>2, <1>3, <1>4, <2>1, Kinds DEF Locking
  <2>3. \A x \in RangeIds : holder'[x] # None =>
          (x \in active' \/ x = holder'[x]) /\ pc'[holder'[x]] = "commit"
    BY <1>2, <1>4, Kinds DEF Locking, TypeOK
  <2> QED BY <2>2, <2>3 DEF Locking
<1>10. Counting'
  <2>1. \A x \in RangeIds, d \in Documents : Taker(d, x)' <=> Taker(d, x)
    <3> SUFFICES ASSUME NEW x \in RangeIds, NEW d \in Documents PROVE Taker(d, x)' <=> Taker(d, x)
      OBVIOUS
    <3>1. CASE d = v
      BY <1>1, <1>3, <1>4, <3>1, Kinds DEF Taker
    <3>2. CASE d # v
      BY <1>2, <1>4, <3>2, Kinds DEF Taker
    <3> QED BY <3>1, <3>2
  <2>2. \A x \in RangeIds : ~Taker(v, x)
    BY <1>1, Kinds DEF Taker
  <2>3. \A d \in Documents : row'[d] # None => number'[d] >= FromOf(row'[d])
    BY <1>4, <1>5 DEF Counting
  <2>4. \A x \in RangeIds, d \in Documents : Taker(d, x)' => Taker(d, x) /\ number'[d] = number[d]
    BY <1>4, <2>1, <2>2
  <2>5. \A x \in RangeIds, d \in Documents : Taker(d, x) => Taker(d, x)' /\ number'[d] = number[d]
    BY <1>4, <2>1, <2>2
  <2>6. \A x \in RangeIds, d \in Documents : Taker(d, x)' => number'[d] <= current[x]
    BY <2>4 DEF Counting
  <2>7. \A x \in RangeIds : \A n \in FromOf(x)..current[x] : \E d \in Documents : Taker(d, x)' /\ number'[d] = n
    BY <2>5 DEF Counting
  <2>8. \A x \in RangeIds, d, e \in Documents :
          Taker(d, x)' /\ Taker(e, x)' /\ number'[d] = number'[e] => d = e
    BY <2>4 DEF Counting
  <2>9. active' = active /\ current' = current
    BY <1>2
  <2> QED BY <2>3, <2>6, <2>7, <2>8, <2>9 DEF Counting
<1>11. Apart' /\ Kept' /\ ReplayReturnsNote'
  <2>1. \A p, q \in Notes : Clash(p, q)' <=> Clash(p, q)
    BY <1>1, <1>2, <1>4, Kinds DEF Clash, SameKey, SameNumber, SameKind, tenant
  <2> QED BY <1>2, <2>1 DEF Apart, Kept, ReplayReturnsNote, Existing, SameKey, SameKind, TypeOK,
             tenant, tables
<1> QED BY <1>7, <1>8, <1>9, <1>10, <1>11

\* What the end of an invoice leaves alone.
LEMMA IssueEnds ==
  ASSUME IInv, NEW v \in Issues, IssueEnd(v)
  PROVE  /\ v \in Documents /\ v \notin Notes /\ pc[v] = "commit" /\ v \notin committed
         /\ row[v] \in RangeIds
         /\ holder[row[v]] = v /\ number[v] = current[row[v]] + 1
         /\ pc'[v] = "done" /\ \A d \in Documents : d # v => pc'[d] = pc[d]
         /\ \A x \in RangeIds : holder'[x] = IF holder[x] = v THEN None ELSE holder[x]
         /\ holder' \in [RangeIds -> Issues \cup {None}]
         /\ pc' \in [Documents -> States] /\ answer' \in [Documents -> Answers]
         /\ \A q \in Notes : answer'[q] = answer[q]
         /\ UNCHANGED <<tenant, inserted, snapshot, events, returned>>
         /\ committed' \cap Notes = committed \cap Notes
         /\ ReplayReturnsNote'
<1> USE DEF IInv
<1>1. v \in Documents /\ v \notin Notes /\ pc[v] = "commit"
  BY Kinds DEF IssueEnd, IssueCommit, IssueRollback
<1>2. /\ v \notin committed /\ row[v] \in RangeIds
      /\ holder[row[v]] = v /\ number[v] = current[row[v]] + 1
  BY <1>1, Kinds DEF Progress, Locking, TypeOK
<1>3. Unlock(v) /\ \E a \in {"created", "failed"} : Answer(v, a)
  BY DEF IssueEnd, IssueCommit, IssueRollback
<1>4. /\ pc'[v] = "done" /\ \A d \in Documents : d # v => pc'[d] = pc[d] /\ answer'[d] = answer[d]
      /\ pc' \in [Documents -> States] /\ answer' \in [Documents -> Answers]
  BY <1>1, <1>3 DEF Answer, Goto, TypeOK, States, Answers
<1>5. /\ \A x \in RangeIds : holder'[x] = IF holder[x] = v THEN None ELSE holder[x]
      /\ holder' \in [RangeIds -> Issues \cup {None}]
  BY <1>3 DEF Unlock, TypeOK
<1>6. /\ UNCHANGED <<tenant, inserted, snapshot, events, returned>>
      /\ committed' \cap Notes = committed \cap Notes
  BY <1>1 DEF IssueEnd, IssueCommit, IssueRollback, tables
<1>7. \A q \in Notes : answer'[q] = answer[q]
  BY <1>1, <1>4, Kinds
<1>8. ReplayReturnsNote'
  BY <1>6, <1>7 DEF ReplayReturnsNote, Existing, SameKey, SameKind, tenant
<1> QED BY <1>1, <1>2, <1>4, <1>5, <1>6, <1>7, <1>8

LEMMA IssueCommitKeeps == ASSUME IInv, NEW v \in Issues, IssueCommit(v) PROVE IInv'
<1> USE DEF IInv
<1> DEFINE r == row[v]
<1>1. IssueEnd(v)
  BY DEF IssueEnd
<1>2. /\ v \in Documents /\ pc[v] = "commit" /\ r \in RangeIds
      /\ holder[r] = v /\ number[v] = current[r] + 1
      /\ current[r] \in Nat /\ FromOf(r) \in Nat /\ v # None
  BY <1>1, IssueEnds, Kinds DEF TypeOK
<1>3. /\ current'[r] = current[r] + 1 /\ \A x \in RangeIds : x # r => current'[x] = current[x]
      /\ current' \in [RangeIds -> Nat]
  BY <1>2 DEF IssueCommit, TypeOK
<1>4. /\ UNCHANGED <<reserved, inserted, snapshot, events>> /\ committed' = committed \cup {v}
      /\ active' = active \cup {r}
  BY DEF IssueCommit
<1>5. \A x \in RangeIds : holder'[x] = IF holder[x] = v THEN None ELSE holder[x]
  BY <1>1, IssueEnds
<1>6. TypeOK'
  <2>1. row[v] \in active' /\ number[v] > 0 /\ active' \subseteq RangeIds
    BY <1>2, <1>4 DEF TypeOK
  <2> QED BY <1>1, <1>3, <1>4, <2>1, IssueEnds DEF TypeOK, IssueCommit, reserved, tenant
<1>7. Progress'
  BY <1>1, <1>4, IssueEnds, Kinds DEF Progress, reserved, Before, TypeOK
<1>8. Locking'
  <2>1. \A x \in RangeIds : holder'[x] # None => holder'[x] = holder[x] /\ holder[x] # v
    BY <1>5
  <2>2. \A u \in Issues : u # v /\ pc[u] = "commit" => row[u] # r
    BY <1>2 DEF Locking
  <2>3. \A u \in Issues : u # v /\ pc[u] = "commit" => row[u] \in RangeIds /\ holder'[row[u]] = u
    BY <1>5, Kinds DEF Locking, Progress, TypeOK
  <2>4. \A x \in RangeIds : holder'[x] # None =>
          (x \in active' \/ x = holder'[x]) /\ pc'[holder'[x]] = "commit"
    BY <1>1, <1>4, <2>1, IssueEnds, Kinds DEF Locking, TypeOK
  <2>5. \A u \in Issues : pc'[u] = "commit" =>
          holder'[row'[u]] = u /\ number'[u] = current'[row'[u]] + 1
    BY <1>1, <1>3, <1>4, <2>2, <2>3, IssueEnds, Kinds DEF Locking, reserved
  <2> QED BY <2>4, <2>5 DEF Locking
<1>9. Counting'
  <2>1. \A x \in RangeIds, d \in Documents :
          Taker(d, x)' <=> Taker(d, x) \/ (d = v /\ x = r)
    BY <1>2, <1>4, <1>5, Kinds DEF Taker, reserved
  <2>2. ~Taker(v, r)
    BY <1>2 DEF Taker
  <2>3. \A d \in Documents : Taker(d, r) => number[d] <= current[r]
    BY <1>2 DEF Counting
  <2>4. \A x \in RangeIds, d \in Documents : Taker(d, x)' => number'[d] <= current'[x]
    BY <1>2, <1>3, <1>4, <2>1 DEF Counting, reserved, TypeOK
  <2>5. \A x \in RangeIds : \A n \in FromOf(x)..current'[x] :
          \E d \in Documents : Taker(d, x)' /\ number'[d] = n
    <3> SUFFICES ASSUME NEW x \in RangeIds, NEW n \in FromOf(x)..current'[x]
                 PROVE  \E d \in Documents : Taker(d, x)' /\ number'[d] = n
      OBVIOUS
    <3>1. CASE x = r /\ n = current[r] + 1
      BY <1>2, <1>4, <2>1, <3>1 DEF reserved
    <3>2. CASE ~(x = r /\ n = current[r] + 1)
      <4>1. n \in FromOf(x)..current[x]
        BY <1>2, <1>3, <3>2, Kinds DEF TypeOK
      <4>2. PICK d \in Documents : Taker(d, x) /\ number[d] = n
        BY <4>1 DEF Counting
      <4> QED BY <1>4, <2>1, <4>2 DEF reserved
    <3> QED BY <3>1, <3>2
  <2>6. \A x \in RangeIds, d, e \in Documents :
          Taker(d, x)' /\ Taker(e, x)' /\ number'[d] = number'[e] => d = e
    <3> SUFFICES ASSUME NEW x \in RangeIds, NEW d \in Documents, NEW e \in Documents,
                        Taker(d, x)', Taker(e, x)', number[d] = number[e]
                 PROVE  d = e
      BY <1>4 DEF reserved
    <3>1. CASE Taker(d, x) /\ Taker(e, x)
      BY <3>1 DEF Counting
    <3>2. CASE ~Taker(d, x)
      <4>1. d = v /\ x = r
        BY <2>1, <3>2
      <4>2. e # v => number[e] <= current[r]
        BY <2>1, <2>3, <4>1
      <4>3. number[e] = current[r] + 1
        BY <1>2, <4>1
      <4> QED BY <1>2, <4>1, <4>2, <4>3
    <3>3. CASE ~Taker(e, x)
      <4>1. e = v /\ x = r
        BY <2>1, <3>3
      <4>2. d # v => number[d] <= current[r]
        BY <2>1, <2>3, <4>1
      <4>3. number[d] = current[r] + 1
        BY <1>2, <4>1
      <4> QED BY <1>2, <4>1, <4>2, <4>3
    <3> QED BY <3>1, <3>2, <3>3
  <2>7. \A x \in RangeIds :
          current'[x] >= FromOf(x) - 1 /\ (x \notin active' => current'[x] = FromOf(x) - 1)
    BY <1>2, <1>3, <1>4, Kinds DEF Counting, TypeOK
  <2> QED BY <1>4, <2>4, <2>5, <2>6, <2>7 DEF Counting, reserved
<1>10. Apart' /\ Kept'
  BY <1>1, <1>4, IssueEnds, ClashStays DEF Apart, Kept, TypeOK, tenant, reserved
<1> QED BY <1>1, <1>6, <1>7, <1>8, <1>9, <1>10, IssueEnds

LEMMA IssueRollbackKeeps == ASSUME IInv, NEW v \in Issues, IssueRollback(v) PROVE IInv'
<1> USE DEF IInv
<1>1. IssueEnd(v)
  BY DEF IssueEnd
<1>2. /\ v \in Documents /\ pc[v] = "commit" /\ holder[row[v]] = v /\ v \notin Notes
      /\ v \notin committed /\ v # None
  BY <1>1, IssueEnds, Kinds
<1>3. /\ UNCHANGED <<active, current, tables>>
      /\ row'[v] = None
      /\ \A d \in Documents : d # v => row'[d] = row[d] /\ number'[d] = number[d]
      /\ row' \in [Documents -> RangeIds \cup {None}] /\ number' \in [Documents -> Nat]
  BY <1>2 DEF IssueRollback, TypeOK
<1>4. \A x \in RangeIds : holder'[x] = IF holder[x] = v THEN None ELSE holder[x]
  BY <1>1, IssueEnds
<1>5. TypeOK'
  <2>1. \A d \in inserted \cup committed : row'[d] \in active /\ number'[d] > 0
    BY <1>2, <1>3, Kinds DEF TypeOK
  <2> QED BY <1>1, <1>3, <2>1, IssueEnds DEF TypeOK, IssueRollback, tables, tenant
<1>6. Progress'
  BY <1>1, <1>2, <1>3, IssueEnds, Kinds DEF Progress, tables, Before, TypeOK
<1>7. Locking'
  <2>1. \A x \in RangeIds : holder'[x] # None => holder'[x] = holder[x] /\ holder[x] # v
    BY <1>4
  <2>2. \A u \in Issues : u # v /\ pc[u] = "commit" => row[u] \in RangeIds /\ holder'[row[u]] = u
    BY <1>4, Kinds DEF Locking, Progress, TypeOK
  <2>3. \A x \in RangeIds : holder'[x] # None =>
          (x \in active' \/ x = holder'[x]) /\ pc'[holder'[x]] = "commit"
    BY <1>1, <1>3, <2>1, IssueEnds, Kinds DEF Locking, TypeOK
  <2>4. \A u \in Issues : pc'[u] = "commit" =>
          holder'[row'[u]] = u /\ number'[u] = current'[row'[u]] + 1
    BY <1>1, <1>3, <2>2, IssueEnds, Kinds DEF Locking
  <2> QED BY <2>3, <2>4 DEF Locking
<1>8. Counting'
  <2>1. \A x \in RangeIds, d \in Documents : Taker(d, x)' <=> Taker(d, x)
    BY <1>2, <1>3, <1>4, Kinds DEF Taker
  <2>2. \A x \in RangeIds, d \in Documents : Taker(d, x) => d # v
    BY <1>2 DEF Taker
  <2>4. \A x \in RangeIds, d \in Documents :
          /\ Taker(d, x)' => Taker(d, x) /\ number'[d] = number[d]
          /\ Taker(d, x) => Taker(d, x)' /\ number'[d] = number[d]
    BY <1>3, <2>1, <2>2
  <2>5. \A d \in Documents : row'[d] # None => number'[d] >= FromOf(row'[d])
    BY <1>3 DEF Counting
  <2>6. \A x \in RangeIds, d \in Documents : Taker(d, x)' => number'[d] <= current[x]
    BY <2>4 DEF Counting
  <2>7. \A x \in RangeIds : \A n \in FromOf(x)..current[x] : \E d \in Documents : Taker(d, x)' /\ number'[d] = n
    BY <2>4 DEF Counting
  <2>8. \A x \in RangeIds, d, e \in Documents :
          Taker(d, x)' /\ Taker(e, x)' /\ number'[d] = number'[e] => d = e
    BY <2>4 DEF Counting
  <2> QED BY <1>3, <2>5, <2>6, <2>7, <2>8 DEF Counting
<1>9. Apart' /\ Kept'
  <2>1. \A p, q \in Notes : Clash(p, q)' <=> Clash(p, q)
    BY <1>1, <1>2, <1>3, IssueEnds, Kinds DEF Clash, SameKey, SameNumber, SameKind, tenant
  <2> QED BY <1>1, <1>3, <2>1, IssueEnds DEF Apart, Kept, TypeOK, tables
<1> QED BY <1>1, <1>5, <1>6, <1>7, <1>8, <1>9, IssueEnds

-------------------------------------------------------------------------------
(* Notes that reserve, insert and commit *)

\* A number is taken from a range nobody holds, which may be a new one.
LEMMA TakeKeeps ==
  ASSUME IInv, NEW q \in Notes, NEW r \in RangeIds,
         pc[q] \in {"reserve", "default"}, holder[r] = None,
         active' = active \cup {r}, Take(q, r, current[r] + 1),
         r \notin active => r = q,
         UNCHANGED <<tenant, holder, tables, answer, returned>>
  PROVE  IInv'
<1> USE DEF IInv
<1>1. /\ q \in Documents /\ row[q] = None /\ q \notin committed /\ q \notin inserted /\ r # None
      /\ current[r] \in Nat /\ FromOf(r) \in Nat /\ FromOf(r) > 0 /\ current[r] >= FromOf(r) - 1
  BY Kinds DEF Progress, Before, Counting, TypeOK
<1>2. /\ pc'[q] = "insert" /\ row'[q] = r /\ number'[q] = current[r] + 1
      /\ current'[r] = current[r] + 1
      /\ \A d \in Documents : d # q => pc'[d] = pc[d] /\ row'[d] = row[d] /\ number'[d] = number[d]
      /\ \A x \in RangeIds : x # r => current'[x] = current[x]
  BY <1>1 DEF Take, Goto, TypeOK
<1>3. TypeOK'
  <2>1. current[r] + 1 \in Nat
    BY <1>1
  <2>2. row' \in [Documents -> RangeIds \cup {None}]
    BY DEF Take, TypeOK
  <2>3. number' \in [Documents -> Nat] /\ current' \in [RangeIds -> Nat]
    BY <2>1 DEF Take, TypeOK
  <2>4. pc' \in [Documents -> States]
    BY DEF Take, Goto, TypeOK, States
  <2>5. \A d \in inserted \cup committed : row'[d] \in active' /\ number'[d] > 0
    BY <1>1, <1>2, Kinds DEF TypeOK
  <2> QED BY <2>2, <2>3, <2>4, <2>5 DEF TypeOK, tenant, tables
<1>4. Progress'
  <2>1. \A d \in Documents : d \in active' => pc'[d] \notin Before
    BY <1>1, <1>2, Kinds DEF Progress, Before
  <2> QED BY <1>1, <1>2, <2>1, Kinds DEF Progress, tables, Before, TypeOK
<1>5. Locking'
  <2>1. \A v \in Issues : pc'[v] = pc[v] /\ row'[v] = row[v] /\ number'[v] = number[v]
    BY <1>2, Kinds
  <2>2. \A v \in Issues : pc[v] = "commit" => row[v] \in RangeIds /\ row[v] # r
    BY Kinds DEF Locking, Progress, TypeOK
  <2>3. \A x \in RangeIds : holder[x] # None => holder[x] \in Issues
    BY DEF TypeOK
  <2> QED BY <1>2, <2>1, <2>2, <2>3 DEF Locking
<1>6. Counting'
  <2>1. \A x \in RangeIds, d \in Documents : Taker(d, x)' <=> Taker(d, x) \/ (d = q /\ x = r)
    BY <1>1, <1>2, Kinds DEF Taker
  <2>2. \A x \in RangeIds : ~Taker(q, x)
    BY <1>1, Kinds DEF Taker
  <2>3. \A x \in RangeIds, d \in Documents : Taker(d, x) => number[d] <= current[x]
    BY DEF Counting
  <2>4. \A x \in RangeIds : \A n \in FromOf(x)..current[x] : \E d \in Documents : Taker(d, x) /\ number[d] = n
    BY DEF Counting
  <2>5. \A x \in RangeIds, d, e \in Documents :
          Taker(d, x) /\ Taker(e, x) /\ number[d] = number[e] => d = e
    BY DEF Counting
  <2>6. active' \subseteq RangeIds
    BY DEF TypeOK
  <2>7. \A x \in RangeIds, d \in Documents : Taker(d, x)' => number'[d] <= current'[x]
    <3> SUFFICES ASSUME NEW x \in RangeIds, NEW d \in Documents, Taker(d, x)'
                 PROVE  number'[d] <= current'[x]
      OBVIOUS
    <3>1. CASE d = q
      BY <1>1, <1>2, <2>1, <2>2, <3>1
    <3>2. CASE d # q
      <4>1. number[d] <= current[x] /\ number'[d] = number[d] /\ number[d] \in Nat
        BY <1>2, <2>1, <2>3, <3>2 DEF TypeOK
      <4> QED BY <1>1, <1>2, <4>1 DEF TypeOK
    <3> QED BY <3>1, <3>2
  <2>8. \A x \in RangeIds : \A n \in FromOf(x)..current'[x] :
          \E d \in Documents : Taker(d, x)' /\ number'[d] = n
    <3> SUFFICES ASSUME NEW x \in RangeIds, NEW n \in FromOf(x)..current'[x]
                 PROVE  \E d \in Documents : Taker(d, x)' /\ number'[d] = n
      OBVIOUS
    <3>1. CASE x = r /\ n = current[r] + 1
      BY <1>1, <1>2, <2>1, <3>1
    <3>2. CASE ~(x = r /\ n = current[r] + 1)
      <4>1. n \in FromOf(x)..current[x]
        BY <1>1, <1>2, <3>2, Kinds DEF TypeOK
      <4>2. PICK d \in Documents : Taker(d, x) /\ number[d] = n
        BY <2>4, <4>1
      <4> QED BY <1>2, <2>1, <2>2, <4>2
    <3> QED BY <3>1, <3>2
  <2>9. \A x \in RangeIds, d, e \in Documents :
          Taker(d, x)' /\ Taker(e, x)' /\ number'[d] = number'[e] => d = e
    <3> SUFFICES ASSUME NEW x \in RangeIds, NEW d \in Documents, NEW e \in Documents,
                        Taker(d, x)', Taker(e, x)', number'[d] = number'[e], d # e
                 PROVE  FALSE
      OBVIOUS
    <3>1. CASE d # q /\ e # q
      BY <1>2, <2>1, <2>5, <3>1
    <3>2. CASE d = q
      <4>1. x = r /\ number[e] <= current[r] /\ number[e] = current[r] + 1 /\ number[e] \in Nat
        BY <1>2, <2>1, <2>2, <2>3, <3>2 DEF TypeOK
      <4> QED BY <1>1, <4>1
    <3>3. CASE e = q
      <4>1. x = r /\ number[d] <= current[r] /\ number[d] = current[r] + 1 /\ number[d] \in Nat
        BY <1>2, <2>1, <2>2, <2>3, <3>3 DEF TypeOK
      <4> QED BY <1>1, <4>1
    <3> QED BY <3>1, <3>2, <3>3
  <2>10. \A d \in Documents : row'[d] # None => number'[d] >= FromOf(row'[d])
    BY <1>1, <1>2 DEF Counting
  <2>11. \A x \in RangeIds :
           current'[x] >= FromOf(x) - 1 /\ (x \notin active' => current'[x] = FromOf(x) - 1)
    BY <1>1, <1>2 DEF Counting
  <2> QED BY <2>6, <2>7, <2>8, <2>9, <2>10, <2>11 DEF Counting
<1>7. Apart' /\ Kept'
  <2>1. \A p, u \in inserted \cup (committed \cap Notes) : Clash(p, u)' <=> Clash(p, u)
    BY <1>1, <1>2, Kinds DEF Clash, SameKey, SameNumber, SameKind, tenant, TypeOK
  <2> QED BY <2>1 DEF Apart, Kept, tables
<1>8. ReplayReturnsNote'
  BY DEF ReplayReturnsNote, Existing, SameKey, SameKind, tenant, tables
<1> QED BY <1>3, <1>4, <1>5, <1>6, <1>7, <1>8

LEMMA ReserveKeeps == ASSUME IInv, NEW q \in Notes, Reserve(q) \/ ReserveDefault(q) PROVE IInv'
<1> USE DEF IInv
<1>1. CASE Reserve(q)
  <2>1. PICK r \in active : current[r] + 1 <= ToOf(r) /\ Take(q, r, current[r] + 1)
    BY <1>1 DEF Reserve
  <2>2. r \in RangeIds /\ holder[r] = None /\ active' = active \cup {r} /\ pc[q] = "reserve"
        /\ UNCHANGED <<tenant, holder, tables, answer, returned>>
    BY <1>1 DEF Reserve, TypeOK
  <2> QED BY <2>1, <2>2, TakeKeeps
<1>2. CASE ReserveDefault(q)
  <2>1. pc[q] = "default" /\ active' = active \cup {q} /\ Take(q, q, 1)
        /\ UNCHANGED <<tenant, holder, tables, answer, returned>>
    BY <1>2 DEF ReserveDefault
  <2>2. q \in RangeIds /\ q \notin active /\ holder[q] = None
    BY <2>1, Kinds DEF Progress, Before, Locking
  <2>3. current[q] + 1 = 1
    BY <2>2, Kinds DEF Counting
  <2>4. Take(q, q, current[q] + 1)
    BY <2>1, <2>3
  <2> QED BY <2>1, <2>2, <2>4, TakeKeeps
<1> QED BY <1>1, <1>2

LEMMA InsertKeeps == ASSUME IInv, NEW q \in Notes, Insert(q) PROVE IInv'
<1> USE DEF IInv
<1>1. /\ q \in Documents /\ pc[q] = "insert" /\ q \notin committed /\ row[q] \in active
      /\ row[q] # None /\ number[q] > 0
  <2>1. pc[q] = "insert" /\ q \in Documents /\ row[q] # None /\ row[q] \in RangeIds
    BY Kinds DEF Insert, Progress, TypeOK
  <2>2. number[q] >= FromOf(row[q]) /\ number[q] \in Nat
    BY <2>1 DEF Counting, TypeOK
  <2> QED BY <2>1, <2>2, Kinds DEF Progress
<1>2. pc'[q] = "sign" /\ \A d \in Documents : d # q => pc'[d] = pc[d]
  BY <1>1 DEF Insert, Goto, TypeOK
<1>3. TypeOK'
  BY <1>1 DEF TypeOK, Insert, Goto, States, tenant, ranges, reserved
<1>4. Progress'
  BY <1>1, <1>2, Kinds DEF Progress, Insert, Before, ranges, reserved, TypeOK
<1>5. Locking' /\ Counting'
  BY <1>2, Kinds, CountingStays DEF Locking, Insert, ranges, reserved, TypeOK
<1>6. Apart'
  <2>1. \A p \in inserted \cup (committed \cap Notes) : ~Clash(p, q) /\ ~Clash(q, p)
    BY DEF Insert, Clash, SameKey, SameNumber, SameKind
  <2>2. \A p, u \in Notes : Clash(p, u)' <=> Clash(p, u)
    BY ClashStays DEF Insert, tenant, reserved
  <2> QED BY <2>1, <2>2 DEF Apart, Insert, TypeOK
<1>7. Kept' /\ ReplayReturnsNote'
  BY DEF Kept, ReplayReturnsNote, Existing, SameKey, SameKind, Insert, tenant
<1> QED BY <1>3, <1>4, <1>5, <1>6, <1>7

LEMMA CommitKeeps == ASSUME IInv, NEW q \in Notes, Commit(q) PROVE IInv'
<1> USE DEF IInv
<1>1. q \in Documents /\ pc[q] = "commit" /\ q \in inserted /\ q \notin committed
  BY Kinds DEF Commit, Progress
<1>2. /\ pc'[q] = "done" /\ answer'[q] = "created"
      /\ \A d \in Documents : d # q => pc'[d] = pc[d] /\ answer'[d] = answer[d] /\ returned'[d] = returned[d]
  BY <1>1 DEF Commit, Answer, Goto, TypeOK
<1>3. TypeOK'
  BY <1>1 DEF TypeOK, Commit, Answer, Goto, States, Answers, tenant, ranges, reserved
<1>4. Progress'
  BY <1>1, <1>2, Kinds DEF Progress, Commit, Before, ranges, reserved, TypeOK
<1>5. Locking' /\ Counting'
  BY <1>2, Kinds, CountingStays DEF Locking, Commit, ranges, reserved, TypeOK
<1>6. Apart' /\ Kept'
  BY <1>1, ClashStays DEF Apart, Kept, Commit, TypeOK, tenant, reserved
<1>7. ReplayReturnsNote'
  <2>1. \A p \in Notes : Existing(p) \subseteq Existing(p)'
    BY DEF Existing, SameKey, SameKind, Commit, tenant
  <2> QED BY <1>2, <2>1, Kinds DEF ReplayReturnsNote, Commit, tenant
<1> QED BY <1>3, <1>4, <1>5, <1>6, <1>7

LEMMA StepIInv == IInv /\ [Next]_vars => IInv'
<1> SUFFICES ASSUME IInv, [Next]_vars PROVE IInv'
  OBVIOUS
<1>1. CASE UploadCertificate
  BY <1>1, UploadKeeps
<1>2. CASE \E v \in Issues : IssueReserve(v) \/ IssueDefault(v) \/ IssueEnd(v)
  BY <1>2, IssueReserveKeeps, IssueCommitKeeps, IssueRollbackKeeps DEF IssueEnd
<1>3. CASE \E q \in Notes : Step(q)
  BY <1>3, AnsweredKeeps, WalkingKeeps, ReserveKeeps, InsertKeeps, CommitKeeps DEF Step
<1>4. CASE \E q \in Failing : Fail(q)
  BY <1>4, AnsweredKeeps, Kinds
<1>5. CASE UNCHANGED vars
  <2>1. UNCHANGED <<tenant, ranges, reserved, tables, pc, answer, returned>>
    BY <1>5 DEF vars
  <2>2. TypeOK' /\ Progress' /\ Locking' /\ Kept' /\ ReplayReturnsNote'
    BY <2>1 DEF IInv, TypeOK, Progress, Locking, Kept, ReplayReturnsNote, Existing, SameKey, SameKind,
                tenant, ranges, reserved, tables
  <2>3. Counting' /\ Apart'
    BY <2>1, CountingStays, ClashStays DEF IInv, Apart, TypeOK, tables, tenant, reserved
  <2> QED BY <2>2, <2>3 DEF IInv
<1> QED BY <1>1, <1>2, <1>3, <1>4, <1>5 DEF Next

\* What holds of notes, ranges and invoices in every interleaving.
THEOREM Invariance == Spec => []IInv
BY InitIInv, StepIInv, PTL DEF Spec

\* The types, and that what is stored has its number.
THEOREM TypeCorrect == Spec => []TypeOK
BY Invariance, PTL DEF IInv

\* One Idempotency-Key makes one note of a kind.
THEOREM KeysHold == Spec => []OncePerKey
<1>1. IInv => OncePerKey
  BY DEF IInv, Apart, Clash, OncePerKey
<1> QED BY <1>1, Invariance, PTL

\* Two notes of a kind never share a number.
THEOREM NumbersHold == Spec => []NumbersUnique
<1>1. IInv => NumbersUnique
  BY DEF IInv, Apart, Clash, NumbersUnique
<1> QED BY <1>1, Invariance, PTL

\* Every number of a range was given away once.
THEOREM GapsHold == Spec => []GapsAreLostNotes
<1>1. IInv => GapsAreLostNotes
  <2> SUFFICES ASSUME IInv, NEW r \in active
               PROVE  LET takers == {d \in Documents : row[d] = r /\ holder[r] # d} IN
                      /\ \A n \in FromOf(r)..current[r] : \E d \in takers : number[d] = n
                      /\ \A d, e \in takers : number[d] = number[e] => d = e
    BY DEF GapsAreLostNotes
  <2>1. r \in RangeIds
    BY DEF IInv, TypeOK
  <2> QED BY <2>1 DEF IInv, Counting, Taker
<1> QED BY <1>1, Invariance, PTL

\* A note is announced, and only a note that is.
THEOREM EventsHold == Spec => []EventsMatchNotes
<1>1. IInv => EventsMatchNotes
  BY DEF IInv, Kept, EventsMatchNotes
<1> QED BY <1>1, Invariance, PTL

\* A repeated request gets its first note.
THEOREM ReplayHolds == Spec => []ReplayReturnsNote
BY Invariance, PTL DEF IInv
================================================================================

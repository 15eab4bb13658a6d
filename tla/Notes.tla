-------------------------------- MODULE Notes ---------------------------------
(***************************************************************************)
(* Credit and debit notes of one invoice, beside invoices that take their  *)
(* numbers from the same prefix.  The two services differ in table and     *)
(* reason codes only.                                                      *)
(*                                                                         *)
(* Unlike an invoice, a note reserves its number over a connection of its  *)
(* own, and that transaction commits before the one of the note does.      *)
(***************************************************************************)
EXTENDS Integers, FiniteSets

CONSTANTS
  Credits, Debits,  \* requests for a note
  Issues,           \* transactions that issue an invoice of the prefix
  Inputs,           \* what the requests may bring: Idempotency-Key and hash of the rest
  Amount,           \* totalAmount of each note
  Total,            \* totalAmount of the invoice
  WithReason,       \* requests whose reasonCode is in the catalogue of their kind
  Configured,       \* active ranges of the prefix
  RangeFrom, RangeTo,
  DefaultTo,        \* toNumber of the range made when there is none
  Failing,          \* requests whose transaction may fail
  None

Notes == Credits \cup Debits
Documents == Notes \cup Issues
\* A default range is named by the document that inserted it.
RangeIds == Configured \cup Documents
FromOf(r) == IF r \in Configured THEN RangeFrom[r] ELSE 1
ToOf(r) == IF r \in Configured THEN RangeTo[r] ELSE DefaultTo

ASSUME NotesAssumption ==
  /\ Credits \cap Debits = {} /\ Notes \cap Issues = {}
  /\ Configured \cap Documents = {}
  /\ None \notin Documents \cup Configured
  /\ \A r \in Configured : RangeFrom[r] \in Nat \ {0} /\ RangeTo[r] \in Nat
  /\ DefaultTo \in Nat \ {0} /\ Failing \subseteq Notes
  /\ \A i \in Inputs : DOMAIN i = Notes

VARIABLES
  input,     \* what each request brings
  accepted,  \* TRUE when the invoice is accepted
  signing,   \* TRUE once the tenant has an active certificate
  active,    \* rows of numbering_ranges
  current,   \* their currentNumber
  holder,    \* the invoice transaction that has the lock of each
  row, number, \* what each document reserved
  inserted,  \* notes inserted and not yet committed
  committed, \* notes committed, and invoices
  snapshot,  \* notes whose response_snapshot is written
  events,    \* notes with a committed CREDIT_NOTE_CREATED, DEBIT_NOTE_CREATED
  pc, answer,
  returned   \* the note a response carries

tenant == <<input, accepted, signing>>
ranges == <<active, current, holder>>
reserved == <<row, number>>
tables == <<inserted, committed, snapshot, events>>
vars == <<tenant, ranges, reserved, tables, pc, answer, returned>>

Init ==
  /\ input \in Inputs
  /\ accepted \in BOOLEAN /\ signing = FALSE
  /\ active = Configured
  /\ current = [r \in RangeIds |-> FromOf(r) - 1]
  /\ holder = [r \in RangeIds |-> None]
  /\ row = [d \in Documents |-> None]
  /\ number = [d \in Documents |-> 0]
  /\ inserted = {} /\ committed = {} /\ snapshot = {} /\ events = {}
  /\ pc = [d \in Documents |-> "lookup"]
  /\ answer = [d \in Documents |-> "none"]
  /\ returned = [d \in Documents |-> None]

Goto(d, where) == pc' = [pc EXCEPT ![d] = where]
Answer(d, what) ==
  /\ answer' = [answer EXCEPT ![d] = what]
  /\ Goto(d, "done")

SameKind(p, q) == p \in Credits <=> q \in Credits
SameKey(p, q) == SameKind(p, q) /\ input[p].key = input[q].key
SameNumber(p, q) == SameKind(p, q) /\ number[p] = number[q]

\* Faulty variants: one of the two unique indexes is missing.
ClashNumberOnly(p, q) == SameNumber(p, q)
ClashKeyOnly(p, q) == SameKey(p, q)

\* The unique indexes the entities declare; prefix stays "".  No migration has
\* the one on numbers, nor the columns prefix and version every INSERT names: a
\* note is written only where synchronize made the tables from the entities.
Clash(p, q) == SameKey(p, q) \/ SameNumber(p, q)

-------------------------------------------------------------------------------
(* What else happens to the tenant *)

UploadCertificate ==
  /\ ~signing /\ signing' = TRUE
  /\ UNCHANGED <<input, accepted, ranges, reserved, tables, pc, answer, returned>>

\* An invoice locks the range until its transaction ends.
IssueReserve(v) ==
  /\ pc[v] = "lookup"
  /\ \A x \in active : holder[x] = None
  /\ \E r \in active :
       /\ current[r] + 1 <= ToOf(r)
       /\ row' = [row EXCEPT ![v] = r]
       /\ number' = [number EXCEPT ![v] = current[r] + 1]
  /\ holder' = [x \in RangeIds |-> IF x \in active THEN v ELSE holder[x]]
  /\ Goto(v, "commit")
  /\ UNCHANGED <<tenant, active, current, tables, answer, returned>>

\* It finds no range: the one it inserts is its own until it commits.
IssueDefault(v) ==
  /\ pc[v] = "lookup"
  /\ active = {}
  /\ row' = [row EXCEPT ![v] = v]
  /\ number' = [number EXCEPT ![v] = 1]
  /\ holder' = [holder EXCEPT ![v] = v]
  /\ Goto(v, "commit")
  /\ UNCHANGED <<tenant, active, current, tables, answer, returned>>

Unlock(v) == holder' = [x \in RangeIds |-> IF holder[x] = v THEN None ELSE holder[x]]

IssueCommit(v) ==
  /\ pc[v] = "commit"
  /\ active' = active \cup {row[v]}
  /\ current' = [current EXCEPT ![row[v]] = number[v]]
  /\ committed' = committed \cup {v}
  /\ Unlock(v)
  /\ Answer(v, "created")
  /\ UNCHANGED <<tenant, reserved, inserted, snapshot, events, returned>>

IssueRollback(v) ==
  /\ pc[v] = "commit"
  /\ Unlock(v)
  /\ Answer(v, "failed")
  /\ row' = [row EXCEPT ![v] = None]
  /\ number' = [number EXCEPT ![v] = 0]
  /\ UNCHANGED <<tenant, active, current, tables, returned>>

-------------------------------------------------------------------------------
(* create *)

Acceptable(q) == accepted /\ q \in WithReason /\ Amount[q] <= Total

Refuse(q) ==
  /\ pc[q] = "lookup"
  /\ ~Acceptable(q)
  /\ Answer(q, "refused")
  /\ UNCHANGED <<tenant, ranges, reserved, tables, returned>>

\* verifyExisting: the stored response, or 409 when the payload differs.
Verify(q, p) ==
  IF input[p].hash = input[q].hash
  THEN /\ Answer(q, "replayed")
       /\ returned' = [returned EXCEPT ![q] = IF p \in snapshot THEN p ELSE None]
  ELSE Answer(q, "conflict") /\ UNCHANGED returned

Existing(q) == {p \in committed \cap Notes : SameKey(p, q)}

Lookup(q) ==
  /\ pc[q] = "lookup"
  /\ Acceptable(q)
  /\ IF Existing(q) = {}
     THEN Goto(q, "reserve") /\ UNCHANGED <<answer, returned>>
     ELSE \E p \in Existing(q) : Verify(q, p)
  /\ UNCHANGED <<tenant, ranges, reserved, tables>>

Take(q, r, n) ==
  /\ row' = [row EXCEPT ![q] = r]
  /\ number' = [number EXCEPT ![q] = n]
  /\ current' = [current EXCEPT ![r] = n]
  /\ Goto(q, "insert")

\* Faulty variant: SELECT without FOR UPDATE.
ReserveUnlocked(q) ==
  /\ pc[q] = "reserve"
  /\ \E r \in active : current[r] + 1 <= ToOf(r) /\ Take(q, r, current[r] + 1)
  /\ UNCHANGED <<tenant, active, holder, tables, answer, returned>>

\* The reservation waits for the row locks, and is committed.
Reserve(q) ==
  /\ pc[q] = "reserve"
  /\ \A x \in active : holder[x] = None
  /\ \E r \in active : current[r] + 1 <= ToOf(r) /\ Take(q, r, current[r] + 1)
  /\ UNCHANGED <<tenant, active, holder, tables, answer, returned>>

\* The transaction has read no range, and goes on to insert one.
ReserveNone(q) ==
  /\ pc[q] = "reserve"
  /\ active = {}
  /\ Goto(q, "default")
  /\ UNCHANGED <<tenant, ranges, reserved, tables, answer, returned>>

ReserveDefault(q) ==
  /\ pc[q] = "default"
  /\ active' = active \cup {q}
  /\ Take(q, q, 1)
  /\ UNCHANGED <<tenant, holder, tables, answer, returned>>

Exhausted(q) ==
  /\ pc[q] = "reserve"
  /\ \A x \in active : holder[x] = None
  /\ \E r \in active : current[r] + 1 > ToOf(r)
  /\ Answer(q, "exhausted")
  /\ UNCHANGED <<tenant, ranges, reserved, tables, returned>>

\* The note and its event; an uncommitted row with the same key or number is
\* waited for.
Insert(q) ==
  /\ pc[q] = "insert"
  /\ \A p \in inserted \cup (committed \cap Notes) : ~Clash(p, q)
  /\ inserted' = inserted \cup {q}
  /\ Goto(q, "sign")
  /\ UNCHANGED <<tenant, ranges, reserved, committed, snapshot, events, answer, returned>>

\* The number stays reserved.
Rollback(q) ==
  /\ inserted' = inserted \ {q}
  /\ UNCHANGED <<tenant, ranges, reserved, committed, snapshot, events>>

\* 23505: the idempotency index leads to a second read, the other is rethrown.
InsertKeyTaken(q) ==
  /\ pc[q] = "insert"
  /\ Existing(q) # {}
  /\ Goto(q, "reread")
  /\ Rollback(q)
  /\ UNCHANGED <<answer, returned>>

InsertNumberTaken(q) ==
  /\ pc[q] = "insert"
  /\ \E p \in committed \cap Notes : SameNumber(p, q)
  /\ Answer(q, "error")
  /\ Rollback(q)
  /\ UNCHANGED returned

Reread(q) ==
  /\ pc[q] = "reread"
  /\ \E p \in Existing(q) : Verify(q, p)
  /\ UNCHANGED <<tenant, ranges, reserved, tables>>

\* No certificate: the XML stays unsigned.
LeaveUnsigned(q) ==
  /\ pc[q] = "sign" /\ ~signing
  /\ Goto(q, "commit")
  /\ UNCHANGED <<tenant, ranges, reserved, tables, answer, returned>>

\* With one, dian_submissions.invoice_id is the id of the note, which its
\* foreign key does not find among the invoices: 23503, and the transaction ends.
SignAndSubmit(q) ==
  /\ pc[q] = "sign" /\ signing
  /\ Answer(q, "error")
  /\ Rollback(q)
  /\ UNCHANGED returned

\* Faulty variant: responseSnapshot is left out, as in invoices.
CommitUnkept(q) ==
  /\ pc[q] = "commit"
  /\ inserted' = inserted \ {q}
  /\ committed' = committed \cup {q}
  /\ events' = events \cup {q}
  /\ Answer(q, "created")
  /\ returned' = [returned EXCEPT ![q] = q]
  /\ UNCHANGED <<tenant, ranges, reserved, snapshot>>

Commit(q) ==
  /\ pc[q] = "commit"
  /\ inserted' = inserted \ {q}
  /\ committed' = committed \cup {q}
  /\ snapshot' = snapshot \cup {q}
  /\ events' = events \cup {q}
  /\ Answer(q, "created")
  /\ returned' = [returned EXCEPT ![q] = q]
  /\ UNCHANGED <<tenant, ranges, reserved>>

\* No credentials, before a number is taken; a lost connection, a file that
\* cannot be written.
Fail(q) ==
  /\ pc[q] \in {"reserve", "default", "insert", "sign", "commit"}
  /\ Answer(q, "failed")
  /\ Rollback(q)
  /\ UNCHANGED returned

Step(q) ==
  \/ Refuse(q) \/ Lookup(q)
  \/ Reserve(q) \/ ReserveNone(q) \/ ReserveDefault(q) \/ Exhausted(q)
  \/ Insert(q) \/ InsertKeyTaken(q) \/ InsertNumberTaken(q) \/ Reread(q)
  \/ LeaveUnsigned(q) \/ SignAndSubmit(q) \/ Commit(q)

\* How an invoice of the prefix starts is its client's choice, its end is not.
IssueEnd(v) == IssueCommit(v) \/ IssueRollback(v)

Next ==
  \/ UploadCertificate
  \/ \E v \in Issues : IssueReserve(v) \/ IssueDefault(v) \/ IssueEnd(v)
  \/ \E q \in Notes : Step(q)
  \/ \E q \in Failing : Fail(q)

Spec == Init /\ [][Next]_vars

-------------------------------------------------------------------------------

States == {"lookup", "reserve", "default", "insert", "reread", "sign", "commit", "done"}
Answers ==
  {"none", "refused", "created", "replayed", "conflict", "exhausted", "error", "failed"}

\* The types; what is inserted or committed has a number.
TypeOK ==
  /\ input \in Inputs
  /\ accepted \in BOOLEAN /\ signing \in BOOLEAN
  /\ active \subseteq RangeIds
  /\ current \in [RangeIds -> Nat]
  /\ holder \in [RangeIds -> Issues \cup {None}]
  /\ row \in [Documents -> RangeIds \cup {None}]
  /\ number \in [Documents -> Nat]
  /\ inserted \subseteq Notes /\ committed \subseteq Documents
  /\ snapshot \subseteq Notes /\ events \subseteq Notes
  /\ \A d \in inserted \cup committed : row[d] \in active /\ number[d] > 0
  /\ pc \in [Documents -> States]
  /\ answer \in [Documents -> Answers]
  /\ returned \in [Documents -> Notes \cup {None}]

\* Racing requests with one Idempotency-Key make one note of a kind.
OncePerKey ==
  \A p, q \in committed \cap Notes : SameKey(p, q) => p = q

\* Two notes of a kind never share a number, though two requests that find no
\* range insert two defaults.
NumbersUnique ==
  \A p, q \in committed \cap Notes : SameNumber(p, q) => p = q

\* Whatever fails, a range gives each of its numbers to one document and skips
\* none: behind every gap between the issued ones is a note that was lost.
GapsAreLostNotes ==
  \A r \in active :
    LET takers == {d \in Documents : row[d] = r /\ holder[r] # d} IN
    /\ \A n \in FromOf(r)..current[r] : \E d \in takers : number[d] = n
    /\ \A d, e \in takers : number[d] = number[e] => d = e

\* A note and the outbox event that announces it are committed together.
EventsMatchNotes == events = committed \cap Notes

\* A repeated request gets the note its first one made.
ReplayReturnsNote ==
  \A q \in Notes : answer[q] = "replayed" =>
    \E p \in Existing(q) : returned[q] = p /\ input[p].hash = input[q].hash
===============================================================================

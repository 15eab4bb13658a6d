------------------------------- MODULE Issuance -------------------------------
(***************************************************************************)
(* POST /invoices up to its commit: IdempotencyService, the transaction of *)
(* InvoicesService.create and NumberingRangesService.reserveNextNumber,    *)
(* for one tenant, over PostgreSQL at READ COMMITTED.                      *)
(*                                                                         *)
(* Inside the transaction the service also reads through its injected      *)
(* repositories, which take a second connection from the pool while the    *)
(* transaction keeps the first.                                            *)
(*                                                                         *)
(* validateInvoice is taken to return; module Validations says when it     *)
(* does not.  A request whose validation throws is one that fails.         *)
(***************************************************************************)
EXTENDS Integers, FiniteSets

CONSTANTS
  Requests,       \* HTTP requests; a client's retry is another request
  KeyOf,          \* the idempotencyKey of each request
  PayloadOf,      \* its payload, up to SHA-256
  PrefixFor,      \* the prefix it asks for
  Configured,     \* ranges that POST /numbering-ranges creates
  InitiallyActive,\* those that exist from the start
  RangePrefix,    \* the prefix of each configured range
  RangeFrom,      \* fromNumber
  RangeTo,        \* toNumber
  DefaultTo,      \* toNumber of the range made when a prefix has none
  None,           \* no request, no range
  Pool,           \* connections of the pool
  Electronic,     \* TRUE: the tenant has credentials and a certificate
  Failures        \* TRUE: a transaction may fail for reasons of its own

ASSUME IssuanceAssumption ==
  /\ Requests \cap Configured = {}
  /\ None \notin Requests \cup Configured
  /\ InitiallyActive \subseteq Configured
  /\ \A r \in Configured : RangeFrom[r] \in Nat \ {0} /\ RangeTo[r] \in Nat
  /\ DefaultTo \in Nat \ {0}
  /\ Pool \in Nat \ {0}
  /\ Electronic \in BOOLEAN /\ Failures \in BOOLEAN

\* A row of numbering_ranges is named by the request that inserted it as a
\* default, or is configured.
RangeIds == Configured \cup Requests
PrefixOf(r) == IF r \in Configured THEN RangePrefix[r] ELSE PrefixFor[r]
FromOf(r) == IF r \in Configured THEN RangeFrom[r] ELSE 1
ToOf(r) == IF r \in Configured THEN RangeTo[r] ELSE DefaultTo
Keys == {KeyOf[q] : q \in Requests}

VARIABLES
  active,     \* committed rows of numbering_ranges
  current,    \* their currentNumber
  holder,     \* who has the row lock of SELECT ... FOR UPDATE
  pc,         \* where each request is
  row,        \* the range it reserved from
  number,     \* the number it reserved
  inserted,   \* requests whose invoice is inserted and not yet committed
  committed,  \* requests whose invoice is committed
  answer,     \* what the client was told
  returned    \* the request whose invoice the response carries

vars == <<active, current, holder, pc, row, number, inserted, committed, answer, returned>>

Init ==
  /\ active = InitiallyActive
  /\ current = [r \in RangeIds |-> FromOf(r) - 1]
  /\ holder = [r \in RangeIds |-> None]
  /\ pc = [q \in Requests |-> "lookup"]
  /\ row = [q \in Requests |-> None]
  /\ number = [q \in Requests |-> 0]
  /\ inserted = {}
  /\ committed = {}
  /\ answer = [q \in Requests |-> "none"]
  /\ returned = [q \in Requests |-> None]

InTransaction == {"reads", "reserve", "insert", "sign", "commit"}
Free == Pool - Cardinality({q \in Requests : pc[q] \in InTransaction})

Goto(q, where) == pc' = [pc EXCEPT ![q] = where]
Answer(q, what) ==
  /\ answer' = [answer EXCEPT ![q] = what]
  /\ Goto(q, "done")

SameKey(p, q) == KeyOf[p] = KeyOf[q]
SameNumber(p, q) == PrefixFor[p] = PrefixFor[q] /\ number[p] = number[q]
\* Faulty variants: one of the two unique indexes is missing.
ClashNumberOnly(p, q) == SameNumber(p, q)
ClashKeyOnly(p, q) == SameKey(p, q)

Clash(p, q) == SameKey(p, q) \/ SameNumber(p, q)

\* Faulty variant: the row lock outlives the transaction.
ReleaseNothing(q) == UNCHANGED holder

Release(q) == holder' = [r \in RangeIds |-> IF holder[r] = q THEN None ELSE holder[r]]
\* Faulty variant: the reservation was committed on its own.
RollbackKeepsNumber(q) ==
  /\ Release(q)
  /\ inserted' = inserted \ {q}
  /\ current' = IF row[q] = None THEN current ELSE [current EXCEPT ![row[q]] = number[q]]
  /\ UNCHANGED <<active, row, number, committed>>

Rollback(q) ==
  /\ Release(q)
  /\ inserted' = inserted \ {q}
  /\ UNCHANGED <<active, current, row, number, committed>>

\* invoices.response_snapshot is never written by create.
SnapshotOf(p) == None

\* verifyExisting: replay, or 409 when the payload differs.
Verify(q, p) ==
  IF PayloadOf[p] = PayloadOf[q]
  THEN Answer(q, "replayed") /\ returned' = [returned EXCEPT ![q] = SnapshotOf(p)]
  ELSE Answer(q, "conflict") /\ UNCHANGED returned

\* The optimistic read before the transaction.
Lookup(q) ==
  /\ pc[q] = "lookup"
  /\ Free > 0
  /\ \/ \E p \in committed : SameKey(p, q) /\ Verify(q, p)
     \/ /\ \A p \in committed : ~SameKey(p, q)
        /\ Goto(q, "begin")
        /\ UNCHANGED <<answer, returned>>
  /\ UNCHANGED <<active, current, holder, row, number, inserted, committed>>

Begin(q) ==
  /\ pc[q] = "begin"
  /\ Free > 0
  /\ Goto(q, "reads")
  /\ UNCHANGED <<active, current, holder, row, number, inserted, committed, answer, returned>>

\* Customer, tenant, credentials and certificate: repositories outside the
\* transaction.
Reads(q) ==
  /\ pc[q] = "reads"
  /\ Free > 0
  /\ Goto(q, "reserve")
  /\ UNCHANGED <<active, current, holder, row, number, inserted, committed, answer, returned>>

ActiveFor(q) == {r \in active : PrefixOf(r) = PrefixFor[q]}

\* Faulty variant: SELECT without FOR UPDATE.
ReserveFromUnlocked(q, r) ==
  /\ pc[q] = "reserve"
  /\ r \in ActiveFor(q)
  /\ current[r] + 1 <= ToOf(r)
  /\ row' = [row EXCEPT ![q] = r]
  /\ number' = [number EXCEPT ![q] = current[r] + 1]
  /\ Goto(q, "insert")
  /\ UNCHANGED <<active, current, holder, inserted, committed, answer, returned>>

\* SELECT ... FOR UPDATE waits for, then locks, every active range of the
\* prefix; getOne keeps one of them.  The incremented currentNumber is
\* visible to others on commit.
ReserveFrom(q, r) ==
  /\ pc[q] = "reserve"
  /\ r \in ActiveFor(q)
  /\ \A x \in ActiveFor(q) : holder[x] = None
  /\ current[r] + 1 <= ToOf(r)
  /\ holder' = [x \in RangeIds |-> IF x \in ActiveFor(q) THEN q ELSE holder[x]]
  /\ row' = [row EXCEPT ![q] = r]
  /\ number' = [number EXCEPT ![q] = current[r] + 1]
  /\ Goto(q, "insert")
  /\ UNCHANGED <<active, current, inserted, committed, answer, returned>>

Exhausted(q, r) ==
  /\ pc[q] = "reserve"
  /\ r \in ActiveFor(q)
  /\ \A x \in ActiveFor(q) : holder[x] = None
  /\ current[r] + 1 > ToOf(r)
  /\ Answer(q, "exhausted")
  /\ Rollback(q)
  /\ UNCHANGED returned

\* Faulty variant: gives currentNumber instead of its successor.
ReserveDefaultUncounted(q) ==
  /\ pc[q] = "reserve"
  /\ ActiveFor(q) = {}
  /\ row' = [row EXCEPT ![q] = q]
  /\ number' = [number EXCEPT ![q] = 0]
  /\ Goto(q, "insert")
  /\ UNCHANGED <<active, current, holder, inserted, committed, answer, returned>>

\* No range is visible: insert the default one, visible to others on commit.
ReserveDefault(q) ==
  /\ pc[q] = "reserve"
  /\ ActiveFor(q) = {}
  /\ row' = [row EXCEPT ![q] = q]
  /\ number' = [number EXCEPT ![q] = 1]
  /\ Goto(q, "insert")
  /\ UNCHANGED <<active, current, holder, inserted, committed, answer, returned>>

\* INSERT INTO invoices waits for the transactions whose row clashes with this
\* one, and fails with 23505 when a committed row does.
Insert(q) ==
  /\ pc[q] = "insert"
  /\ \A p \in inserted \cup committed : ~Clash(p, q)
  /\ inserted' = inserted \cup {q}
  /\ Goto(q, "sign")
  /\ UNCHANGED <<active, current, holder, row, number, committed, answer, returned>>

\* uq_invoices_tenant_idempotency: roll back and read again.
InsertKeyTaken(q) ==
  /\ pc[q] = "insert"
  /\ \E p \in committed : SameKey(p, q)
  /\ Goto(q, "reread")
  /\ Rollback(q)
  /\ UNCHANGED <<answer, returned>>

\* uq_invoices_tenant_number: rethrown.
InsertNumberTaken(q) ==
  /\ pc[q] = "insert"
  /\ \E p \in committed : SameNumber(p, q)
  /\ Answer(q, "error")
  /\ Rollback(q)
  /\ UNCHANGED returned

\* Lines, taxes, event and PDF; the PFX is read through a second connection.
Sign(q) ==
  /\ pc[q] = "sign"
  /\ Electronic => Free > 0
  /\ Goto(q, "commit")
  /\ UNCHANGED <<active, current, holder, row, number, inserted, committed, answer, returned>>

Commit(q) ==
  /\ pc[q] = "commit"
  /\ active' = active \cup {row[q]}
  /\ current' = [current EXCEPT ![row[q]] = number[q]]
  /\ committed' = committed \cup {q}
  /\ inserted' = inserted \ {q}
  /\ Release(q)
  /\ Answer(q, "created")
  /\ returned' = [returned EXCEPT ![q] = q]
  /\ UNCHANGED <<row, number>>

\* A failed validation, an expired resolution, the PDF, a lost connection, a
\* crash: the transaction rolls back and the client gets an error.
Fail(q) ==
  /\ Failures
  /\ pc[q] \in InTransaction
  /\ Answer(q, "failed")
  /\ Rollback(q)
  /\ UNCHANGED returned

Reread(q) ==
  /\ pc[q] = "reread"
  /\ Free > 0
  /\ \/ \E p \in committed : SameKey(p, q) /\ Verify(q, p)
     \/ /\ \A p \in committed : ~SameKey(p, q)
        /\ Answer(q, "error")
        /\ UNCHANGED returned
  /\ UNCHANGED <<active, current, holder, row, number, inserted, committed>>

\* NumberingRangesService.create: nothing checks for another active range.
CreateRange(r) ==
  /\ r \in Configured \ active
  /\ active' = active \cup {r}
  /\ UNCHANGED <<current, holder, pc, row, number, inserted, committed, answer, returned>>

Step(q) ==
  \/ Lookup(q) \/ Begin(q) \/ Reads(q) \/ ReserveDefault(q)
  \/ \E r \in RangeIds : ReserveFrom(q, r) \/ Exhausted(q, r)
  \/ Insert(q) \/ InsertKeyTaken(q) \/ InsertNumberTaken(q)
  \/ Sign(q) \/ Commit(q) \/ Reread(q)

Next ==
  \/ \E q \in Requests : Step(q) \/ Fail(q)
  \/ \E r \in Configured : CreateRange(r)

Spec == Init /\ [][Next]_vars

\* The event loop and PostgreSQL keep serving whatever can be served.
FairSpec == Spec /\ \A q \in Requests : WF_vars(Step(q))

-------------------------------------------------------------------------------

Pcs == InTransaction \cup {"lookup", "begin", "reread", "done"}
Answers == {"none", "created", "replayed", "conflict", "exhausted", "failed", "error"}

\* Every variable holds values of its domain.
TypeOK ==
  /\ active \subseteq RangeIds
  /\ current \in [RangeIds -> Nat]
  /\ holder \in [RangeIds -> Requests \cup {None}]
  /\ pc \in [Requests -> Pcs]
  /\ row \in [Requests -> RangeIds \cup {None}]
  /\ number \in [Requests -> Nat]
  /\ inserted \subseteq Requests
  /\ committed \subseteq Requests
  /\ answer \in [Requests -> Answers]
  /\ returned \in [Requests -> Requests \cup {None}]

\* One idempotency key yields at most one invoice, however many requests with
\* it race.
OncePerKey ==
  \A p, q \in committed : SameKey(p, q) => p = q

\* No two invoices of the tenant share prefix and number, even when two
\* requests find no range and both make the default one.
NumbersUnique ==
  \A p, q \in committed : SameNumber(p, q) => p = q

\* The numbers issued from a range are exactly fromNumber .. currentNumber:
\* a rolled back request leaves no gap.
RangeGapFree ==
  \A r \in active :
    {number[q] : q \in {p \in committed : row[p] = r}} = FromOf(r)..current[r]

(***************************************************************************)
(* The inductive invariant behind those three.  What makes them true is    *)
(* the row lock, held from the reservation to the end of the transaction,  *)
(* and the two unique indexes, which also cover uncommitted rows.          *)
(***************************************************************************)

HasReserved(q) == pc[q] \in {"insert", "sign", "commit"}

\* Which requests have a row in the table invoices.
Phases ==
  /\ \A q \in Requests : q \in inserted <=> pc[q] \in {"sign", "commit"}
  /\ \A q \in committed : pc[q] = "done"

\* A reservation is the successor of what the range shows, and the range is
\* locked by its holder or visible to nobody else.
Reservations ==
  \A q \in Requests : HasReserved(q) =>
    /\ row[q] \in RangeIds
    /\ PrefixOf(row[q]) = PrefixFor[q]
    /\ number[q] = current[row[q]] + 1
    /\ \/ row[q] \in active /\ holder[row[q]] = q
       \/ row[q] = q /\ q \notin active

\* A committed invoice was reserved from a visible range of its prefix.
Provenance ==
  \A q \in committed : row[q] \in active /\ PrefixOf(row[q]) = PrefixFor[q]

\* A range nobody sees has given no number; a range never runs behind.
RangesStart ==
  \A r \in RangeIds :
    /\ current[r] >= FromOf(r) - 1
    /\ r \notin active => current[r] = FromOf(r) - 1

\* The unique indexes.
NoClash == \A p, q \in inserted \cup committed : Clash(p, q) => p = q

IInv ==
  /\ TypeOK /\ Phases /\ Reservations /\ Provenance /\ RangesStart /\ NoClash
  /\ RangeGapFree

\* Who lost a race for a key rereads a committed invoice of it, and who was
\* answered with an error is done and lost its number to another row.
LostTo(q, p) == SameNumber(p, q) /\ row[p] # row[q]
Explained ==
  \A q \in Requests :
    /\ pc[q] = "reread" => \E p \in committed : SameKey(p, q)
    /\ answer[q] = "error" => pc[q] = "done" /\ \E p \in committed : LostTo(q, p)

\* The book the committed invoices make.
Book == {[range |-> row[q], number |-> number[q], key |-> KeyOf[q]] : q \in committed}

LedgerOf == INSTANCE Ledger WITH book <- Book, Ranges <- RangeIds

\* Issuing invoices implements the ledger.
ImplementsLedger == LedgerOf!Spec

\* Every request is answered.
AllAnswered == \A q \in Requests : <>(answer[q] # "none")

\* An unexplained error is only ever the price of a second range of the
\* prefix: the number that was taken had been given by another row.
NoSpuriousError ==
  \A q \in Requests : answer[q] = "error" =>
    \E p \in committed : LostTo(q, p)
===============================================================================

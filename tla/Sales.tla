--------------------------------- MODULE Sales --------------------------------
(***************************************************************************)
(* The shop of one tenant: PosService.createSale, CashService and          *)
(* InventoryService.createMovement, over PostgreSQL at READ COMMITTED.     *)
(*                                                                         *)
(* A transaction reads a row when it locks it, and what it writes is seen  *)
(* by the others when it commits.  The number of the POS invoice is        *)
(* reserved as in module Issuance; here a failed reservation is one of the *)
(* reasons for Fail.                                                       *)
(***************************************************************************)
EXTENDS Integers, FiniteSets

CONSTANTS
  Products,      \* rows of products
  Drawers,       \* cash sessions that exist from the start
  Registers,     \* cash registers that exist from the start
  InitiallyActive, \* those of them with active = true
  Sales,         \* POST /pos/sales
  Movements,     \* POST /inventory/movements
  Openings,      \* POST /cash-sessions
  Closings,      \* POST /cash-sessions/:id/close
  Deletions,     \* DELETE /cash-registers/:id
  Listings,      \* GET /cash-registers, which may insert one
  InitialStock,  \* products.stock at the start
  Asked,         \* per sale and product: the sum of its lines' quantities,
                 \* the last line's and the largest
  Total,         \* the rounded total of each sale
  Paid,          \* the sum of its payments
  KeyOf,         \* its idempotencyKey; None is replaced by a random one
  SessionOf,     \* the session a sale or a closing names
  Signed,        \* the signed quantity of each movement: OUT is negative
  ProductOf,     \* its product
  UserOf,        \* who opens or opened each session
  RegisterOf,    \* the register of each session, and the one a deletion names
  Float,         \* openingAmount
  None,
  Failing        \* requests that may fail for reasons of their own

\* A session or a register is named by the request that inserts it.
Sessions == Drawers \cup Openings
Requests == Sales \cup Movements \cup Openings \cup Closings \cup Deletions \cup Listings

ASSUME SalesAssumption ==
  /\ None \notin Requests
  /\ Products \cap Sessions = {}
  /\ Drawers \cap Requests = {}
  /\ Sales \cap (Movements \cup Openings \cup Closings \cup Deletions \cup Listings) = {}
  /\ Movements \cap (Openings \cup Closings \cup Deletions \cup Listings) = {}
  /\ Openings \cap (Closings \cup Deletions \cup Listings) = {}
  /\ Closings \cap (Deletions \cup Listings) = {}
  /\ Deletions \cap Listings = {}
  /\ InitiallyActive \subseteq Registers
  /\ InitialStock \in [Products -> Nat]
  /\ Asked \in [Sales -> [Products -> [sum : Nat, last : Nat, most : Nat]]]
  /\ \A q \in Sales, p \in Products :
       LET a == Asked[q][p] IN a.last <= a.most /\ a.most <= a.sum /\ (a.last = 0 => a.sum = 0)
  /\ Paid \in [Sales -> Nat] /\ Total \in [Sales -> Nat]
  /\ Signed \in [Movements -> Int] /\ ProductOf \in [Movements -> Products]
  /\ SessionOf \in [Sales \cup Closings -> Sessions]
  /\ Float \in Nat /\ Failing \subseteq Requests

VARIABLES
  stock,     \* products.stock
  kardex,    \* sum of inventory_movements, IN minus OUT, per product
  cash,      \* sum of cash_movements per session
  status,    \* cash_sessions.status
  expected,  \* cash_sessions.expected_amount
  registers, \* rows of cash_registers
  active,    \* those with active = true
  holder,    \* who has the row lock of a product or a session
  seen,      \* the stock a transaction read when it locked the product
  counted,   \* the sum a closing read
  inserted,  \* sales whose invoice is inserted and not yet committed
  sold,      \* sales whose transaction is committed
  pc,        \* where each request is
  answer     \* what the client was told

shop == <<stock, kardex, cash, status, expected, sold>>
local == <<seen, counted, inserted>>
vars == <<shop, registers, active, holder, local, pc, answer>>

Rows == Products \cup Sessions

Init ==
  /\ stock = InitialStock
  /\ kardex = [p \in Products |-> 0]
  /\ cash = [s \in Sessions |-> 0]
  /\ status = [s \in Sessions |-> IF s \in Drawers THEN "open" ELSE "absent"]
  /\ expected = [s \in Sessions |-> 0]
  /\ registers = Registers
  /\ active = InitiallyActive
  /\ holder = [r \in Rows |-> None]
  /\ seen = [q \in Requests |-> [p \in Products |-> 0]]
  /\ counted = [q \in Requests |-> 0]
  /\ inserted = {}
  /\ sold = {}
  /\ pc = [q \in Requests |-> "begin"]
  /\ answer = [q \in Requests |-> "none"]

Goto(q, where) == pc' = [pc EXCEPT ![q] = where]
Answer(q, what) ==
  /\ answer' = [answer EXCEPT ![q] = what]
  /\ Goto(q, "done")

Lock(q, r) ==
  /\ holder[r] = None
  /\ holder' = [holder EXCEPT ![r] = q]

\* Faulty variant: the locks outlive the transaction.
ReleaseNothing(q) == UNCHANGED holder

Release(q) == holder' = [r \in Rows |-> IF holder[r] = q THEN None ELSE holder[r]]

\* ROLLBACK, and the error the client gets.
Refuse(q, what) ==
  /\ Answer(q, what)
  /\ Release(q)
  /\ inserted' = inserted \ {q}
  /\ UNCHANGED <<shop, registers, active, seen, counted>>

-------------------------------------------------------------------------------
(* createSale *)

Wanted(q) == {p \in Products : Asked[q][p].sum > 0}
Held(q) == {r \in Rows : holder[r] = q}

\* Faulty variant: the status is read and the row is not locked.
SaleSessionUnlocked(q) ==
  /\ pc[q] = "begin"
  /\ status[SessionOf[q]] = "open"
  /\ Goto(q, "products")
  /\ UNCHANGED <<shop, registers, active, holder, local, answer>>

\* SELECT ... status = 'open' FOR UPDATE.
SaleSession(q) ==
  /\ pc[q] = "begin"
  /\ status[SessionOf[q]] = "open"
  /\ Lock(q, SessionOf[q])
  /\ Goto(q, "products")
  /\ UNCHANGED <<shop, registers, active, local, answer>>

SaleNoSession(q) ==
  /\ pc[q] = "begin"
  /\ status[SessionOf[q]] # "open"
  /\ Refuse(q, "closed")

\* Faulty variant: SELECT without FOR UPDATE.
LockProductNot(q, p) ==
  /\ pc[q] = "products"
  /\ p \in Wanted(q) \ Held(q)
  /\ seen' = [seen EXCEPT ![q] = stock]
  /\ Goto(q, "check")
  /\ UNCHANGED <<shop, registers, active, holder, counted, inserted, answer>>

\* SELECT ... WHERE id IN (...) FOR UPDATE locks row by row, in the order of
\* the plan.
LockProduct(q, p) ==
  /\ pc[q] = "products"
  /\ p \in Wanted(q) \ Held(q)
  /\ Lock(q, p)
  /\ seen' = [seen EXCEPT ![q][p] = stock[p]]
  /\ UNCHANGED <<shop, registers, active, counted, inserted, pc, answer>>

ProductsRead(q) ==
  /\ pc[q] = "products"
  /\ Wanted(q) \subseteq Held(q)
  /\ Goto(q, "check")
  /\ UNCHANGED <<shop, registers, active, holder, local, answer>>

\* Each line is compared on its own, before the payments.
Enough(q) == \A p \in Wanted(q) : Asked[q][p].most <= seen[q][p]
PaymentsMatch(q) == Paid[q] - Total[q] \in -1..1

SaleChecked(q) ==
  /\ pc[q] = "check"
  /\ Enough(q) /\ PaymentsMatch(q)
  /\ Goto(q, "insert")
  /\ UNCHANGED <<shop, registers, active, holder, local, answer>>

SaleRefused(q) ==
  /\ pc[q] = "check"
  /\ \/ ~Enough(q) /\ Refuse(q, "conflict")
     \/ Enough(q) /\ ~PaymentsMatch(q) /\ Refuse(q, "mismatch")

SameKey(o, q) == KeyOf[o] = KeyOf[q] /\ KeyOf[q] # None

\* Faulty variant: the key is not part of a unique index.
SaleInsertAnyway(q) ==
  /\ pc[q] = "insert"
  /\ inserted' = inserted \cup {q}
  /\ Goto(q, "write")
  /\ UNCHANGED <<shop, registers, active, holder, seen, counted, answer>>

\* INSERT INTO invoices under uq_invoices_tenant_idempotency: waits for an
\* uncommitted row of the key.
SaleInsert(q) ==
  /\ pc[q] = "insert"
  /\ \A o \in inserted \cup sold : ~SameKey(o, q)
  /\ inserted' = inserted \cup {q}
  /\ Goto(q, "write")
  /\ UNCHANGED <<shop, registers, active, holder, seen, counted, answer>>

\* 23505, which the catch turns into a 400.
SaleKeyTaken(q) ==
  /\ pc[q] = "insert"
  /\ \E o \in sold : SameKey(o, q)
  /\ Refuse(q, "error")

\* Every line writes the stock it read minus its own quantity: the last one
\* of a product stays.
NewStock(q) == [p \in Products |-> IF p \in Wanted(q) THEN seen[q][p] - Asked[q][p].last ELSE stock[p]]

\* Payments, lines, stock, kardex and cash movements, and COMMIT.
SaleCommit(q) ==
  /\ pc[q] = "write"
  /\ stock' = NewStock(q)
  /\ kardex' = [p \in Products |-> kardex[p] - Asked[q][p].sum]
  /\ cash' = [cash EXCEPT ![SessionOf[q]] = @ + Paid[q]]
  /\ sold' = sold \cup {q}
  /\ inserted' = inserted \ {q}
  /\ Answer(q, "sold")
  /\ Release(q)
  /\ UNCHANGED <<status, expected, registers, active, seen, counted>>

-------------------------------------------------------------------------------
(* InventoryService.createMovement *)

\* The condition on the tenant makes the locking SELECT an outer join, whose
\* FOR UPDATE PostgreSQL refuses: the answer of every movement today.
MoveJoinRefused(m) ==
  /\ pc[m] = "begin"
  /\ Refuse(m, "error")

\* The rest of the transaction is what follows once the SELECT is accepted.
MoveLock(m) ==
  /\ pc[m] = "begin"
  /\ Lock(m, ProductOf[m])
  /\ seen' = [seen EXCEPT ![m][ProductOf[m]] = stock[ProductOf[m]]]
  /\ Goto(m, "move")
  /\ UNCHANGED <<shop, registers, active, counted, inserted, answer>>

Moved(m) == seen[m][ProductOf[m]] + Signed[m]

MoveCommit(m) ==
  /\ pc[m] = "move"
  /\ Moved(m) >= 0
  /\ stock' = [stock EXCEPT ![ProductOf[m]] = Moved(m)]
  /\ kardex' = [kardex EXCEPT ![ProductOf[m]] = @ + Signed[m]]
  /\ Answer(m, "moved")
  /\ Release(m)
  /\ UNCHANGED <<cash, status, expected, sold, registers, active, local>>

MoveRefused(m) ==
  /\ pc[m] = "move"
  /\ Moved(m) < 0
  /\ Refuse(m, "conflict")

-------------------------------------------------------------------------------
(* CashService *)

OpenOf(u) == {s \in Sessions : UserOf[s] = u /\ status[s] = "open"}

\* findOne with a lock: a session that is found refuses the request, and the
\* lock of an empty result locks nothing.
OpenRead(o) ==
  /\ pc[o] = "begin"
  /\ OpenOf(UserOf[o]) = {}
  /\ Goto(o, "open")
  /\ UNCHANGED <<shop, registers, active, holder, local, answer>>

OpenRefused(o) ==
  /\ pc[o] = "begin"
  /\ \E s \in OpenOf(UserOf[o]) : holder[s] = None
  /\ Refuse(o, "conflict")

\* The register is only checked by fk_cash_sessions_register.
OpenInsert(o) ==
  /\ pc[o] = "open"
  /\ RegisterOf[o] \in registers
  /\ status' = [status EXCEPT ![o] = "open"]
  /\ Answer(o, "opened")
  /\ UNCHANGED <<stock, kardex, cash, expected, sold, registers, active, holder, local>>

OpenNoRegister(o) ==
  /\ pc[o] = "open"
  /\ RegisterOf[o] \notin registers
  /\ Refuse(o, "error")

CloseLock(c) ==
  /\ pc[c] = "begin"
  /\ status[SessionOf[c]] = "open"
  /\ Lock(c, SessionOf[c])
  /\ Goto(c, "count")
  /\ UNCHANGED <<shop, registers, active, local, answer>>

\* 404 or 409.
CloseRefused(c) ==
  /\ pc[c] = "begin"
  /\ status[SessionOf[c]] # "open"
  /\ holder[SessionOf[c]] = None
  /\ Refuse(c, "conflict")

CloseCount(c) ==
  /\ pc[c] = "count"
  /\ counted' = [counted EXCEPT ![c] = cash[SessionOf[c]]]
  /\ Goto(c, "close")
  /\ UNCHANGED <<shop, registers, active, holder, seen, inserted, answer>>

CloseCommit(c) ==
  /\ pc[c] = "close"
  /\ status' = [status EXCEPT ![SessionOf[c]] = "closed"]
  /\ expected' = [expected EXCEPT ![SessionOf[c]] = Float + counted[c]]
  /\ Answer(c, "closed")
  /\ Release(c)
  /\ UNCHANGED <<stock, kardex, cash, sold, registers, active, local>>

\* Every session ever opened counts.
SessionsOn(r) == {s \in Sessions : status[s] # "absent" /\ RegisterOf[s] = r}

DeleteCount(d) ==
  /\ pc[d] = "begin"
  /\ \/ /\ SessionsOn(RegisterOf[d]) # {}
        /\ active' = active \ {RegisterOf[d]}
        /\ Answer(d, "deactivated")
     \/ /\ SessionsOn(RegisterOf[d]) = {}
        /\ Goto(d, "delete")
        /\ UNCHANGED <<active, answer>>
  /\ UNCHANGED <<shop, registers, holder, local>>

\* Faulty variant: fk_cash_sessions_register is missing.
DeleteRowAnyway(d) ==
  /\ pc[d] = "delete"
  /\ registers' = registers \ {RegisterOf[d]}
  /\ active' = active \ {RegisterOf[d]}
  /\ Answer(d, "deleted")
  /\ UNCHANGED <<shop, holder, local>>

DeleteRow(d) ==
  /\ pc[d] = "delete"
  /\ SessionsOn(RegisterOf[d]) = {}
  /\ registers' = registers \ {RegisterOf[d]}
  /\ active' = active \ {RegisterOf[d]}
  /\ Answer(d, "deleted")
  /\ UNCHANGED <<shop, holder, local>>

DeleteBlocked(d) ==
  /\ pc[d] = "delete"
  /\ SessionsOn(RegisterOf[d]) # {}
  /\ Refuse(d, "error")

ListRead(l) ==
  /\ pc[l] = "begin"
  /\ \/ active # {} /\ Answer(l, "listed")
     \/ active = {} /\ Goto(l, "create") /\ UNCHANGED answer
  /\ UNCHANGED <<shop, registers, active, holder, local>>

\* createRegister, of the default register.
ListCreate(l) ==
  /\ pc[l] = "create"
  /\ registers' = registers \cup {l}
  /\ active' = active \cup {l}
  /\ Answer(l, "created")
  /\ UNCHANGED <<shop, holder, local>>

-------------------------------------------------------------------------------
\* A lost connection, a number that could not be reserved, a crash.
Fail(q) ==
  /\ pc[q] # "done"
  /\ Refuse(q, "failed")

\* q waits: the rows it still wants are all locked, one of them by o.
Waits(q, o) ==
  /\ pc[q] = "products"
  /\ Wanted(q) \ Held(q) # {}
  /\ \A p \in Wanted(q) \ Held(q) : holder[p] # None
  /\ \E p \in Wanted(q) \ Held(q) : holder[p] = o

\* PostgreSQL ends a cycle of waiting transactions by aborting one.
DeadlockVictim(q) ==
  /\ pc[q] = "products"
  /\ \E C \in SUBSET Sales : q \in C /\ \A a \in C : \E b \in C : Waits(a, b)
  /\ Refuse(q, "error")

SaleStep(q) ==
  \/ SaleSession(q) \/ SaleNoSession(q) \/ ProductsRead(q)
  \/ \E p \in Products : LockProduct(q, p)
  \/ SaleChecked(q) \/ SaleRefused(q) \/ SaleInsert(q) \/ SaleKeyTaken(q)
  \/ SaleCommit(q) \/ DeadlockVictim(q)
MoveStep(m) == MoveJoinRefused(m) \/ MoveLock(m) \/ MoveCommit(m) \/ MoveRefused(m)
OpenStep(o) == OpenRead(o) \/ OpenRefused(o) \/ OpenInsert(o) \/ OpenNoRegister(o)
CloseStep(c) == CloseLock(c) \/ CloseRefused(c) \/ CloseCount(c) \/ CloseCommit(c)
DeleteStep(d) == DeleteCount(d) \/ DeleteRow(d) \/ DeleteBlocked(d)
ListStep(l) == ListRead(l) \/ ListCreate(l)

Step ==
  \/ \E q \in Sales : SaleStep(q)
  \/ \E m \in Movements : MoveStep(m)
  \/ \E o \in Openings : OpenStep(o)
  \/ \E c \in Closings : CloseStep(c)
  \/ \E d \in Deletions : DeleteStep(d)
  \/ \E l \in Listings : ListStep(l)

Next == Step \/ \E q \in Failing : Fail(q)

Spec == Init /\ [][Next]_vars

\* The event loop and PostgreSQL do not stop while some request can be served.
FairSpec == Spec /\ WF_vars(Step)

-------------------------------------------------------------------------------

Pcs == {"begin", "products", "check", "insert", "write", "move", "open", "count",
        "close", "delete", "create", "done"}
Answers == {"none", "sold", "moved", "opened", "closed", "deactivated", "deleted", "listed",
            "created", "conflict", "mismatch", "error", "failed"}

\* Every variable holds values of its domain.
TypeOK ==
  /\ stock \in [Products -> Int]
  /\ kardex \in [Products -> Int]
  /\ cash \in [Sessions -> Int]
  /\ status \in [Sessions -> {"absent", "open", "closed"}]
  /\ expected \in [Sessions -> Int]
  /\ registers \subseteq Registers \cup Listings
  /\ active \subseteq registers
  /\ holder \in [Rows -> Requests \cup {None}]
  /\ seen \in [Requests -> [Products -> Int]]
  /\ counted \in [Requests -> Int]
  /\ inserted \subseteq Sales
  /\ sold \subseteq Sales
  /\ pc \in [Requests -> Pcs]
  /\ answer \in [Requests -> Answers]

\* No interleaving of sales and movements sells what is not there: the locks,
\* not the CHECK constraint, keep the stock from going below zero.
StockNeverNegative == \A p \in Products : stock[p] >= 0

\* The stock of a product is its kardex, unless a sale has two lines of it:
\* those overwrite each other and the stock runs ahead.
KardexMatchesStock ==
  \A p \in Products :
    /\ stock[p] >= InitialStock[p] + kardex[p]
    /\ (\A q \in sold : Asked[q][p].sum = Asked[q][p].last) =>
         stock[p] = InitialStock[p] + kardex[p]

\* The expected amount of a closed session is the sum of its movements: no
\* sale slips in between the count and the closing, or after it.
ExpectedCountsEverySale ==
  \A s \in Sessions : status[s] = "closed" => expected[s] = Float + cash[s]

\* A sale the client repeats under its key is sold once, also when the two
\* requests race in different sessions.
SaleOncePerKey == \A o, q \in sold : SameKey(o, q) => o = q

\* A register that has sessions is never deleted, whatever was opened between
\* the count and the DELETE.
SessionsKeepTheirRegister ==
  \A s \in Openings : status[s] # "absent" => RegisterOf[s] \in registers

SameKeys == [o \in Sales |-> [q \in Sales |-> SameKey(o, q)]]
ShopOf == INSTANCE Shop WITH Keys <- SameKeys

\* Every transaction takes effect at one instant, its commit.
ImplementsShop == ShopOf!Spec

\* Every request is answered: who waits for a lock gets it, or is the victim of
\* a deadlock.
AllAnswered == \A q \in Requests : <>(answer[q] # "none")
===============================================================================

------------------------------ MODULE SalesProofs ------------------------------
(***************************************************************************)
(* Sales for every shop: any products, sessions, registers, sales,         *)
(* movements and interleaving of them.                                     *)
(***************************************************************************)
EXTENDS Sales, TLAPS

\* Who is past its SELECT ... FOR UPDATE has the rows it selected, and the
\* session it selected is open.
Holding ==
  /\ \A q \in Sales : pc[q] \in {"products", "check", "insert", "write"} =>
       holder[SessionOf[q]] = q /\ status[SessionOf[q]] = "open"
  /\ \A q \in Sales : pc[q] \in {"check", "insert", "write"} =>
       \A p \in Products : Asked[q][p].sum > 0 => holder[p] = q
  /\ \A m \in Movements : pc[m] = "move" => holder[ProductOf[m]] = m
  /\ \A c \in Closings : pc[c] \in {"count", "close"} =>
       holder[SessionOf[c]] = c /\ status[SessionOf[c]] = "open"

\* What was read under a lock is still true.
Fresh ==
  /\ \A q \in Requests, p \in Products : holder[p] = q => seen[q][p] = stock[p]
  /\ \A q \in Sales : pc[q] \in {"insert", "write"} =>
       \A p \in Products : Asked[q][p].sum > 0 => Asked[q][p].most <= seen[q][p]
  /\ \A c \in Closings : pc[c] = "close" => counted[c] = cash[SessionOf[c]]

\* A sale or a session is inserted by the last step of its request, and keys
\* are unique from the INSERT on.
Stored ==
  /\ \A q \in Sales : q \in sold => pc[q] = "done"
  /\ \A q \in Sales : pc[q] = "write" => q \in inserted
  /\ \A o, q \in inserted \cup sold : SameKey(o, q) => o = q
  /\ \A o \in Openings : pc[o] # "done" => status[o] = "absent"

Books == StockNeverNegative /\ KardexMatchesStock /\ ExpectedCountsEverySale
         /\ SessionsKeepTheirRegister

IInv == TypeOK /\ Holding /\ Fresh /\ Stored /\ Books

LEMMA Kinds ==
  /\ Sales \subseteq Requests /\ Movements \subseteq Requests /\ Openings \subseteq Requests
  /\ Closings \subseteq Requests /\ Deletions \subseteq Requests /\ Listings \subseteq Requests
  /\ Openings \subseteq Sessions /\ Products \subseteq Rows /\ Sessions \subseteq Rows
  /\ \A q \in Requests : q # None
  /\ \A q \in Sales : SessionOf[q] \in Sessions
  /\ \A c \in Closings : SessionOf[c] \in Sessions
  /\ \A m \in Movements : ProductOf[m] \in Products /\ Signed[m] \in Int
  /\ \A p \in Products : p \notin Sessions
BY SalesAssumption DEF Requests, Sessions, Rows

LEMMA KindsApart ==
  /\ \A q \in Sales : q \notin Movements /\ q \notin Openings /\ q \notin Closings
  /\ \A m \in Movements : m \notin Openings /\ m \notin Closings /\ m \notin Sales
  /\ \A o \in Openings : o \notin Closings /\ o \notin Sales /\ o \notin Movements
  /\ \A c \in Closings : c \notin Openings /\ c \notin Sales /\ c \notin Movements
  /\ \A d \in Deletions \cup Listings :
       d \notin Openings /\ d \notin Sales /\ d \notin Movements /\ d \notin Closings
BY SalesAssumption

\* Quantities, amounts and their order.
LEMMA Amounts ==
  /\ Float \in Nat /\ InitialStock \in [Products -> Nat]
  /\ \A q \in Sales : Paid[q] \in Nat
  /\ \A q \in Sales, p \in Products :
       /\ Asked[q][p].sum \in Nat /\ Asked[q][p].last \in Nat /\ Asked[q][p].most \in Nat
       /\ Asked[q][p].last <= Asked[q][p].most /\ Asked[q][p].most <= Asked[q][p].sum
BY SalesAssumption

LEMMA InitIInv == Init => IInv
<1> SUFFICES ASSUME Init PROVE IInv
  OBVIOUS
<1>1. TypeOK
  BY SalesAssumption, Amounts DEF Init, TypeOK, Pcs, Answers
<1>2. Holding /\ Stored
  BY Kinds, KindsApart, SalesAssumption DEF Init, Holding, Stored, Sessions
<1>3. Fresh
  BY Kinds DEF Init, Fresh, Rows
<1>4. Books
  <2>1. \A s \in Openings : status[s] = "absent"
    BY Kinds, SalesAssumption DEF Init, Sessions, Requests
  <2> QED BY <2>1, Amounts, Kinds DEF Init, Books, StockNeverNegative, KardexMatchesStock,
             ExpectedCountsEverySale, SessionsKeepTheirRegister
<1> QED BY <1>1, <1>2, <1>3, <1>4 DEF IInv

\* A transaction that ends without writing disturbs nobody.
LEMMA RefuseKeeps ==
  ASSUME IInv, NEW q \in Requests, NEW w \in Answers, Refuse(q, w) PROVE IInv'
<1> USE DEF IInv
<1>1. TypeOK'
  BY DEF TypeOK, Refuse, Answer, Goto, Release, shop, Pcs
<1>2. \A r \in Rows : holder[r] # q => holder'[r] = holder[r]
  BY DEF Refuse, Release
<1>3. \A o \in Requests : o # q => pc'[o] = pc[o]
  BY DEF Refuse, Answer, Goto, TypeOK
<1>4. pc'[q] = "done"
  BY DEF Refuse, Answer, Goto, TypeOK
<1>5. Holding'
  BY <1>2, <1>3, <1>4, Kinds DEF Holding, Refuse, shop
<1>6. Fresh'
  <2>1. \A r \in Rows, o \in Requests : holder'[r] = o => holder[r] = o
    BY Kinds DEF Refuse, Release
  <2> QED BY <1>3, <1>4, <2>1, Kinds DEF Fresh, Refuse, shop
<1>7. Stored'
  BY <1>3, <1>4, Kinds DEF Stored, Refuse, shop, SameKey
<1>8. Books'
  BY DEF Books, StockNeverNegative, KardexMatchesStock, ExpectedCountsEverySale,
         SessionsKeepTheirRegister, Refuse, shop
<1> QED BY <1>1, <1>5, <1>6, <1>7, <1>8

\* A step that writes no table leaves the books as they are.
LEMMA BooksStay == ASSUME Books, UNCHANGED <<shop, registers>> PROVE Books'
BY DEF Books, StockNeverNegative, KardexMatchesStock, ExpectedCountsEverySale,
       SessionsKeepTheirRegister, shop

LEMMA SaleSessionKeeps == ASSUME IInv, NEW q \in Sales, SaleSession(q) PROVE IInv'
<1> USE DEF IInv
<1>1. q \in Requests /\ SessionOf[q] \in Rows /\ pc[q] = "begin"
  BY Kinds DEF SaleSession
<1>2. TypeOK'
  BY <1>1 DEF TypeOK, SaleSession, Lock, Goto, Pcs, shop, local
<1>3. /\ pc'[q] = "products" /\ holder'[SessionOf[q]] = q
      /\ \A o \in Requests : o # q => pc'[o] = pc[o]
      /\ \A r \in Rows : holder[r] # None => holder'[r] = holder[r]
      /\ \A p \in Products : holder'[p] = holder[p]
  BY <1>1, Kinds DEF SaleSession, Lock, Goto, TypeOK
<1>4. Holding'
  BY <1>3, Kinds, KindsApart DEF Holding, SaleSession, shop
<1>5. Fresh' /\ Stored'
  BY <1>1, <1>3, Kinds, KindsApart DEF Fresh, Stored, SaleSession, shop, local, SameKey
<1> QED BY <1>2, <1>4, <1>5, BooksStay DEF SaleSession

LEMMA LockProductKeeps ==
  ASSUME IInv, NEW q \in Sales, NEW p \in Products, LockProduct(q, p) PROVE IInv'
<1> USE DEF IInv
<1>1. q \in Requests /\ p \in Rows /\ pc[q] = "products"
  BY Kinds DEF LockProduct
<1>2. TypeOK'
  BY <1>1 DEF TypeOK, LockProduct, Lock, shop
<1>3. /\ \A r \in Rows : holder[r] # None => holder'[r] = holder[r]
      /\ \A r \in Products : holder'[r] = holder[r] \/ r = p
      /\ \A o \in Requests, r \in Products : seen'[o][r] = seen[o][r] \/ (o = q /\ r = p)
      /\ holder'[p] = q /\ seen'[q][p] = stock[p]
      /\ \A o \in Requests : o # q => seen'[o] = seen[o]
  BY <1>1, Kinds DEF LockProduct, Lock, TypeOK
<1>4. Holding'
  BY <1>3, Kinds DEF Holding, LockProduct, shop
<1>5. Fresh'
  BY <1>1, <1>3, Kinds DEF Fresh, LockProduct, shop
<1>6. Stored'
  BY DEF Stored, LockProduct, shop, SameKey
<1> QED BY <1>2, <1>4, <1>5, <1>6, BooksStay DEF LockProduct

LEMMA ProductsReadKeeps == ASSUME IInv, NEW q \in Sales, ProductsRead(q) PROVE IInv'
<1> USE DEF IInv
<1>1. q \in Requests /\ pc[q] = "products"
  BY Kinds DEF ProductsRead
<1>2. TypeOK'
  BY <1>1 DEF TypeOK, ProductsRead, Goto, Pcs, shop, local
<1>3. pc'[q] = "check" /\ \A o \in Requests : o # q => pc'[o] = pc[o]
  BY <1>1 DEF ProductsRead, Goto, TypeOK
<1>4. \A p \in Products : Asked[q][p].sum > 0 => holder[p] = q
  BY DEF ProductsRead, Wanted, Held
<1>5. Holding'
  BY <1>1, <1>3, <1>4, Kinds, KindsApart DEF Holding, ProductsRead, shop
<1>6. Fresh' /\ Stored'
  BY <1>1, <1>3, Kinds, KindsApart DEF Fresh, Stored, ProductsRead, shop, local, SameKey
<1> QED BY <1>2, <1>5, <1>6, BooksStay DEF ProductsRead

LEMMA SaleCheckedKeeps == ASSUME IInv, NEW q \in Sales, SaleChecked(q) PROVE IInv'
<1> USE DEF IInv
<1>1. q \in Requests /\ pc[q] = "check"
  BY Kinds DEF SaleChecked
<1>2. TypeOK'
  BY <1>1 DEF TypeOK, SaleChecked, Goto, Pcs, shop, local
<1>3. pc'[q] = "insert" /\ \A o \in Requests : o # q => pc'[o] = pc[o]
  BY <1>1 DEF SaleChecked, Goto, TypeOK
<1>4. \A p \in Products : Asked[q][p].sum > 0 => Asked[q][p].most <= seen[q][p]
  BY DEF SaleChecked, Enough, Wanted
<1>5. Holding'
  BY <1>1, <1>3, Kinds, KindsApart DEF Holding, SaleChecked, shop
<1>6. Fresh' /\ Stored'
  BY <1>1, <1>3, <1>4, Kinds, KindsApart DEF Fresh, Stored, SaleChecked, shop, local, SameKey
<1> QED BY <1>2, <1>5, <1>6, BooksStay DEF SaleChecked

LEMMA SaleInsertKeeps == ASSUME IInv, NEW q \in Sales, SaleInsert(q) PROVE IInv'
<1> USE DEF IInv
<1>1. q \in Requests /\ pc[q] = "insert"
  BY Kinds DEF SaleInsert
<1>2. TypeOK'
  BY <1>1 DEF TypeOK, SaleInsert, Goto, Pcs, shop
<1>3. pc'[q] = "write" /\ \A o \in Requests : o # q => pc'[o] = pc[o]
  BY <1>1 DEF SaleInsert, Goto, TypeOK
<1>4. Holding' /\ Fresh'
  BY <1>1, <1>3, Kinds, KindsApart DEF Holding, Fresh, SaleInsert, shop
<1>5. Stored'
  <2>1. \A o, u \in inserted' \cup sold' : SameKey(o, u) => o = u
    BY DEF Stored, SaleInsert, shop, SameKey
  <2> QED BY <1>1, <1>3, <2>1, Kinds, KindsApart DEF Stored, SaleInsert, shop, SameKey
<1> QED BY <1>2, <1>4, <1>5, BooksStay DEF SaleInsert

LEMMA SaleCommitKeeps == ASSUME IInv, NEW q \in Sales, SaleCommit(q) PROVE IInv'
<1> USE DEF IInv
<1> DEFINE s == SessionOf[q]
<1>1. q \in Requests /\ s \in Sessions /\ pc[q] = "write"
  BY Kinds DEF SaleCommit
<1>2. /\ holder[s] = q /\ status[s] = "open" /\ q \in inserted
      /\ \A p \in Products : Asked[q][p].sum > 0 => holder[p] = q /\ seen[q][p] = stock[p]
                                                    /\ Asked[q][p].most <= stock[p]
  BY <1>1 DEF Holding, Fresh, Stored
<1>3. /\ pc'[q] = "done" /\ \A o \in Requests : o # q => pc'[o] = pc[o]
      /\ \A r \in Rows : holder[r] # q => holder'[r] = holder[r]
      /\ \A r \in Rows : holder'[r] # None => holder'[r] = holder[r] /\ holder[r] # q
      /\ \A t \in Sessions : t # s => cash'[t] = cash[t]
  BY <1>1 DEF SaleCommit, Answer, Goto, Release, TypeOK
<1>4. \A p \in Products :
        stock'[p] = IF Asked[q][p].sum > 0 THEN stock[p] - Asked[q][p].last ELSE stock[p]
  BY <1>2 DEF SaleCommit, NewStock, Wanted
<1>5. TypeOK'
  <2>1. stock' \in [Products -> Int]
    BY <1>1, Amounts DEF TypeOK, SaleCommit, NewStock
  <2>2. kardex' \in [Products -> Int]
    BY Amounts DEF TypeOK, SaleCommit
  <2>3. cash' \in [Sessions -> Int]
    BY <1>1, Amounts DEF TypeOK, SaleCommit
  <2>4. holder' \in [Rows -> Requests \cup {None}]
    BY DEF TypeOK, SaleCommit, Release
  <2>5. pc' \in [Requests -> Pcs] /\ answer' \in [Requests -> Answers]
    BY <1>1 DEF TypeOK, SaleCommit, Answer, Goto, Pcs, Answers
  <2> QED BY <2>1, <2>2, <2>3, <2>4, <2>5 DEF TypeOK, SaleCommit
<1>6. Holding'
  BY <1>2, <1>3, Kinds, KindsApart DEF Holding, SaleCommit
<1>7. Fresh'
  <2>1. \A o \in Requests, p \in Products : holder'[p] = o => seen'[o][p] = stock'[p]
    <3> SUFFICES ASSUME NEW o \in Requests, NEW p \in Products, holder'[p] = o
                 PROVE  seen[o][p] = stock'[p]
      BY DEF SaleCommit
    <3>1. holder[p] = o /\ holder[p] # q
      BY <1>3, Kinds
    <3>2. ~(Asked[q][p].sum > 0)
      BY <1>2, <3>1
    <3> QED BY <1>4, <3>1, <3>2 DEF Fresh
  <2>2. \A u \in Sales : pc'[u] \in {"insert", "write"} =>
          \A p \in Products : Asked[u][p].sum > 0 => Asked[u][p].most <= seen'[u][p]
    BY <1>3, Kinds DEF Fresh, SaleCommit
  <2>3. \A c \in Closings : pc'[c] = "close" => counted'[c] = cash'[SessionOf[c]]
    BY <1>2, <1>3, Kinds, KindsApart DEF Fresh, Holding, SaleCommit
  <2> QED BY <2>1, <2>2, <2>3 DEF Fresh
<1>8. Stored'
  <2>1. inserted' \cup sold' \subseteq inserted \cup sold
    BY <1>2 DEF SaleCommit
  <2>2. \A o, u \in inserted' \cup sold' : SameKey(o, u) => o = u
    BY <2>1 DEF Stored, SameKey
  <2>3. \A o, u \in Sales : SameKey(o, u)' <=> SameKey(o, u)
    BY DEF SameKey
  <2>4. inserted' \cup sold' \subseteq Sales
    BY <2>1 DEF TypeOK
  <2> QED BY <1>1, <1>3, <2>2, <2>3, <2>4, Kinds, KindsApart DEF Stored, SaleCommit
<1>9. Books'
  <2>1. StockNeverNegative'
    BY <1>2, <1>4, Amounts DEF Books, StockNeverNegative, TypeOK
  <2>2. KardexMatchesStock'
    <3> SUFFICES ASSUME NEW p \in Products
                 PROVE  /\ stock'[p] >= InitialStock[p] + kardex'[p]
                        /\ (\A u \in sold' : Asked[u][p].sum = Asked[u][p].last) =>
                             stock'[p] = InitialStock[p] + kardex'[p]
      BY DEF KardexMatchesStock
    <3>1. /\ kardex'[p] = kardex[p] - Asked[q][p].sum /\ kardex[p] \in Int /\ stock[p] \in Int
          /\ InitialStock[p] \in Nat
      BY Amounts DEF TypeOK, SaleCommit
    <3>2. stock[p] >= InitialStock[p] + kardex[p]
      BY DEF Books, KardexMatchesStock
    <3>3. (\A u \in sold' : Asked[u][p].sum = Asked[u][p].last) =>
            /\ stock[p] = InitialStock[p] + kardex[p]
            /\ Asked[q][p].sum = Asked[q][p].last
      BY DEF Books, KardexMatchesStock, SaleCommit
    <3> DEFINE a == Asked[q][p]
    <3>4. a.sum \in Nat /\ a.last \in Nat /\ a.last <= a.sum
      BY Amounts
    <3>5. CASE a.sum > 0
      <4>1. stock'[p] = stock[p] - a.last
        BY <1>4, <3>5
      <4> QED BY <3>1, <3>2, <3>3, <3>4, <4>1
    <3>6. CASE a.sum = 0
      <4>1. stock'[p] = stock[p]
        BY <1>4, <3>6
      <4> QED BY <3>1, <3>2, <3>3, <3>4, <3>6, <4>1
    <3> QED BY <3>4, <3>5, <3>6
  <2>3. ExpectedCountsEverySale'
    BY <1>2, <1>3 DEF Books, ExpectedCountsEverySale, SaleCommit
  <2>4. SessionsKeepTheirRegister'
    BY DEF Books, SessionsKeepTheirRegister, SaleCommit
  <2> QED BY <2>1, <2>2, <2>3, <2>4 DEF Books
<1> QED BY <1>5, <1>6, <1>7, <1>8, <1>9

LEMMA MoveLockKeeps == ASSUME IInv, NEW m \in Movements, MoveLock(m) PROVE IInv'
<1> USE DEF IInv
<1> DEFINE p == ProductOf[m]
<1>1. m \in Requests /\ p \in Products /\ p \in Rows /\ pc[m] = "begin" /\ m \notin Sales
  BY Kinds, KindsApart DEF MoveLock
<1>2. TypeOK'
  BY <1>1 DEF TypeOK, MoveLock, Lock, Goto, Pcs, shop
<1>3. /\ pc'[m] = "move" /\ \A o \in Requests : o # m => pc'[o] = pc[o] /\ seen'[o] = seen[o]
      /\ \A r \in Rows : holder[r] # None => holder'[r] = holder[r]
      /\ \A r \in Products : r # p => holder'[r] = holder[r] /\ seen'[m][r] = seen[m][r]
      /\ holder'[p] = m /\ seen'[m][p] = stock[p]
  BY <1>1 DEF MoveLock, Lock, Goto, TypeOK
<1>4. Holding'
  BY <1>1, <1>3, Kinds, KindsApart DEF Holding, MoveLock, shop
<1>5. Fresh'
  BY <1>1, <1>3, Kinds, KindsApart DEF Fresh, MoveLock, shop
<1>6. Stored'
  BY <1>1, <1>3, Kinds, KindsApart DEF Stored, MoveLock, shop, SameKey
<1> QED BY <1>2, <1>4, <1>5, <1>6, BooksStay DEF MoveLock

LEMMA MoveCommitKeeps == ASSUME IInv, NEW m \in Movements, MoveCommit(m) PROVE IInv'
<1> USE DEF IInv
<1> DEFINE p == ProductOf[m]
<1>1. m \in Requests /\ p \in Products /\ p \in Rows /\ pc[m] = "move" /\ m \notin Sales
      /\ Signed[m] \in Int
  BY Kinds, KindsApart DEF MoveCommit
<1>2. holder[p] = m /\ seen[m][p] = stock[p] /\ stock[p] \in Int /\ kardex[p] \in Int
  BY <1>1 DEF Holding, Fresh, TypeOK
<1>3. /\ pc'[m] = "done" /\ \A o \in Requests : o # m => pc'[o] = pc[o]
      /\ \A r \in Rows : holder[r] # m => holder'[r] = holder[r]
      /\ \A r \in Rows : holder'[r] # None => holder'[r] = holder[r] /\ holder[r] # m
      /\ \A r \in Products : r # p => stock'[r] = stock[r] /\ kardex'[r] = kardex[r]
      /\ stock'[p] = stock[p] + Signed[m] /\ kardex'[p] = kardex[p] + Signed[m] /\ stock'[p] >= 0
  BY <1>1, <1>2 DEF MoveCommit, Moved, Answer, Goto, Release, TypeOK
<1>4. TypeOK'
  <2>1. stock' \in [Products -> Int] /\ kardex' \in [Products -> Int]
    BY <1>1, <1>2 DEF TypeOK, MoveCommit, Moved
  <2>2. holder' \in [Rows -> Requests \cup {None}]
    BY DEF TypeOK, MoveCommit, Release
  <2>3. pc' \in [Requests -> Pcs] /\ answer' \in [Requests -> Answers]
    BY <1>1 DEF TypeOK, MoveCommit, Answer, Goto, Pcs, Answers
  <2> QED BY <2>1, <2>2, <2>3 DEF TypeOK, MoveCommit, local
<1>5. Holding'
  BY <1>1, <1>3, Kinds, KindsApart DEF Holding, MoveCommit
<1>6. Fresh'
  BY <1>1, <1>2, <1>3, Kinds, KindsApart DEF Fresh, MoveCommit, local
<1>7. Stored'
  BY <1>1, <1>3, Kinds, KindsApart DEF Stored, MoveCommit, local, SameKey
<1>8. Books'
  <2>1. StockNeverNegative'
    BY <1>3 DEF Books, StockNeverNegative
  <2>2. KardexMatchesStock'
    BY <1>1, <1>2, <1>3, Amounts DEF Books, KardexMatchesStock, MoveCommit
  <2> QED BY <2>1, <2>2 DEF Books, ExpectedCountsEverySale, SessionsKeepTheirRegister, MoveCommit
<1> QED BY <1>4, <1>5, <1>6, <1>7, <1>8

LEMMA OpenReadKeeps == ASSUME IInv, NEW o \in Openings, OpenRead(o) PROVE IInv'
<1> USE DEF IInv
<1>1. o \in Requests /\ pc[o] = "begin" /\ o \notin Sales /\ o \notin Movements /\ o \notin Closings
  BY Kinds, KindsApart DEF OpenRead
<1>2. TypeOK'
  BY <1>1 DEF TypeOK, OpenRead, Goto, Pcs, shop, local
<1>3. \A q \in Requests : q # o => pc'[q] = pc[q]
  BY <1>1 DEF OpenRead, Goto, TypeOK
<1>4. Holding' /\ Fresh' /\ Stored'
  BY <1>1, <1>3, Kinds DEF Holding, Fresh, Stored, OpenRead, shop, local, SameKey
<1> QED BY <1>2, <1>4, BooksStay DEF OpenRead

LEMMA OpenInsertKeeps == ASSUME IInv, NEW o \in Openings, OpenInsert(o) PROVE IInv'
<1> USE DEF IInv
<1>1. /\ o \in Requests /\ o \in Sessions /\ pc[o] = "open" /\ status[o] = "absent"
      /\ o \notin Sales /\ o \notin Movements /\ o \notin Closings
  BY Kinds, KindsApart DEF OpenInsert, Stored
<1>2. TypeOK'
  BY <1>1 DEF TypeOK, OpenInsert, Answer, Goto, Pcs, Answers, local
<1>3. /\ pc'[o] = "done" /\ \A q \in Requests : q # o => pc'[q] = pc[q]
      /\ status'[o] = "open" /\ \A s \in Sessions : s # o => status'[s] = status[s]
  BY <1>1 DEF OpenInsert, Answer, Goto, TypeOK
<1>4. Holding' /\ Fresh' /\ Stored'
  BY <1>1, <1>3, Kinds DEF Holding, Fresh, Stored, OpenInsert, local, SameKey
<1>5. Books'
  BY <1>1, <1>3, Kinds DEF Books, StockNeverNegative, KardexMatchesStock, ExpectedCountsEverySale,
     SessionsKeepTheirRegister, OpenInsert
<1> QED BY <1>2, <1>4, <1>5

LEMMA CloseLockKeeps == ASSUME IInv, NEW c \in Closings, CloseLock(c) PROVE IInv'
<1> USE DEF IInv
<1>1. /\ c \in Requests /\ SessionOf[c] \in Rows /\ SessionOf[c] \in Sessions /\ pc[c] = "begin"
      /\ c \notin Sales /\ c \notin Movements /\ c \notin Openings
  BY Kinds, KindsApart DEF CloseLock
<1>2. TypeOK'
  BY <1>1 DEF TypeOK, CloseLock, Lock, Goto, Pcs, shop, local
<1>3. /\ pc'[c] = "count" /\ \A q \in Requests : q # c => pc'[q] = pc[q]
      /\ holder'[SessionOf[c]] = c
      /\ \A r \in Rows : holder[r] # None => holder'[r] = holder[r]
      /\ \A p \in Products : holder'[p] = holder[p]
  BY <1>1, Kinds DEF CloseLock, Lock, Goto, TypeOK
<1>4. Holding' /\ Fresh' /\ Stored'
  BY <1>1, <1>3, Kinds DEF Holding, Fresh, Stored, CloseLock, shop, local, SameKey
<1> QED BY <1>2, <1>4, BooksStay DEF CloseLock

LEMMA CloseCountKeeps == ASSUME IInv, NEW c \in Closings, CloseCount(c) PROVE IInv'
<1> USE DEF IInv
<1>1. /\ c \in Requests /\ SessionOf[c] \in Sessions /\ pc[c] = "count"
      /\ c \notin Sales /\ c \notin Movements /\ c \notin Openings
  BY Kinds, KindsApart DEF CloseCount
<1>2. TypeOK'
  BY <1>1 DEF TypeOK, CloseCount, Goto, Pcs, shop
<1>3. /\ pc'[c] = "close" /\ \A q \in Requests : q # c => pc'[q] = pc[q] /\ counted'[q] = counted[q]
      /\ counted'[c] = cash[SessionOf[c]]
  BY <1>1 DEF CloseCount, Goto, TypeOK
<1>4. Holding' /\ Fresh' /\ Stored'
  BY <1>1, <1>3, Kinds DEF Holding, Fresh, Stored, CloseCount, shop, SameKey
<1> QED BY <1>2, <1>4, BooksStay DEF CloseCount

LEMMA CloseCommitKeeps == ASSUME IInv, NEW c \in Closings, CloseCommit(c) PROVE IInv'
<1> USE DEF IInv
<1> DEFINE s == SessionOf[c]
<1>1. /\ c \in Requests /\ s \in Sessions /\ s \in Rows /\ pc[c] = "close"
      /\ c \notin Sales /\ c \notin Movements /\ c \notin Openings
  BY Kinds, KindsApart DEF CloseCommit
<1>2. holder[s] = c /\ status[s] = "open" /\ counted[c] = cash[s] /\ cash[s] \in Int
  BY <1>1 DEF Holding, Fresh, TypeOK
<1>3. TypeOK'
  <2>1. holder' \in [Rows -> Requests \cup {None}]
    BY DEF TypeOK, CloseCommit, Release
  <2> QED BY <1>1, <1>2, <2>1, Amounts DEF TypeOK, CloseCommit, Answer, Goto, Pcs, Answers, local
<1>4. /\ pc'[c] = "done" /\ \A q \in Requests : q # c => pc'[q] = pc[q]
      /\ \A r \in Rows : holder[r] # c => holder'[r] = holder[r]
      /\ \A r \in Rows : holder'[r] # None => holder'[r] = holder[r]
      /\ \A t \in Sessions : t # s => status'[t] = status[t] /\ expected'[t] = expected[t]
      /\ status'[s] = "closed" /\ expected'[s] = Float + cash[s]
  BY <1>1, <1>2 DEF CloseCommit, Answer, Goto, Release, TypeOK
<1>5. Holding'
  BY <1>1, <1>2, <1>4, Kinds DEF Holding, CloseCommit
<1>6. Fresh' /\ Stored'
  BY <1>1, <1>2, <1>4, Kinds DEF Fresh, Stored, CloseCommit, local, SameKey
<1>7. Books'
  BY <1>2, <1>4, Kinds DEF Books, StockNeverNegative, KardexMatchesStock, ExpectedCountsEverySale,
     SessionsKeepTheirRegister, CloseCommit
<1> QED BY <1>3, <1>5, <1>6, <1>7

\* Requests on registers write neither products nor sessions.
LEMMA RegistersKeep ==
  ASSUME IInv, NEW d \in Deletions \cup Listings, TypeOK', UNCHANGED <<shop, holder, local>>,
         \A q \in Requests : q # d => pc'[q] = pc[q],
         \A s \in Openings : status[s] # "absent" => RegisterOf[s] \in registers'
  PROVE  IInv'
<1> USE DEF IInv
<1>1. d \notin Sales /\ d \notin Movements /\ d \notin Closings /\ d \notin Openings
  BY KindsApart
<1>2. Holding' /\ Fresh' /\ Stored'
  BY <1>1, Kinds DEF Holding, Fresh, Stored, shop, local, SameKey
<1>3. Books'
  BY DEF Books, StockNeverNegative, KardexMatchesStock, ExpectedCountsEverySale,
         SessionsKeepTheirRegister, shop
<1> QED BY <1>2, <1>3

LEMMA DeleteKeeps ==
  ASSUME IInv, NEW d \in Deletions, DeleteCount(d) \/ DeleteRow(d) PROVE IInv'
<1> USE DEF IInv
<1>1. d \in Requests
  BY Kinds
<1>2. TypeOK' /\ \A q \in Requests : q # d => pc'[q] = pc[q]
  BY <1>1 DEF TypeOK, DeleteCount, DeleteRow, Answer, Goto, Pcs, Answers, shop, local
<1>3. \A s \in Openings : status[s] # "absent" => RegisterOf[s] \in registers'
  BY Kinds DEF Books, SessionsKeepTheirRegister, DeleteCount, DeleteRow, SessionsOn
<1> QED BY <1>2, <1>3, RegistersKeep DEF DeleteCount, DeleteRow

LEMMA ListKeeps ==
  ASSUME IInv, NEW l \in Listings, ListRead(l) \/ ListCreate(l) PROVE IInv'
<1> USE DEF IInv
<1>1. l \in Requests
  BY Kinds
<1>2. TypeOK' /\ \A q \in Requests : q # l => pc'[q] = pc[q]
  BY <1>1 DEF TypeOK, ListRead, ListCreate, Answer, Goto, Pcs, Answers, shop, local
<1>3. \A s \in Openings : status[s] # "absent" => RegisterOf[s] \in registers'
  BY DEF Books, SessionsKeepTheirRegister, ListRead, ListCreate
<1> QED BY <1>2, <1>3, RegistersKeep DEF ListRead, ListCreate

\* The ways a request ends without writing.
LEMMA RefusalsKeep ==
  ASSUME IInv,
         \/ \E q \in Sales : SaleNoSession(q) \/ SaleRefused(q) \/ SaleKeyTaken(q) \/ DeadlockVictim(q)
         \/ \E m \in Movements : MoveJoinRefused(m) \/ MoveRefused(m)
         \/ \E o \in Openings : OpenRefused(o) \/ OpenNoRegister(o)
         \/ \E c \in Closings : CloseRefused(c)
         \/ \E d \in Deletions : DeleteBlocked(d)
         \/ \E q \in Failing : Fail(q)
  PROVE  IInv'
<1>1. PICK q \in Requests : \E w \in Answers : Refuse(q, w)
  BY Kinds, SalesAssumption DEF SaleNoSession, SaleRefused, SaleKeyTaken, DeadlockVictim,
     MoveJoinRefused, MoveRefused, OpenRefused, OpenNoRegister, CloseRefused, DeleteBlocked, Fail, Answers
<1> QED BY <1>1, RefuseKeeps

LEMMA StepIInv == IInv /\ [Next]_vars => IInv'
<1> SUFFICES ASSUME IInv, [Next]_vars PROVE IInv'
  OBVIOUS
<1>1. CASE \E q \in Sales : SaleStep(q)
  BY <1>1, SaleSessionKeeps, LockProductKeeps, ProductsReadKeeps, SaleCheckedKeeps, SaleInsertKeeps,
     SaleCommitKeeps, RefusalsKeep DEF SaleStep
<1>2. CASE \E m \in Movements : MoveStep(m)
  BY <1>2, MoveLockKeeps, MoveCommitKeeps, RefusalsKeep DEF MoveStep
<1>3. CASE \E o \in Openings : OpenStep(o)
  BY <1>3, OpenReadKeeps, OpenInsertKeeps, RefusalsKeep DEF OpenStep
<1>4. CASE \E c \in Closings : CloseStep(c)
  BY <1>4, CloseLockKeeps, CloseCountKeeps, CloseCommitKeeps, RefusalsKeep DEF CloseStep
<1>5. CASE \E d \in Deletions : DeleteStep(d)
  BY <1>5, DeleteKeeps, RefusalsKeep DEF DeleteStep
<1>6. CASE \E l \in Listings : ListStep(l)
  BY <1>6, ListKeeps DEF ListStep
<1>7. CASE \E q \in Failing : Fail(q)
  BY <1>7, RefusalsKeep
<1>8. CASE UNCHANGED vars
  BY <1>8 DEF vars, shop, local, IInv, TypeOK, Holding, Fresh, Stored, Books, StockNeverNegative,
     KardexMatchesStock, ExpectedCountsEverySale, SessionsKeepTheirRegister, SameKey
<1> QED BY <1>1, <1>2, <1>3, <1>4, <1>5, <1>6, <1>7, <1>8 DEF Next, Step

\* What the shop keeps true, whatever requests interleave and fail.
THEOREM Invariance == Spec => []IInv
BY InitIInv, StepIInv, PTL DEF Spec

\* The types of every variable.
THEOREM TypeCorrect == Spec => []TypeOK
BY Invariance, PTL DEF IInv

\* No interleaving of sales and movements sells what is not there.
THEOREM NothingOversold == Spec => []StockNeverNegative
BY Invariance, PTL DEF IInv, Books

\* The stock is the kardex, but for the lines of a sale that share a product.
THEOREM KardexHolds == Spec => []KardexMatchesStock
BY Invariance, PTL DEF IInv, Books

\* No sale slips in between the count and the closing, or after it.
THEOREM CountHolds == Spec => []ExpectedCountsEverySale
BY Invariance, PTL DEF IInv, Books

\* The foreign key covers what the count before a DELETE misses.
THEOREM RegistersStay == Spec => []SessionsKeepTheirRegister
BY Invariance, PTL DEF IInv, Books

\* A repeated sale is sold once, also when the two race in different sessions.
THEOREM KeysHold == Spec => []SaleOncePerKey
<1>1. IInv => SaleOncePerKey
  BY DEF IInv, Stored, SaleOncePerKey
<1> QED BY <1>1, Invariance, PTL

(***************************************************************************)
(* Every transaction takes effect at one instant.                          *)
(***************************************************************************)
LEMMA InitShop == Init => ShopOf!Init
BY SalesAssumption, Kinds DEF Init, ShopOf!Init, Sessions

LEMMA SaleIsSale == ASSUME IInv, NEW q \in Sales, SaleCommit(q) PROVE ShopOf!Sell(q)
<1> USE DEF IInv
<1>1. q \in Requests /\ pc[q] = "write" /\ q \in inserted /\ q \notin sold
      /\ status[SessionOf[q]] = "open"
  BY Kinds DEF SaleCommit, Stored, Holding
<1>2. \A o \in sold : o # q /\ ~SameKeys[o][q]
  BY <1>1 DEF Stored, SameKeys, TypeOK
<1>3. \A p \in Products : Asked[q][p].sum > 0 =>
        Asked[q][p].most <= stock[p] /\ seen[q][p] = stock[p]
  BY <1>1 DEF Holding, Fresh
<1>4. \A p \in Products : ~(Asked[q][p].sum > 0) => Asked[q][p].most = 0 /\ Asked[q][p].last = 0
  BY Amounts
<1>5. \A p \in Products : Asked[q][p].most <= stock[p]
  BY <1>3, <1>4, Amounts DEF Books, StockNeverNegative, TypeOK
<1>6. stock' = [p \in Products |-> stock[p] - Asked[q][p].last]
  <2>1. \A p \in Products : NewStock(q)[p] = stock[p] - Asked[q][p].last
    BY <1>3, <1>4 DEF NewStock, Wanted, TypeOK
  <2> QED BY <2>1 DEF SaleCommit, NewStock
<1> QED BY <1>1, <1>2, <1>5, <1>6 DEF ShopOf!Sell, SaleCommit

LEMMA MoveIsMove == ASSUME IInv, NEW m \in Movements, MoveCommit(m) PROVE ShopOf!Move(m)
<1> USE DEF IInv
<1>1. ProductOf[m] \in Products /\ m \in Requests /\ Signed[m] \in Int
  BY Kinds
<1>2. Moved(m) = stock[ProductOf[m]] + Signed[m]
  BY <1>1 DEF MoveCommit, Moved, Holding, Fresh
<1> QED BY <1>1, <1>2 DEF MoveCommit, ShopOf!Move, TypeOK

LEMMA OpenIsOpen == ASSUME IInv, NEW o \in Openings, OpenInsert(o) PROVE ShopOf!Open(o)
BY DEF IInv, Stored, OpenInsert, ShopOf!Open

LEMMA CloseIsClose == ASSUME IInv, NEW c \in Closings, CloseCommit(c) PROVE ShopOf!Close(SessionOf[c])
BY DEF IInv, Holding, Fresh, CloseCommit, ShopOf!Close

LEMMA StepShop == IInv /\ [Next]_vars => [ShopOf!Next]_(ShopOf!vars)
<1> SUFFICES ASSUME IInv, [Next]_vars PROVE ShopOf!Next \/ UNCHANGED shop
  BY DEF ShopOf!vars, shop
<1>1. CASE \E q \in Sales : SaleCommit(q)
  BY <1>1, SaleIsSale DEF ShopOf!Next
<1>2. CASE \E m \in Movements : MoveCommit(m)
  BY <1>2, MoveIsMove DEF ShopOf!Next
<1>3. CASE \E o \in Openings : OpenInsert(o)
  BY <1>3, OpenIsOpen, Kinds DEF ShopOf!Next
<1>4. CASE \E c \in Closings : CloseCommit(c)
  BY <1>4, CloseIsClose, Kinds DEF ShopOf!Next
<1>5. CASE UNCHANGED shop
  BY <1>5
<1>6. ASSUME NEW q \in Sales, SaleStep(q), ~SaleCommit(q) PROVE UNCHANGED shop
  BY <1>6 DEF SaleStep, SaleSession, SaleNoSession, ProductsRead, LockProduct, SaleChecked,
     SaleRefused, SaleInsert, SaleKeyTaken, DeadlockVictim, Refuse
<1>7. ASSUME NEW m \in Movements, MoveStep(m), ~MoveCommit(m) PROVE UNCHANGED shop
  BY <1>7 DEF MoveStep, MoveJoinRefused, MoveLock, MoveRefused, Refuse
<1>8. ASSUME NEW o \in Openings, OpenStep(o), ~OpenInsert(o) PROVE UNCHANGED shop
  BY <1>8 DEF OpenStep, OpenRead, OpenRefused, OpenNoRegister, Refuse
<1>9. ASSUME NEW c \in Closings, CloseStep(c), ~CloseCommit(c) PROVE UNCHANGED shop
  BY <1>9 DEF CloseStep, CloseLock, CloseRefused, CloseCount, Refuse
<1>10. ASSUME NEW d \in Deletions, DeleteStep(d) PROVE UNCHANGED shop
  BY <1>10 DEF DeleteStep, DeleteCount, DeleteRow, DeleteBlocked, Refuse
<1>11. ASSUME NEW l \in Listings, ListStep(l) PROVE UNCHANGED shop
  BY <1>11 DEF ListStep, ListRead, ListCreate
<1>12. ASSUME NEW q \in Failing, Fail(q) PROVE UNCHANGED shop
  BY <1>12 DEF Fail, Refuse
<1> QED BY <1>1, <1>2, <1>3, <1>4, <1>5, <1>6, <1>7, <1>8, <1>9, <1>10, <1>11, <1>12
        DEF Next, Step, vars

\* The shop of locks and transactions implements the shop where each request
\* happens at once.
THEOREM Refinement == Spec => ImplementsShop
BY InitShop, StepShop, Invariance, PTL DEF Spec, ImplementsShop, ShopOf!Spec

================================================================================

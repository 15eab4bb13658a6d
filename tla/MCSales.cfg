\* Three sales over two products in two sessions, one of them repeated, a stock
\* movement, and the session and its register coming and going.
SPECIFICATION FairSpec
CONSTANTS
  q1 = q1  q2 = q2  q3 = q3  m1 = m1  o1 = o1  c1 = c1  c2 = c2  d1 = d1  l1 = l1
  pA = pA  pB = pB  s1 = s1  s2 = s2  r1 = r1  r2 = r2  ana = ana  eva = eva  k1 = k1  None = None
  Products <- TwoProducts
  Drawers <- TwoDrawers
  Registers <- TwoRegisters
  InitiallyActive <- OneActive
  Sales <- ThreeSales
  Movements <- OneMovement
  Openings <- OneOpening
  Closings <- TwoClosings
  Deletions <- OneDeletion
  Listings <- OneListing
  InitialStock <- Stocks
  Asked <- Asks
  Total <- Totals
  Paid <- Payments
  KeyOf <- SaleKeys
  SessionOf <- InSession
  Signed <- OutTwo
  ProductOf <- MovesA
  UserOf <- Users
  RegisterOf <- OnRegister
  Float = 1
  Failing <- MayFail
INVARIANTS
  KardexMatchesStock ExpectedCountsEverySale SessionsKeepTheirRegister
PROPERTIES
  ImplementsShop AllAnswered
CHECK_DEADLOCK FALSE

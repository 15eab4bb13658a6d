\* Two credit notes and a debit note with equal or different keys, no range at
\* first, an invoice of the same prefix, a certificate that arrives meanwhile.
SPECIFICATION Spec
CONSTANTS
  c1 = c1  c2 = c2  d1 = d1  v1 = v1  g1 = g1  k1 = k1  k2 = k2
  full = full  half = half  None = None
  Credits <- TwoCredits
  Debits <- OneDebit
  Issues <- OneIssue
  Inputs <- Cases
  Amount <- Amounts
  Total = 2
  WithReason <- All
  Configured <- NoRange
  RangeFrom <- FromFive
  RangeTo <- ToSix
  DefaultTo = 3
  Failing <- MayFail
INVARIANTS
  OncePerKey NumbersUnique GapsAreLostNotes ReplayReturnsNote
CHECK_DEADLOCK FALSE

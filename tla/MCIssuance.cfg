\* Four requests, two overlapping ranges of which one is created while they run;
\* one connection more than requests.
SPECIFICATION FairSpec
CONSTANTS
  q1 = q1  q2 = q2  q3 = q3  q4 = q4  k1 = k1  k2 = k2  k3 = k3
  pa = pa  pb = pb  fe = fe  rA = rA  rB = rB  None = None
  Requests <- FourRequests
  KeyOf <- Keying
  PayloadOf <- Payloads
  PrefixFor <- OnePrefix
  Configured <- TwoRanges
  InitiallyActive <- NoRange
  RangePrefix <- RangePrefixes
  RangeFrom <- Froms
  RangeTo <- Tos
  DefaultTo = 3
  Pool = 5
  Electronic = TRUE
  Failures = TRUE
INVARIANTS
  OncePerKey NumbersUnique RangeGapFree NoSpuriousError
PROPERTIES
  ImplementsLedger AllAnswered
CHECK_DEADLOCK FALSE

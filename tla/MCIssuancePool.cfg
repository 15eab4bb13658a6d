\* As many concurrent requests as the pool has connections.
SPECIFICATION FairSpec
CONSTANTS
  q1 = q1  q2 = q2  q3 = q3  q4 = q4  k1 = k1  k2 = k2  k3 = k3
  pa = pa  pb = pb  fe = fe  rA = rA  rB = rB  None = None
  Requests <- ThreeRequests
  KeyOf <- Keying
  PayloadOf <- Payloads
  PrefixFor <- OnePrefix
  Configured <- OneRange
  InitiallyActive <- OneRange
  RangePrefix <- RangePrefixes
  RangeFrom <- Froms
  RangeTo <- Tos
  DefaultTo = 3
  Pool = 3
  Electronic = TRUE
  Failures = FALSE
PROPERTIES
  AllAnswered
CHECK_DEADLOCK FALSE

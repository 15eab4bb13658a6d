\* Liveness: two invoices, one of which may have no submission, batches of two.
SPECIFICATION FairSpec
CONSTANTS
  i1 = i1  i2 = i2  r1 = r1  r2 = r2  c1 = c1  c2 = c2
  NoInvoice = NoInvoice
  Invoices <- TwoInvoices
  Relays <- OneRelay
  Callers <- OneCaller
  Attempts = 2
  StatusAttempts = 1
  Batch = 2
  MaxStalled = 1
  Faults = FALSE
  MaxSubs = 1
  MaxEvents = 2
  MaxSends = 1
  MaxDlq = 2
  MaxCrashes = 0
  MaxEvictions = 1
INVARIANTS
  PermanentFailureReachesDlq
PROPERTIES
  EventuallyDispatched JobsSettle
CHECK_DEADLOCK FALSE

\* Two relays with stale batches, a crash and failing calls.
SPECIFICATION Spec
CONSTANTS
  i1 = i1  i2 = i2  r1 = r1  r2 = r2  c1 = c1  c2 = c2
  NoInvoice = NoInvoice
  Invoices <- OneInvoice
  Relays <- TwoRelays
  Callers <- NoCaller
  Attempts = 2
  StatusAttempts = 1
  Batch = 1
  MaxStalled = 1
  Faults = TRUE
  MaxSubs = 1
  MaxEvents = 1
  MaxSends = 2
  MaxDlq = 2
  MaxCrashes = 1
  MaxEvictions = 0
INVARIANTS
  RequestsAreCounted NotifiedOnlyIfAccepted
PROPERTIES
  NoSecondDispatch
SYMMETRY RelaySymmetry
CHECK_DEADLOCK FALSE

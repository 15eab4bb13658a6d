\* Two callers retry invoices and dead letters against the running jobs; one crash, which
\* fails the job at once: MaxStalled 0 is a job that has used up its stall.
SPECIFICATION Spec
CONSTANTS
  i1 = i1  i2 = i2  r1 = r1  r2 = r2  c1 = c1  c2 = c2
  NoInvoice = NoInvoice
  Invoices <- OneInvoice
  Relays <- OneRelay
  Callers <- TwoCallers
  Attempts = 1
  StatusAttempts = 1
  Batch = 1
  MaxStalled = 0
  Faults = FALSE
  MaxSubs = 2
  MaxEvents = 2
  MaxSends = 2
  MaxDlq = 2
  MaxCrashes = 1
  MaxEvictions = 1
INVARIANTS
  StatusBacked AgreesWithDian DlqOnlyAfterExhaustion
PROPERTIES
  ImplementsDelivery
SYMMETRY CallerSymmetry
CHECK_DEADLOCK FALSE

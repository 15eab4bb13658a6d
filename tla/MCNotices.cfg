\* An endpoint, and one that may be added and deleted; two attempts and one
\* stall of the status job, two faults, one process.
SPECIFICATION FairSpec
CONSTANTS
  e1 = e1  e2 = e2  None = None
  Endpoints <- TwoEndpoints
  Registered <- OneRegistered
  Removable <- OneRemovable
  Subscribed <- Subscriptions
  Verdicts <- AllVerdicts
  Email = TRUE
  StatusAttempts = 2
  MaxStalled = 1
  Workers = 1
  MaxFaults = 2
INVARIANTS
  CompletedServesAll
PROPERTIES
  DeletedHearsNoMore AllSettled
CHECK_DEADLOCK FALSE

\* A payment notified twice, two trials started at once, a change of plan, a
\* cancellation and the cron.
SPECIFICATION FairSpec
CONSTANTS
  d1 = d1  d2 = d2  s1 = s1  s2 = s2  h1 = h1  x1 = x1  c1 = c1
  m1 = m1  free = free  pro = pro  None = None
  Deliveries <- TwoDeliveries
  PaymentOf <- OnePayment
  Forged <- NoneForged
  Starts <- TwoStarts
  Changes <- OneChange
  Cancels <- OneCancel
  Crons <- OneCron
  Plans <- TwoPlans
  Free = free
  Failing <- MayFail
INVARIANTS
  ActiveIsEarned RecordedIsApplied AckedIsRecorded
PROPERTIES
  ExpiredTrialsEnd
CHECK_DEADLOCK FALSE

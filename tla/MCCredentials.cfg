\* A login, two verifications and a change of the PIN, two refreshes, a
\* logout and a revocation of all tokens.
SPECIFICATION Spec
CONSTANTS
  l1 = l1  v1 = v1  v2 = v2  p1 = p1  f1 = f1  f2 = f2  o1 = o1  a1 = a1
  old = old  new = new  bad = bad  Password = Password  Pin = Pin  None = None
  Locks <- TwoLocks
  Max <- Two
  Secret <- OldSecrets
  Logins <- OneLogin
  Verifies <- TwoVerifies
  Sets <- OneSet
  Offer <- Offers
  Refreshes <- TwoRefreshes
  Logouts <- OneLogout
  Revocations <- OneRevocation
  Mortal <- MayDie
  Aging <- MayExpire
INVARIANTS
  LockedOnlyAfterFailures OneUsablePerLogin
PROPERTIES
  DeadStaysDead ReuseRevokesFamily
CHECK_DEADLOCK FALSE

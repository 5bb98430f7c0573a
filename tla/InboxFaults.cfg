CONSTANTS
  d1 = d1
  d2 = d2
  d3 = d3
  w1 = w1
  w2 = w2
  Null = Null
  Deliveries = {d1, d2}
  Registered = {d1}
  Workers = {w1, w2}
  MaxAttempts <- MCMaxAttempts
  RetryDelay <- MCRetryDelay
  Abandons = TRUE
  BadResults = TRUE
SPECIFICATION FairSpec
INVARIANTS TypeOK ClaimsAreKept HandlerActsWithinLimits SettledForAReason
PROPERTIES ClaimsEndInReports DeliveriesSettleUnlessAbandoned ImplementsLifecycle
CHECK_DEADLOCK FALSE

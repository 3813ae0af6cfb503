\* Settlements, refunds, reports, reversals, disputes and payouts with what may go wrong in each.
SPECIFICATION MCSpec
CONSTANTS
  Parts = {"settlement", "settlement pair", "refund", "refund pair", "webhook", "webhook expiring",
           "reversals", "reversals traced", "reversals of key", "disputes", "disputes overlap",
           "refunds", "approvals", "ledger", "dlq", "retries", "drain"}
  Settlements = {"s1", "s2"}
  Loops = {"l1", "l2"}
  Admins = {"a1", "a2"}
  NoOne = "no one"
  minConfirmations = 2
  stabilityConfirmations = 1
  maxRetries = 2
  baseDelay = 1
  multiplier = 2
  maxDelayCeiling = 2
  Threshold = 2
  ReplayTTL = 1
  MaxLedger = 5
  MaxReorg = 2
  MaxFaults = 2
  Deliveries <- Reports
  MaxReportFaults = 2
  Refunds = {"r1", "r2"}
  Callers = {"c1", "c2"}
  NoRefund = "no refund"
  maxAttempts = 2
  MaxTx = 3
  MaxRefundFaults = 2
  Disputes = {"d1"}
  Appeals = {"q1", "q2"}
  Arbiters = {1, 2, 3, 4}
  Conflicted = {4}
  Rulings = {"BUYER_FAVOR", "none"}
  PanelMinSize = 2
  appealWindow = 1
  inactivityTimeout = 1
  seniorReviewTimeout = 1
  autoResolveWindow = 1
INVARIANTS
  PayoutOpsSound
PROPERTIES
  SettlementSound RefundSound ReportsAgree LedgerSound DisputesSound

\* Three calls: one hung up twice, one used twice, one deleted twice.
SPECIFICATION MCSpec
CONSTANTS
  Usages = {"u1", "u2", "n1"}
  UsageType <- Engines
  Tokens <- Used
  Hangups = {"h1", "h2"}
  Analyses = {"a1", "a2"}
  Trigger <- Triggers
  ByRequest = "nobody"
  Deletions = {"d1", "d2"}
  Prices <- PriceRows
  NoPrice <- Unpriced
  MaxFaults = 1
INVARIANTS BilledInFull NeverOvercharged BooksAgree RefundMatchesCharges
CHECK_DEADLOCK FALSE

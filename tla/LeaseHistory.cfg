SPECIFICATION Spec
SYMMETRY Symm
CONSTANTS
  h1 = h1  h2 = h2
  Host = {h1}
  c1 = c1  c2 = c2  NoCommit = NoCommit
  Commit = {c1, c2}
  Heartbeats = FALSE
  Outages = FALSE
  ProtocolSync = TRUE
INVARIANTS LeaseInv HandbackTakesAll PromotionTakesAll
PROPERTIES HistoryKept

SPECIFICATION Spec
CONSTANTS
  h1 = h1  h2 = h2
  Host = {h1}
  c1 = c1  c2 = c2  NoCommit = NoCommit
  Commit = {c1}
  Heartbeats = FALSE
  Outages = TRUE
  ProtocolSync = FALSE
INVARIANTS ResumeFinishes

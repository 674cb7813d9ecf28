SPECIFICATION FairSpec
CONSTANTS
  h1 = h1  h2 = h2
  Host = {h1, h2}
  c1 = c1  c2 = c2  NoCommit = NoCommit
  Commit = {}
  Heartbeats = TRUE
  Outages = TRUE
  ProtocolSync = FALSE
INVARIANTS OneWriter HostsTogether
PROPERTIES ForcedEnds ScriptEnds

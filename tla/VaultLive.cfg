SPECIFICATION FairSpec
CONSTANTS
  c1 = c1  c2 = c2  c3 = c3
  cat = cat  doc = doc  roster = roster  proto = proto  tmp = tmp
  nul = nul  one = one  two = two  crlf = crlf
  Client = {c1, c2}
  PassClient = {c1}
  Name = {doc, proto, tmp}
  Doc = {doc}
  Managed = {proto}
  SyncTmp = tmp
  Roster = doc
  NeedsRoster = {}
  Content = {nul}
  Empty = nul
  Absent = Absent  Refused = Refused  NoClient = NoClient  AnyTag = AnyTag
  Edit <- EditLive
  Match <- MatchOne
  Normalise <- MCNormalise
  Splice <- MCSplice
  Cut <- MCCut
  Lists <- MCLists
  SyncTries = 2
INVARIANTS DeadPassWritesNothing
PROPERTIES Answered SyncEnds

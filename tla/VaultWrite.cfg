SPECIFICATION Spec
CONSTANTS
  c1 = c1  c2 = c2  c3 = c3
  cat = cat  doc = doc  roster = roster  proto = proto  tmp = tmp
  nul = nul  one = one  two = two  crlf = crlf
  Client = {c1, c2}
  PassClient = {}
  Name = {roster, tmp}
  Doc = {}
  Managed = {}
  SyncTmp = tmp
  Roster = roster
  NeedsRoster = {}
  Content = {nul, one, two, crlf}
  Empty = nul
  Absent = Absent  Refused = Refused  NoClient = NoClient  AnyTag = AnyTag
  Edit <- EditAll
  Match <- MatchAll
  Normalise <- MCNormalise
  Splice <- MCSplice
  Cut <- MCCut
  Lists <- MCLists
  SyncTries = 2
SYMMETRY Sym
INVARIANTS HistoryLossReported EtagIsAccepted FenceCostsOneWrite
PROPERTIES AtomicSpec

SPECIFICATION Spec
CONSTANTS
  c1 = c1  c2 = c2  c3 = c3
  cat = cat  doc = doc  roster = roster  proto = proto  tmp = tmp
  nul = nul  one = one  two = two  crlf = crlf
  Client = {c1, c2}
  PassClient = {}
  Name = {cat, roster, tmp}
  Doc = {}
  Managed = {}
  SyncTmp = tmp
  Roster = roster
  NeedsRoster = {cat}
  Content = {nul, two}
  Empty = nul
  Absent = Absent  Refused = Refused  NoClient = NoClient  AnyTag = AnyTag
  Edit <- EditRoster
  Match <- MatchRoster
  Normalise <- MCNormalise
  Splice <- MCSplice
  Cut <- MCCut
  Lists <- MCLists
  SyncTries = 2
SYMMETRY Sym
INVARIANTS IInv
PROPERTIES CreatedOnlyIfRostered CommitNamesItsChange

SPECIFICATION FairSpec
CONSTANTS
  s1 = s1  s2 = s2  p1 = p1  p2 = p2  f1 = f1  u1 = u1  u2 = u2
  Path = {p1, p2}
  Folder = {f1}
  Unit = {u1, u2}
  Lies <- SameFolder
  Finder <- OwnFinder
  Finders = 2
  Same <- Copies
  Setting = {"low", "high", "bad"}
  First = "high"
  Broken = {"bad"}
  Cascading = {"high"}
  Hits <- Claims
  Session = {s1, s2}
  NoSession = NoSession
  Change = {k1}
  MaxBatch = 2
  MaxActs = 3
INVARIANTS OneSession DecisionsStand OneCopyStays TotalsAgree
ACTION_CONSTRAINT InOrder
PROPERTIES SessionEnds
CHECK_DEADLOCK FALSE

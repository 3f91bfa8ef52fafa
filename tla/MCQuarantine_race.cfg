SPECIFICATION Spec
CONSTANTS
  p1 = p1  p2 = p2  f1 = f1  f2 = f2  f3 = f3  i1 = i1  w1 = w1  w2 = w2
  Instance = {i1}
  Worker = {w1, w2}
  Home <- OneApp
  MaxId = 2
  Path = {p1, p2}
  NoPath = NoPath
  File = {f1, f2}
  NoFile = NoFile
  Original <- TwoFiles
  MaxAttempts = 2
  Limit <- TwoCommands
INVARIANTS PurgedMeansDestroyed Settled NoOrphans DestructionIsAccounted
PROPERTIES StatusOrder
SYMMETRY Swap
CONSTRAINT OneReapIfDisturbed
CHECK_DEADLOCK FALSE

SPECIFICATION Spec
CONSTANTS
  p1 = p1  p2 = p2  p3 = p3  x = x  y = y  z = z
  Path = {p1, p2, p3}
  Content = {x, y, z}
  NoContent = NoContent
  NoHash = NoHash
  NoPath = NoPath
  Size <- Sizes
  Edge <- EdgesOf
  Volume <- Volumes
  Worker = {w1, w2}
  MaxReads = 1
  Limit <- Rescan
INVARIANTS ConfirmedMeansIdentical
CHECK_DEADLOCK FALSE

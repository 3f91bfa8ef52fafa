SPECIFICATION FairSpec
CONSTANTS
  w1 = w1  w2 = w2
  Path = {p}
  Worker = {w1, w2}
  NoWorker = NoWorker
  NoTask = NoTask
  Tile = {tile}
  Pane = {pane}
  NoHook = NoHook
  NoPath = NoPath
  MaxRequests = 2
  MaxVersion = 1
  MaxFaults = 1
PROPERTIES EveryHookServed ShutdownEnds
CHECK_DEADLOCK FALSE

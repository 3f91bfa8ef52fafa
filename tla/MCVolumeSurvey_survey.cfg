SPECIFICATION FairSpec
CONSTANTS
  Worker = {w1, w2, w3}
  World <- SmallWorlds
  SystemFolders = {"Windows"}
  Service = "service"
  Batch = 2
  Chunk = 5
  MaxDepth = 4
  MaxFaults = 1
  Kind <- Kinds
  Today = 100
  Downloads = {"Downloads"}
  TempRoots <- Temporary
  CacheRoots <- Caches
  Ignorable = {"desktop.ini"}
  InactiveDays = 50
INVARIANTS ScanDelivers UnitsTrue UnitsFree TotalsTrue
PROPERTIES CategoriesFollow SurveyEnds
CHECK_DEADLOCK FALSE

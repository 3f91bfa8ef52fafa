SPECIFICATION FairSpec
CONSTANTS
  f1 = f1  f2 = f2
  File = {f1, f2}
  Folder = {d1}
  Root = root
  FileName = {"a"}
  FolderName = {"sub", "new", "service"}
  Service = "service"
  None = None
  Volumes <- SmallVolumes
  Chunk = 2
  MaxVersion = 2
  MaxRecords = 2
  MaxFaults = 1
INVARIANTS IndexFollowsDisk QuarantineUnseen RowsFollowIndex
PROPERTY CatchesUp
CHECK_DEADLOCK FALSE

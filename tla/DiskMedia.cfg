SPECIFICATION MediaSpec
CONSTANTS
  Paths <- MCPaths
  Files <- MCFiles
  FileOf <- MCFileOf
  Kind <- MCKind
  Locked = {"R"}
  MaxWrites = 2
INVARIANTS
  NothingLost
  NoDanglingDisk
  ReadOnlyStaysClean

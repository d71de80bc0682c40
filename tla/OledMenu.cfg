SPECIFICATION Spec
CONSTANTS
  Paths <- MCPaths
  Files <- MCFiles
  FileOf <- MCFileOf
  Kind <- MCKind
  Locked = {}
  MaxWrites = 0
  Dirs <- MCDirs
  Root = "/"
  Start = "/1551"
  Up <- MCUp
  Listing <- MCListing
  Tapes = {"t.tap"}
  Indexes = {"t.idx"}
  Lists = {"l.lst", "e.lst"}
  ListOf <- MCListOf
  Unreadable = {}
  AutoMount = {"b.g64"}
  Lines = 5
  MaxHistory = 2
INVARIANTS
  DiskAsShown
  CursorOnScreen
  ListAsMode
  NoRemount
VIEW Relevant
CONSTRAINT Shown

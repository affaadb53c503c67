CONSTANTS
  Proc = {"p1", "p2"}
  First = "p1"
  NFd = 3
  Dir = {"root", "d"}
  Root = "root"
  File = {"f"}
  InDev = {"tty"}
  OutDev = {}
  Missing = {"nofile"}
  OpenFlags <- Flags
  NoNode = "NULL"
  MaxOpen = 2
  MaxLost = 1
  Readers = {"r1", "r2"}
  STDIN_BUFSIZE = 2
  MaxLen = 3
  MaxKeys = 5
  Regular = {"f", "g"}
  NoFile = "none"
  Desc = {"d", "e"}
  Block = {1, 2, 3}
  BLKSIZE = 2
  NDIRECT = 1
  NENTRY = 3
  MAX_FILE_SIZE = 6
SPECIFICATION MCSpec
INVARIANTS
  FilesInv BlocksInv StdinInv
PROPERTIES
  ShortOnlyIfKilled AssertionsExplained
CHECK_DEADLOCK FALSE

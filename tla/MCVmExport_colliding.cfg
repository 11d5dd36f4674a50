SPECIFICATION FairSpec
CONSTANTS
  a = a
  b = b
  c = c
  None = None
  Empty = Empty
  Junk = Junk
  Earlier = Earlier
  NumVMs = 2
  Disks = {a, b, c}
  Remote <- CollidingRemote
  HardDrives <- CollidingDrives
  Twins = {}
  Files = {"a", "b"}
  BaseName <- CollidingBase
  Ovfs = {"a", "b"}
  OvfName <- OvfOf
  MaxSize = 2
  Size <- CollidingSize
  Vhdx = {a, c}
  SaveInfo = TRUE
INVARIANTS
  TypeOK
  OvfIsCommitMark
  CapacityOfOwnDisk
  QuietAfterJoin
PROPERTIES
  DisksReadAtRest
  ExportEnds

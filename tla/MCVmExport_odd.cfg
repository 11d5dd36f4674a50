SPECIFICATION FairSpec
CONSTANTS
  a = a
  b = b
  c = c
  None = None
  Empty = Empty
  Junk = Junk
  Earlier = Earlier
  NumVMs = 4
  Disks = {a, b, c}
  Remote <- OddRemote
  HardDrives <- OddDrives
  Twins = {3, 4}
  Files = {"a", "b", "c"}
  BaseName <- OddBase
  Ovfs = {"a", "c"}
  OvfName <- OddOvf
  MaxSize = 1
  Size <- OddSize
  Vhdx = {}
  SaveInfo = FALSE
PROPERTIES
  KeepsPromise
  ExportEnds

SPECIFICATION FairSpec
CONSTANTS
  VMs = {a, b}
  a = a
  b = b
  ida = ida
  idb = idb
  VMID <- IDs
  KnownID = ida
  None = None
  MaxRuns = 2
  Ticks = 2
INVARIANTS
  TypeOK
  MapsOfOneRun
  ReferencesResolve
  FreshRunHonest
  MigratesOnce
PROPERTIES
  RunEnds
  KeepsPromise

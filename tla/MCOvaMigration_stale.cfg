SPECIFICATION Spec
CONSTANTS
  VMs = {a, b}
  a = a
  b = b
  ida = ida
  idb = idb
  VMID <- IDs
  KnownID = unknown
  None = None
  MaxRuns = 2
  Ticks = 2
INVARIANTS
  DoneMeansMigrated

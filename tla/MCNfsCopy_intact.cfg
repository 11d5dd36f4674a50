SPECIFICATION Spec
CONSTANTS
  N = 5
  Wanted = {2, 3, 4, 5}
  Names = {"vm.json", "old.vhdx", "vm.ovf", "vm.vhdx"}
  Name <- DirName
  Size <- DirSize
  Shrinking = {}
  Chunk = 2
INVARIANTS
  CopiedIsIntact

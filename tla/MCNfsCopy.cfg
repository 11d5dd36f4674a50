SPECIFICATION FairSpec
CONSTANTS
  N = 5
  Wanted = {2, 3, 4, 5}
  Names = {"vm.json", "old.vhdx", "vm.ovf", "vm.vhdx"}
  Name <- DirName
  Size <- DirSize
  Shrinking = {4, 5}
  Chunk = 2
INVARIANTS
  TypeOK
  Truncated
  LengthTells
  FallbackKeepsSource
  LastWins
PROPERTIES
  WalkEnds
  KeepsPromise

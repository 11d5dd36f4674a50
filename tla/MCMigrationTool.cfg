SPECIFICATION Spec
CONSTANTS
  N = 2
  MaxRuns = 2
  Known = {1}
  None = None
INVARIANTS
  TypeOK
  Answers
  MigrationBehindCopy
  EndToEnd
PROPERTIES
  ShareStable
CONSTRAINT OneDamaged

SPECIFICATION Spec
CONSTANTS
  Word = 32
  Half = 8
  Value = 2
  Tables <- MCTables
  Metadata <- MCMetadata
INVARIANTS
  TypeOK
  RegionOfFirstCopy
  SizeInsideRegion
PROPERTIES
  SearchGivesUp

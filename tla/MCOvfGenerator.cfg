SPECIFICATION Spec
CONSTANTS
  None = None
  Null = Null
  Cut = Cut
  net = net
  amp = amp
  ampEscaped = ampEscaped
  Names <- MCNames
  Drives <- MCDrives
  Adapters <- MCAdapters
  Base <- MCBase
  OvfPath <- MCOvfPath
  Guests <- MCGuests
  Reported <- MCReported
  Paths <- MCPaths
  Filtered = TRUE
  Downloads <- MCDownloads
  Prefixed <- MCPrefixed
  Escaped <- MCEscaped
  Vhdx <- MCVhdx
INVARIANTS
  TypeOK
  OvfDescribesVM
  OsIdIsOwn
  IdsApart

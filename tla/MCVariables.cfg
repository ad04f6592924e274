CONSTANTS
  global = global
  shared = shared
  low = low
  high = high
  long = long
  period = period
  shift = shift
  velocity = velocity
  MaxChannels = 3
  Name <- MCName
  Value <- MCValue
  Reader <- MCReader
  NameOf <- MCNameOf
  Parses <- MCParses
  Reads <- MCReads
  Mapping <- MCMapping
  Unmapping <- MCUnmapping
  InitLayout <- MCInitLayout
  AddedDefs <- MCAddedDefs
  InitFile <- MCInitFile
SPECIFICATION VarSpec
INVARIANTS
  VarTypeOK
  ReadersShareValue
PROPERTY SavedSurvive

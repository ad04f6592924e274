CONSTANTS
  Program <- MCProgram
  Workers = 2
  PipeSize = 1
  MaxRun = 2
SPECIFICATION ProcSpec
INVARIANTS
  ProcTypeOK
  NothingRunsUnseen
  OutputExplained
PROPERTIES
  EndedReaped
  WritersServed
CHECK_DEADLOCK FALSE

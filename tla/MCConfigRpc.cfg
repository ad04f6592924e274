CONSTANTS
  UsizeMax = 3
  Value = {"a", "b"}
  Client = {"cli", "screen"}
  Commands <- MCCommands
  MaxCalls <- MCMaxCalls
SPECIFICATION Spec
INVARIANTS
  TypeOK
  ReadsStay
PROPERTIES
  CallsImplement
  RequestsServed
CHECK_DEADLOCK FALSE

CONSTANTS
  a = a
  b = b
  i0 = i0
  i1 = i1
  UsizeMax = 15
  NumCells = 2
  MaxLayers = 3
  MaxQueue = 2
  Input <- MCInput
  Bindings <- MCBindings
  Function <- MCFunction
  InitLayers <- MCInitLayers
  AddedLayers <- MCAddedLayers
SPECIFICATION CarefulSpec
INVARIANT KeyActsNormal

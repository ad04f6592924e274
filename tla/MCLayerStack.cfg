CONSTANTS
  a = a
  b = b
  k1 = k1
  k2 = k2
  k3 = k3
  UsizeMax = 15
  MaxLayers = 4
  MaxShifts = 3
  Layer <- MCLayer
  InitLayers <- MCInitLayers
  ShiftKeys <- MCShiftKeys
  InitTarget <- MCInitTarget
  TargetVars <- MCTargetVars
SPECIFICATION NestSpec
INVARIANTS
  NestTypeOK
  LayerInRange
  ShiftRecordsMatchHeld
PROPERTY NestedReleaseRestores

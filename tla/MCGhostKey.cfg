CONSTANTS
  flip = flip
  on = on
  stray = stray
  Chips = 2
  Configs <- MCConfigs
  Function <- MCFunction
  Def <- MCDef
SPECIFICATION Spec
INVARIANT PointIsItsKey

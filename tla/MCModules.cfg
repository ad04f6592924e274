CONSTANTS
  dmod = dmod
  fmod = fmod
  gone = gone
  d1 = d1
  d2 = d2
  f1 = f1
  f2 = f2
  lost = lost
  Module = {dmod, fmod}
  Driver = {d1, d2}
  Func = {f1, f2, lost}
  ModuleOf <- MCModuleOf
  Input <- MCInput
  States <- MCStates
  BaseLayer = {f1}
  AddedLayers <- MCAddedLayers
  MaxLayers = 2
  MaxLoads = 2
SPECIFICATION Spec
INVARIANTS
  TypeOK
  OwnInstance
  FunctionsTold
PROPERTY LoopGoesOn

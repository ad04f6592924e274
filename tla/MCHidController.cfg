CONSTANTS
  shift = shift
  left = left
  power = power
  m1 = m1
  none = none
  k1 = k1
  k2 = k2
  k3 = k3
  k4 = k4
  k5 = k5
  k6 = k6
  k7 = k7
  k8 = k8
  k9 = k9
  MaxQueue = 2
  MaxDown = 2
  MaxMissed = 1
  NoModule = none
  Item <- MCItem
  DeviceOf <- MCDeviceOf
  Mapped <- MCMapped
  Module <- MCModule
  Function <- MCFunction
  Def <- MCDef
  ModeLists <- MCModeLists
SPECIFICATION CarefulSpec
INVARIANTS
  TypeOK
  HeldIsDown
  ReportCurrent

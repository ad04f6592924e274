CONSTANTS
  Width = 3
  Height = 2
  MaxLayers = 2
  Files <- MCFiles
  Shapes <- MCShapes
SPECIFICATION GridSpec
INVARIANTS
  GridTypeOK
  EachHasItsCells
  PollsWhatIsBound
  GridSurvives

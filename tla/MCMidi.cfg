CONSTANTS
  c1 = c1
  c2 = c2
  note1 = note1
  note2 = note2
  const1 = const1
  const2 = const2
  pitch = pitch
  instrument = instrument
  NoBend = NoBend
  Channel = {c1, c2}
  Function <- MCFunction
  Layouts <- MCLayouts
  Kind <- MCKind
  Params <- MCParams
  Given = {0, 8191, 8192, 65535}
SPECIFICATION CarefulSpec
INVARIANTS
  TypeOK
  NotesEnd
  LastBendEnds
PROPERTY BendFollows

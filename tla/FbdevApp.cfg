SPECIFICATION Spec
CONSTANTS
  Devices <- MCDevices
  MaxInput = 3
  ReadSize = 2
INVARIANTS
  TypeOK
  TtyRestored
  ModeLeftBehindOnlyIf
  FrameFits
PROPERTIES
  QuitKeyEnds

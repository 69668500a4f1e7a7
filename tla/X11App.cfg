SPECIFICATION Spec
CONSTANTS
  MaxEvents = 3
  MaxFrames = 2
INVARIANTS
  TypeOK
  NoTearing
  OneFrameAfterUnmap
  XErrorsOnlyEarly
  SegmentReleased
PROPERTIES
  QuitEventEnds
  SigintEnds

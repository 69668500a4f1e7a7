SPECIFICATION Spec
CONSTANTS
  Resolutions = {0, 100, 120}
  TickWrap = 8
  SleepTicks = 3
INVARIANTS
  TypeOK
  OneEoiPerInterrupt
  BiosTickOnTime
  HooksUndone
PROPERTIES
  NeverWakesEarly
  SleepEnds

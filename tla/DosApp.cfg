SPECIFICATION AppSpec
CONSTANTS
  lfb24 = lfb24
  banked32 = banked32
  lfb15 = lfb15
  banked16 = banked16
  large = large
  NoMode = NoMode
  Modes <- MCModes
  HasLfb <- MCHasLfb
  Size <- MCSize
  ImagePages <- MCImagePages
  WinGran <- MCWinGran
  LfbAddr <- MCLfbAddr
  FbLen <- MCFbLen
  Machines <- MCMachines
  MaxLen <- MCMaxLen
  Spans <- MCSpans
  Geometry <- MCGeometry
  Depth <- MCDepth
  BiosModes <- MCBiosModes
  FirstMax = 1
  Asks <- MCAsks
  MaxTicks = 2
  MaxFrames = 2
INVARIANTS
  NothingLeftBehind
  LinesWhereMeant
  ModeAskedFor
CHECK_DEADLOCK FALSE

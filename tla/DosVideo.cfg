SPECIFICATION Spec
CONSTANTS
  lfb1 = lfb1
  lfb2 = lfb2
  banked64 = banked64
  banked16 = banked16
  NoMode = NoMode
  Modes <- MCModes
  HasLfb <- MCHasLfb
  Size <- MCSize
  ImagePages <- MCImagePages
  WinGran <- MCWinGran
  LfbAddr <- MCLfbAddr
  FbLen <- MCFbLen
  Machines <- MCMachines
  MaxLen <- MCMaxLen
  Spans <- MCSpans
INVARIANTS
  TypeOK
  MappingOwned
  BlitInBounds
  FrontIsShown
  BankedAddressing
  MtrrsSpentWell

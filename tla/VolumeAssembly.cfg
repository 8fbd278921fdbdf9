SPECIFICATION Spec
CONSTANTS
  SignBit = 32
  SectorSize = 1
  InitialWindow = 8
  MediaLength = 10
  ExtentBytes = 2
  PVExtents = {0, 1, 3}
  MaxSegments = 3
  Windows <- MCWindows
  Volumes <- MCVolumes
INVARIANTS
  TypeOK
  NoForeignByte
  NothingOutsideWindow
  SegmentsFitBlock
  JunkOnlyFromShortReads
  CrashOnlyOnForeignVolume
PROPERTY ImplementsVolumeImage

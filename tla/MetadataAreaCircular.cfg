SPECIFICATION Spec
CONSTANTS
  SignBit = 20
  SectorSize = 1
  InitialWindow = 5
  MediaLength = 15
  HeaderLength = 2
  MaxLocations = 3
  Windows <- MCWindows
  PhysicalVolumes <- MCPhysicalVolumes
INVARIANT TextInsideArea

SPECIFICATION Spec
CONSTANTS
  SignBit = 128
  SectorSize = 1
  InitialWindow = 8
  MediaLength = 72
  HeaderSize = 1
  EntrySize = 1
  HeaderLength = 1
  MaxLocations = 3
  Headers <- MCHeaders
  Contents <- MCContents
  Volumes <- MCVolumes
  Described <- MCDescribed
INVARIANTS
  TypeOK
  FileFromLVMPartition
  FileIsVolume
PROPERTY ProgramEnds

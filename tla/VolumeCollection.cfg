SPECIFICATION Spec
CONSTANTS
  SectorSize = 4
  Documents <- MCDocuments
  Labels = {"lv", "other"}
INVARIANTS
  TypeOK
  SegmentsAsWritten
  PhysicalVolumeAsWritten
  WritesStayInArrays
  VolumeCollected
PROPERTY CollectionEnds

SPECIFICATION Spec
CONSTANTS
  SignBit = 32
  SectorSize = 2
  InitialWindow = 8
  MediaLength = 21
  HeaderSize = 2
  EntrySize = 1
  MaxEntries = 3
  Headers <- MCHeaders
INVARIANTS
  TypeOK
  SelectionIsLVM
  SelectionFromWholeTable
  SoleSelected
  NoSelectionNoPartition
PROPERTY SearchTerminates

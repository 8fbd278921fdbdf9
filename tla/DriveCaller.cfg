SPECIFICATION Spec
CONSTANTS
  SignBit = 4
  SectorSize = 2
  InitialWindow = 3
  MediaLength = 4
INVARIANTS
  TypeOK
  DescriptorBalance
PROPERTY ReadsStayInWindow

SPECIFICATION Spec
CONSTANTS
  SectorSize = 4
  Documents <- MCTagged
  Labels = {"lv", "other"}
INVARIANT ListsTolerated

SPECIFICATION Spec
CONSTANTS
  Documents <- MCDocuments
  Paths <- MCPaths
  Codes <- MCCodes
INVARIANTS
  TypeOK
  CallsFollowSequence
  PathResolved
  ConstantsAreHashes

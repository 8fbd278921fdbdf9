SPECIFICATION Spec
CONSTANTS
  Texts <- MCTexts
  Written <- MCWritten
  MaxFailures = 1
  MaxChars = 3
INVARIANTS
  TypeOK
  NodesFormTree
  ParsedAsWritten
  CutTextGivesPrefix
PROPERTY ParsingEnds

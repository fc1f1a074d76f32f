SPECIFICATION Spec
CONSTANTS
  Base = 6
  LenBytes = 2
  Packages <- MCPackages
  Undecodable <- MCShortData
  ReadSize = 5
  MaxSent = 3
  MaxConns = 2
INVARIANT TypeExpected
CHECK_DEADLOCK FALSE

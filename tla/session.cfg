SPECIFICATION SessionSpec
CONSTANTS
  Base = 64
  LenBytes = 2
  Packages <- MCPackages
  Undecodable <- MCNone
  ReadSize = 5
  MaxSent = 3
  MaxConns = 2
  Dict <- MCDict
  Deflated <- MCDeflated
  DisableCompression = FALSE
  Asks <- MCAsks
  Messages <- MCMessages
  MaxAsked = 2
INVARIANTS SessionTypeOK RequestsUnderstood AnswersMatch FramesMatch NothingWithheld FreshParser
CHECK_DEADLOCK FALSE

SPECIFICATION Spec
CONSTANTS
  BUFFER_WINDOW = 4
  Texts <- Commented
INVARIANTS
  MalformedIsInTheFile

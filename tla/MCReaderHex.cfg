SPECIFICATION Spec
CONSTANTS
  BUFFER_WINDOW = 8
  Texts <- HexStrings
INVARIANTS
  HexAbove7fIsMalformed

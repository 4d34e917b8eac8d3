SPECIFICATION FairRunSpec
CONSTANTS
  BUFFER_WINDOW = 5
  Texts <- MCTexts
  F64 <- MCF64
  Name <- MCName
  Num <- MCNum
  Text <- MCText
  NumNeg <- MCNeg
  NumAdd <- MCAdd
  NumSub <- MCSub
  NumMul <- MCMul
  NumDiv <- MCDiv
  NumEq <- MCNumEq
  Cat <- MCCat
  Expr <- MCExpr
INVARIANTS
  RunTypeOK
  TextsArePrograms
PROPERTIES
  ImplementsMiniML
  FilesEnd

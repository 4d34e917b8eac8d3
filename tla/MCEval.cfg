SPECIFICATION FairSpec
CONSTANTS
  Name <- MCName
  Num <- MCNum
  Text <- MCText
  NumNeg <- MCNeg
  NumAdd <- MCAdd
  NumSub <- MCSub
  NumMul <- MCMul
  NumDiv <- MCDiv
  NumEq <- MCNumEq
  Cat <- MCCat
  Expr <- MCExpr
  Programs <- MCPrograms
  Maker <- MCMaker
INVARIANTS
  TypeOK
  ErrorsAreGlobal
  TailCallsKeepStackFlat
PROPERTIES
  MadeFunctionsTiedUnseen
  ImplementsMiniML
  HaltingProgramsFinish

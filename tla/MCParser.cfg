SPECIFICATION FairSpec
CONSTANTS
  F64 <- MCF64
  Inputs <- MCInputs
INVARIANTS
  TypeOK
  SentencesParse
  ErrorsOnlyLeftmost
  SilentOnlyBeforeEq
  PrintedReadsBack
PROPERTIES
  DeliveredIsWritten
  EveryTurnAdvances

SPECIFICATION Spec
CONSTANTS
  F64 <- MCF64
  Inputs <- MCShort
INVARIANT InvalidExpressionsAreRejected

SPECIFICATION Spec
CONSTANTS
  Calls <- MCCalls
  Bits <- MCBits
  NULL = NULL
INVARIANTS
  ValueReadsBack
  ColumnsAlign

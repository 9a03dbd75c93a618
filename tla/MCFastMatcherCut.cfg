\* Two files on two threads, one of them cut off behind a comma.
CONSTANTS
  Files = 2
  nproc = 2
  MaxAddr = 5
  FuncsAt <- MCFuncsAt
  SmatchFuncs <- MCSmatchFuncs
  Input <- FewInputs
SPECIFICATION Spec
INVARIANTS PartlyWrittenCounted

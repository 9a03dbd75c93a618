\* Three files, each complete, cut off at its end by a timeout, or without a return to the traced code, on two threads.
CONSTANTS
  Files = 3
  nproc = 2
  MaxAddr = 5
  FuncsAt <- MCFuncsAt
  SmatchFuncs <- MCSmatchFuncs
  Input <- MCInput
SPECIFICATION Spec
INVARIANTS TypeOK EachFileOnce Survivors JoinedAtToken
PROPERTIES Reports ImplementsSequential

\* Four workdirs on two pipes, no faults: a job that was done long ago frees the
\* pipe that a running fuzzer uses.
CONSTANTS
  N = 4
  Pipes = 2
  Faults = FALSE
  ParslWaits = TRUE
  MaxRuns = 1
SPECIFICATION Spec
INVARIANTS PipesExclusive

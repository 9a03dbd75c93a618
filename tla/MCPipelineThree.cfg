\* One run with more workdirs than pipes: the scheduling loop has to free pipes.
\* Smatch jobs wait for their trace job inside the pool.
CONSTANTS
  N = 3
  Pipes = 2
  Faults = TRUE
  ParslWaits = FALSE
  MaxRuns = 1
SPECIFICATION Spec
INVARIANTS TypeOK StageBarrier NoDeadlock PipesExclusive
PROPERTIES Terminates

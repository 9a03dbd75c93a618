\* One workdir and a second run: a run that was killed before kAFL created its
\* corpus leaves a workdir on which fuzz.sh run fails.
CONSTANTS
  N = 1
  Pipes = 1
  Faults = FALSE
  ParslWaits = TRUE
  MaxRuns = 2
SPECIFICATION Spec
INVARIANTS NeverAborts

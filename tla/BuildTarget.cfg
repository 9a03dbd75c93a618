\* Three build jobs of one harness fill the same target directory, interrupted
\* anywhere and started again twice.  There is one file more than there are jobs,
\* so that the bound on files with gaps can fail.
CONSTANTS
  Builders = 3
  Files = 4
  MaxRuns = 3
SPECIFICATION Spec
INVARIANTS TypeOK FilledAtBarrier OneRunsFiles

\* A campaign of two workdirs on two pipes, run, interrupted anywhere and run
\* again, in which every program a job executes may fail: what is on disk, and the
\* refinement of the staged campaign.
CONSTANTS
  N = 2
  Pipes = 2
  Faults = TRUE
  ParslWaits = TRUE
  MaxRuns = 2
SPECIFICATION Spec
INVARIANTS DoneMeansCovered
PROPERTIES FuzzOutputKept ImplementsCampaign

\* A workdir that is traced and matched, with interruptions, one that only has a report,
\* and two calls of smatcher.
CONSTANTS
  Workdir <- MCWorkdir
  Addr <- MCAddr
  Endpoint <- MCEndpoint
  Line <- MCLine
  LinesAt <- MCLinesAt
  WarnsOf <- MCWarnsOf
  DefaultWarns <- MCDefaultWarns
  Reach <- MCReach
  Modes <- MCModes
  Call = {c1, c2}
  MaxCalls = 2
  Options <- MCOptions
  AnnotatedOf <- MCAnnotatedOf
  GivenReport <- MCGivenReport
SPECIFICATION Spec
INVARIANTS TypeOK DbJustified NothingLost 
SYMMETRY MCSymmetry
CHECK_DEADLOCK FALSE

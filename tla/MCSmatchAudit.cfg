\* Two audits of kernels with reports of three results, killed anywhere, between and inside the copies as well.
CONSTANTS
  Reports <- MCReports
  Annotated <- MCAnnotated
  MaxAudits = 2
SPECIFICATION Spec
INVARIANTS TypeOK NothingMissed OnlyInScope VerdictsVouch VerdictFounded VerdictKept
CHECK_DEADLOCK FALSE

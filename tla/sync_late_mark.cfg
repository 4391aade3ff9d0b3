SPECIFICATION Spec
CONSTANTS
  Household = {h1}
  Client = {c1, c2}
  None = None
  MaxJobs = 1
  MaxRestarts = 1
  WritesFail = FALSE
INVARIANTS
  FailedMeansInterrupted

SPECIFICATION FairSpec
CONSTANTS
  Household = {h1}
  Client = {c1, c2}
  None = None
  MaxJobs = 2
  MaxRestarts = 1
  WritesFail = FALSE
PROPERTIES
  InterruptedJobSettles

SPECIFICATION FairSpec
CONSTANTS
  Household = {h1}
  Client = {c1, c2}
  None = None
  MaxJobs = 2
  MaxRestarts = 1
  WritesFail = TRUE
INVARIANTS
  TypeOK
  OneRetrieval
PROPERTIES
  ImplementsRetrieval
  RequestsAnswered

SPECIFICATION Spec
CONSTANTS
  x1 = x1
  b1 = b1
  b2 = b2
  c1 = c1
  archive = archive
  checking = checking
  savings = savings
  shop = shop
  food = food
  note = note
  comment = comment
  Posting = {x1, b1, b2, c1}
  Bank = {b1, b2, c1}
  Statutory = {}
  Account = {archive, checking, savings}
  Home <- MCHome
  SameBook <- MCNamesakes
  Day <- MCDay
  Text <- MCText
  Reported <- MCFixed
  Guess <- MCGuess
  Category = {food}
  Uncategorised = Uncategorised
  Mark = {comment}
  Note = {comment}
  Written <- MCWritten
  Redated <- MCRedated
  None = None
  CommitEvery = 2
  MaxEdits = 1
INVARIANTS
  TypeOK
  SumsMatch
PROPERTIES
  RemovedLivesOn
  BankPostingsStay
  ResolveRespectsDismissal

SPECIFICATION Spec
CONSTANTS
  x1 = x1
  b1 = b1
  b2 = b2
  c1 = c1
  archive = archive
  checking = checking
  savings = savings
  shop = shop
  food = food
  note = note
  comment = comment
  Posting = {x1, b1}
  Bank = {b1}
  Statutory = {}
  Account = {archive, checking}
  Home <- MCHome
  SameBook <- MCNamesakes
  Day <- MCDay
  Text <- MCText
  Reported <- MCCorrected
  Guess <- MCGuess
  Category = {food}
  Uncategorised = Uncategorised
  Mark = {note, comment}
  Note = {note, comment}
  Written <- MCWritten
  Redated <- MCRedated
  None = None
  CommitEvery = 2
  MaxEdits = 1
INVARIANTS
  SumsMatch

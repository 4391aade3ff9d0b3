SPECIFICATION Spec
CONSTANTS
  x1 = x1
  b1 = b1
  b2 = b2
  c1 = c1
  archive = archive
  checking = checking
  savings = savings
  shop = shop
  food = food
  note = note
  comment = comment
  Posting = {b1, b2}
  Bank = {b1, b2}
  Statutory = {}
  Account = {checking, savings}
  Home <- MCApart
  SameBook = {}
  Day <- MCDay
  Text <- MCText
  Reported <- MCFixed
  Guess <- MCGuess
  Category = {food}
  Uncategorised = Uncategorised
  Mark = {note, comment}
  Note = {note, comment}
  Written <- MCWritten
  Redated <- MCRedated
  None = None
  CommitEvery = 2
  MaxEdits = 1
PROPERTIES
  DismissedStayApart

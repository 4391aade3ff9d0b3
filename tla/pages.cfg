CONSTANTS
    Page = {"views", "form", "list", "budget", "bank", "notices"}
    MaxChanges = 2
    MaxLost = 1
    Amount = 2
    MaxRows = 2
    MaxTyping = 3
    MaxClicks = 3
    Month = {1, 2}
    December = 2
    MaxPresses = 4
    MaxSteps = 5
    MaxGlances = 4
SPECIFICATION PagesSpec
CHECK_DEADLOCK FALSE
INVARIANTS ViewsTypeOK OwnWriteShows StaleIsRefetched FormTypeOK SplitsAddUp ListTypeOK ResultsOfFilter AmountAgrees LastPickStays BudgetTypeOK BankTypeOK CodeSentOnce ReadStaysRead OneRuleEach GoneIsGone
PROPERTIES PolledCatchesUp OthersNoteStays SavedWhenClosed DraftKept BudgetSavedWhenClosed TellsOwnSync EndIsTold

CONSTANTS
    Page = {"form"}
    MaxChanges = 0
    MaxLost = 0
    Amount = 2
    MaxRows = 2
    MaxTyping = 2
    MaxClicks = 0
    Month = {1}
    December = 1
    MaxPresses = 0
    MaxSteps = 0
    MaxGlances = 0
SPECIFICATION PagesSpec
CHECK_DEADLOCK FALSE
PROPERTIES NoteFollowsSplit

CONSTANTS
    h1 = h1
    h2 = h2
    Household = {h1, h2}
    NoHousehold = NoHousehold
    Idle = Idle
    NoList = NoList
    Rank <- MCRank
    MaxActs = 2
SPECIFICATION SessionSpec
CHECK_DEADLOCK FALSE
INVARIANTS SessionTypeOK NoLeak
PROPERTIES NeverThrownOut SelectedIsShown

SPECIFICATION FairSpec
CONSTANTS
    old = old
    new = new
    User = {old, new}
    Known = {old}
    NoOne = NoOne
    NoView = NoView
    NoDoc = NoDoc
    Nothing = Nothing
    Window = 1
    MaxViews = 4
    MaxLogins = 3
    MaxRegisters = 1
    MaxFails = 1
    MaxRestarts = 1
INVARIANTS TypeOK TabsFollow AccountDocumented LoginExplained
PROPERTIES TabsArrive RegistrationEnds
CHECK_DEADLOCK FALSE

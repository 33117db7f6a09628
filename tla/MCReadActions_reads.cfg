SPECIFICATION Spec
CONSTANTS
    Worlds <- MCWorlds
    Contacts <- MCContacts
    Person <- MCPerson
    ShortCodes <- MCShortCodes
    ScanLimit = 2
    MaxContext = 2
    MaxSkip = 1
INVARIANTS
    WaitingIsShown
    BodiesUnderPolicy
    HiddenContactsUnresolved
    LimitKeepsTheNewest
    SamplesAreReplies
    ListIsHonest

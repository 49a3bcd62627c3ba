\* Three editions of the menu and four starts of the venue.
CONSTANTS
    soup = soup
    tea = tea
    Items = {soup, tea}
    Absent = Absent
    NoMenu = NoMenu
    MaxVersion = 3
    MaxStarts = 4
    Listed <- MCListed
SPECIFICATION Spec
INVARIANTS
    TypeOK
    ServingIsPublished
CHECK_DEADLOCK FALSE

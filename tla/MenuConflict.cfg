\* A restart after a sale publishes another menu under the same version.
CONSTANTS
    soup = soup
    tea = tea
    Items = {soup, tea}
    Absent = Absent
    NoMenu = NoMenu
    MaxVersion = 3
    MaxStarts = 4
    Listed <- MCListed
SPECIFICATION Spec
INVARIANT VersionNamesOneMenu
CHECK_DEADLOCK FALSE

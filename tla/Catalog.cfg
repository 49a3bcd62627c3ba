\* Five checkouts under two keys, four publications and one
\* reader.  Amounts reach MaxAmount (7) and pass it.
CONSTANTS
    soup = soup
    tea = tea
    first = first
    again = again
    other = other
    large = large
    small = small
    Items = {soup, tea}
    Absent = Absent
    Snapshots <- MCSnapshots
    NoMenu = NoMenu
    Requests = {first, again, other, large, small}
    Key <- MCKey
    Version <- MCVersion
    Cart <- MCCart
    Minimum = 3
    MaxAmount = 7
    Readers = {q1}
SPECIFICATION Spec
INVARIANTS
    TypeOK
    MenuReadWhole
    OrderPricedByVersion
    AmountExact
    RetriesAgree
PROPERTY
    VersionsGrow
CHECK_DEADLOCK FALSE

\* Two orders that compete for the stock of one item, two callback workers.
CONSTANTS
    o1 = o1
    o2 = o2
    soup = soup
    bread = bread
    Orders = {o1, o2}
    Items = {soup, bread}
    Quantity <- MCQuantity
    Supply <- MCSupply
    Unlimited = Unlimited
    Senders = {s1, s2}
    NoSender = NoSender
SYMMETRY Symmetry
SPECIFICATION Spec
INVARIANTS
    TypeOK
    StockConserved
    LogTellsStatus
    DeliveredInOrder
PROPERTY
    DecisionsStable
CHECK_DEADLOCK FALSE

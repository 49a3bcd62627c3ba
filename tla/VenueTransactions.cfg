\* Three decisions (two of one order), a cancellation, a transition and two
\* lists on a pool of two connections.
CONSTANTS
    o1 = o1
    o2 = o2
    first = first
    again = again
    other = other
    cancel = cancel
    prepare = prepare
    list1 = list1
    list2 = list2
    Orders = {o1, o2}
    Items = {1, 2}
    Quantity <- MCQuantity
    Supply <- MCSupply
    Unlimited = Unlimited
    Requests = {first, again, other, cancel, prepare, list1, list2}
    Op <- MCOp
    Target <- MCTarget
    MaxConns = 2
SPECIFICATION FairSpec
INVARIANTS
    TypeOK
    AnswersAgree
    DecisionsNeverDeadlock
    OnlyKnownStalls
PROPERTIES
    ImplementsVenueOrders
    AcceptedWhileOpen
    RequestsEnd
CHECK_DEADLOCK FALSE

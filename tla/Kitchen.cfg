CONSTANTS
    Orders = {o1}
    Workers = {w1, w2}
    NoWorker = NoWorker
    MaxAttempts = 2
    MaxCancels = 2
    Items = {soup}
    Quantity <- MCQuantity
    Supply <- MCSupply
    Unlimited = Unlimited
    Senders = {s1}
    NoSender = NoSender
SYMMETRY Symmetry
SPECIFICATION Spec
INVARIANTS
    TypeOK
    PlatformTellsTruth
    WithdrawnNeverSent
    AgreeWhenDelivered
    NoEventLost
    OnlyExpiredRefuses
PROPERTY
    ImplementsLifecycle
CHECK_DEADLOCK FALSE

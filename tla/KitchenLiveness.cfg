\* One order, one worker on each side: what the venue reports arrives.  No
\* symmetry, as TLC needs for liveness.
CONSTANTS
    Orders = {o1}
    Workers = {w1}
    NoWorker = NoWorker
    MaxAttempts = 2
    MaxCancels = 1
    Items = {soup}
    Quantity <- MCQuantity
    Supply <- MCSupply
    Unlimited = Unlimited
    Senders = {s1}
    NoSender = NoSender
SPECIFICATION FairSpec
PROPERTIES
    EventsDelivered
    CancellationsReported
CHECK_DEADLOCK FALSE

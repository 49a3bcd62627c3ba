\* A cancellation goes from failed to confirmed.
CONSTANTS
    Orders = {o1}
    Workers = {w1}
    NoWorker = NoWorker
    MaxAttempts = 2
    MaxCancels = 1
    Items = {soup}
    Quantity <- MCQuantity
    Supply <- MCSupply
    Unlimited = Unlimited
    Senders = {s1}
    NoSender = NoSender
SPECIFICATION Spec
PROPERTY CancellationTable
CHECK_DEADLOCK FALSE

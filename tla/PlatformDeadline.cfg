\* Far from its deadline and with an attempt left, an order expires.
CONSTANTS
    Orders = {o1}
    Workers = {w1}
    NoWorker = NoWorker
    MaxAttempts = 2
    MaxCancels = 1
    EventIds = {e1}
    MaxSequence = 1
SPECIFICATION FarSpec
INVARIANT ExpiredAtDeadlineOrLimit
CHECK_DEADLOCK FALSE

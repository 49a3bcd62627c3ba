\* One order, two workers that race for its jobs, two cancellation commands
\* and four events of the venue: safety.
CONSTANTS
    Orders = {o1}
    Workers = {w1, w2}
    NoWorker = NoWorker
    MaxAttempts = 2
    MaxCancels = 2
    EventIds = {e1, e2, e3}
    MaxSequence = 3
SYMMETRY Symmetry
SPECIFICATION Spec
INVARIANTS
    TypeOK
    JobsMatchOrders
    CancelledIffConfirmed
    HistoryMatchesStatus
    EventsGapless
    WithdrawnNeverDispatched
PROPERTY
    FinalOutcomesStick
CHECK_DEADLOCK FALSE

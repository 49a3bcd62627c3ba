\* Two orders that share the workers and the ids of events: no statement for
\* one order touches the rows of the other.
CONSTANTS
    Orders = {o1, o2}
    Workers = {w1, w2}
    NoWorker = NoWorker
    MaxAttempts = 2
    MaxCancels = 1
    EventIds = {e1, e2}
    MaxSequence = 2
SYMMETRY Symmetry
SPECIFICATION Spec
INVARIANTS
    JobsMatchOrders
    EventsGapless
CHECK_DEADLOCK FALSE

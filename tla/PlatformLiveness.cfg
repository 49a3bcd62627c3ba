\* One order and two workers: every wait ends.  No symmetry, as TLC needs for
\* liveness.
CONSTANTS
    Orders = {o1}
    Workers = {w1, w2}
    NoWorker = NoWorker
    MaxAttempts = 2
    MaxCancels = 2
    EventIds = {e1}
    MaxSequence = 1
SPECIFICATION FairSpec
PROPERTIES
    ConfirmationDecided
    CancellationSettled
CHECK_DEADLOCK FALSE

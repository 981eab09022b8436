SPECIFICATION Spec
CONSTANTS
    Steers = {s1, s2}
    FollowUps = {f1}
    MaxPending = 2
    MaxTurns = 3
    MaxRuns = 1
    MaxCancels = 2
INVARIANT QueueDiscipline
INVARIANT DeliveryOrder
INVARIANT ReceiptsCovered
PROPERTY ReceiptsSettle
CHECK_DEADLOCK FALSE

SPECIFICATION Spec
CONSTANTS
    r1 = r1
    r2 = r2
    Requests = {r1, r2}
    Timed = {r1}
    Direct = {r2}
    Answers <- MCAnswers
    MaxFailures = 1
    MaxStops = 1
    Faults = {"lost", "torn", "unsynced"}
INVARIANT GrantSound
INVARIANT PendingIsAttended
PROPERTY WaitResolved
CHECK_DEADLOCK FALSE

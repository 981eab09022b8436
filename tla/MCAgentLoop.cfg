SPECIFICATION Spec
CONSTANTS
    MaxRuns = 1
    MaxTurns = 2
    MaxRetries = 1
    MaxCalls = 2
    MaxInputs = 2
    MaxCancels = 2
INVARIANT TranscriptSound
INVARIANT EndSound
PROPERTY AbortTakesEffect
CHECK_DEADLOCK FALSE

SPECIFICATION Spec
CONSTANTS
    Chunks = 2
    PipeRoom = 1
    MaxRuns = 2
INVARIANTS EventsFollowProcess StatusIsTrue ClosedMeansDrained NobodyLeftBehind
PROPERTIES EndIsNoticed KillReturns
CHECK_DEADLOCK FALSE

SPECIFICATION AttemptsSpec
CONSTANTS
    i1 = i1
    i2 = i2
    NoRun = NoRun
    Runs = {r1, r2, r3}
    Texts <- MCTexts
    Histories = {}
    Calls = {}
    MaxCheckpoints = 8
    MaxAnswers = 1
    RecordedRuns = {}
    Inputs <- MCInputs
    Initial <- MCInitial
    Wakes = {}
SYMMETRY RunsAlike
INVARIANTS OverlappingRetryIsNotRefused
CHECK_DEADLOCK FALSE

SPECIFICATION AttemptsSpec
CONSTANTS
    i1 = i1
    i2 = i2
    NoRun = NoRun
    Runs = {r1, r2}
    Texts <- MCTexts
    Histories = {}
    Calls = {}
    MaxCheckpoints = 10
    MaxAnswers = 1
    RecordedRuns = {}
    Inputs <- MCInputs
    Initial <- MCInitial
    Wakes <- OneWake
SYMMETRY RunsAlike
INVARIANTS RetryIsNotRefused AttemptsAgree EngineAtHead WaitingMessagesAreRead
CHECK_DEADLOCK FALSE

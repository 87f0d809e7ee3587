SPECIFICATION Spec
CONSTANTS
    c1 = c1
    c2 = c2
    NoRun = NoRun
    Runs = {r1, r2}
    Texts <- OneText
    Histories <- TwoHistories
    Calls <- TwoCalls
    MaxCheckpoints = 4
    MaxAnswers = 1
    RecordedRuns = {r1}
SYMMETRY CallsAlike
INVARIANTS OneOwner OwnerAtHead CallsEndWithTheirRun LineageIsDigest NoMessageTwice RoundMatchesHistory
PROPERTIES OutcomeIsFinal StaleRunWritesNothing
CHECK_DEADLOCK FALSE

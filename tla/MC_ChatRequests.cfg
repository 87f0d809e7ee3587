SPECIFICATION FairSpec
CONSTANTS
    r1 = r1
    r2 = r2
    near = near
    far = far
    gone = gone
    bad = bad
    NoTarget = NoTarget
    Requests <- Pair
    Targets = {near, far, gone, bad}
    Slot <- PairSlot
    Broken = {gone}
    Unsendable = {bad}
    WithImages = {r2}
    Places = 1
    RetryLimit = 1
    Optional <- OneOptional
INVARIANT PlacesMatchConnections
INVARIANT BooksAreTruthful
PROPERTY PlacesAreFair
PROPERTY RequestsEnd
PROPERTY PlacesComeBack
CHECK_DEADLOCK FALSE

\* Two workers whose work in hand never outlasts the claim timeout; a crash or a
\* raised step; and one retry, one edit of the registry or one reader at a time.
SPECIFICATION HistorySpec
CONSTANTS
    Documents = {d1}
    MaxPages = 2
    Engines = {1, 2}
    ActiveSets = {{1}}
    Workers = {w1, w2}
    BatchSize = 1
    SlowSteps = FALSE
    MaxFaults = 1
    Requests = {r1}
    Listings <- MCListings
    MaxReprices = 1
SYMMETRY Symmetric
CONSTRAINT OneVisitor
INVARIANTS
    HistoryTypeOK
    HeldOnce
    SummaryAddsUp
    ShownOutcomeBacked
    StoppedScreenIsFinal
PROPERTIES
    RunningPageNotReset
    RequestedEngineUsed
    PagesClaimed
    DocumentsClaimed

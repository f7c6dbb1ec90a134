\* A page whose claim is released under a slow step is run twice at once.
SPECIFICATION HistorySpec
CONSTANTS
    Documents = {d1}
    MaxPages = 1
    Engines = {1}
    ActiveSets = {{1}}
    Workers = {w1, w2}
    BatchSize = 1
    SlowSteps = TRUE
    MaxFaults = 0
    Requests = {}
    Listings = {}
    MaxReprices = 0
SYMMETRY Symmetric
INVARIANTS
    StatusFollowsNewest

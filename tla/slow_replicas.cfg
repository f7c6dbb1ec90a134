\* Two workers whose claims may go stale under their feet: a document may be
\* converted twice, and a page run twice at once.
SPECIFICATION Spec
CONSTANTS
    Documents = {d1}
    MaxPages = 2
    Engines = {1}
    ActiveSets = {{1}}
    Workers = {w1, w2}
    BatchSize = 1
    SlowSteps = TRUE
    MaxFaults = 0
    Requests = {}
SYMMETRY Symmetric
INVARIANTS
    InductiveInvariant
    AttemptsNumbered
    PagesMatchCount
    OutcomesOnRecord
PROPERTIES
    AppendsOnly

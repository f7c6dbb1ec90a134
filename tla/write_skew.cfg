\* Two pages of a document finish at once.
SPECIFICATION Spec
CONSTANTS
    Documents = {d1}
    MaxPages = 2
    Engines = {1}
    ActiveSets = {{1}}
    Workers = {w1, w2}
    BatchSize = 1
    SlowSteps = FALSE
    MaxFaults = 0
    Requests = {}
SYMMETRY Symmetric
INVARIANTS
    QuietStatusDerived

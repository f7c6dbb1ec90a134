\* A batch takes longer than the claim timeout.
SPECIFICATION Spec
CONSTANTS
    Documents = {d1}
    MaxPages = 2
    Engines = {1}
    ActiveSets = {{1}}
    Workers = {w1, w2}
    BatchSize = 1
    SlowSteps = TRUE
    MaxFaults = 1
    Requests = {}
SYMMETRY Symmetric
INVARIANTS
    HeldOnce

\* A conversion that was given up fails after another one succeeded.
SPECIFICATION Spec
CONSTANTS
    Documents = {d1}
    MaxPages = 1
    Engines = {1}
    ActiveSets = {{1}}
    Workers = {w1, w2}
    BatchSize = 2
    SlowSteps = TRUE
    MaxFaults = 1
    Requests = {}
SYMMETRY Symmetric
INVARIANTS
    FailedMeansFailed

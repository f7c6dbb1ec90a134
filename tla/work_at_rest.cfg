\* A retry meets the last page of the document.
SPECIFICATION Spec
CONSTANTS
    Documents = {d1}
    MaxPages = 1
    Engines = {1}
    ActiveSets = {{1}}
    Workers = {w1}
    BatchSize = 2
    SlowSteps = FALSE
    MaxFaults = 0
    Requests = {r1}
SYMMETRY Symmetric
INVARIANTS
    RestingHasNoWork

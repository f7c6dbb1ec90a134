\* Two retries of a failed document; liveness: no symmetry.
SPECIFICATION FairSpec
CONSTANTS
    Documents = {d1}
    MaxPages = 1
    Engines = {1}
    ActiveSets = {{1}}
    Workers = {w1}
    BatchSize = 2
    SlowSteps = TRUE
    MaxFaults = 0
    Requests = {r1, r2}
PROPERTIES
    DocumentsComeToRest

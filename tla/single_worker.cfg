\* One worker and one retry, with a crash or a step that raises; the engine may be switched off.
SPECIFICATION FairSpec
CONSTANTS
    Documents = {d1}
    MaxPages = 2
    Engines = {1}
    ActiveSets = {{}, {1}}
    Workers = {w1}
    BatchSize = 2
    SlowSteps = TRUE
    MaxFaults = 1
    Requests = {r1}
INVARIANTS
    TypeOK
    OutcomesOnRecord
    ClaimsCanAge
    QuietStatusDerived
PROPERTIES
    RunningPageNotReset
    SucceededLeftAlone
    DocumentsComeToRest
    PagesFinish

\* A document and three pages, one of them broken; liveness: no symmetry.
SPECIFICATION FairSpec
CONSTANTS
    Rows <- MCRows
    Broken <- MCBroken
    Images <- MCImages
    Payloads <- MCPayloads
    WorkerEnabled = TRUE
    BatchSize = 2
    MaxFaults = 1
INVARIANTS
    TypeOK
    DownMeansDone
    StopIsPrompt
    RefusalsKeepTheirCode
    ShowsWhatWasFound
PROPERTIES
    ExpectedAnswersRecorded
    StopEnds
    HealthyRowsRun
    RowsClaimed

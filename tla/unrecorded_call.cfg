\* A page whose answers make its step raise; nothing else fails.
SPECIFICATION Spec
CONSTANTS
    Rows <- MCRows
    Broken <- MCBroken
    Images <- MCImages
    Payloads <- MCPayloads
    WorkerEnabled = TRUE
    BatchSize = 1
    MaxFaults = 0
PROPERTIES
    EveryCallRecorded

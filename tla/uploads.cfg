\* Three uploads of one file, over four documents; liveness: no symmetry.
\* All the ids may be drawn and all the windows lapsed: nothing more happens.
SPECIFICATION FairSpec
CHECK_DEADLOCK FALSE
CONSTANTS
    Hashes = {h1}
    Uploads = {u1, u2, u3}
    MaxIds = 4
INVARIANTS
    TypeOK
    OneLivePerHash
    CommittedHasFile
    WaitedForGoesOn
PROPERTIES
    KeptForItsWindow
    UploadsEnd

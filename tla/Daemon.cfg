CONSTANTS
    a1 = a1  a2 = a2
    Daemon = {d1, d2}
    Server = {d1, d2}
    NoOne = NoOne
    Providers = 2
    MaxGeneration = 2
    Inode = {1, 2}
    Upload = {u1, u2}
    Begins <- TwoKinds
    Caller = {r1, r2}
    NoId = NoId
    Artifact = {a1, a2}
    MaxVersions = 2
SPECIFICATION DaemonSpec
ACTION_CONSTRAINT InStory
SYMMETRY Symmetry
INVARIANT
    RecoveryReportIsExact
    ServingIsReachable
    ArtifactsHaveBytes
    OneEntityPerUpload
    DownloadsAreWhole
    UploadsKeepTheirFile
CHECK_DEADLOCK FALSE

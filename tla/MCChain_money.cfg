SPECIFICATION FairSpec
CONSTANTS
    Nobody = Nobody
    NoHash = NoHash
    NoDir = NoDir
    NoReward = NoReward
    Malformed = Malformed
    Undecodable = Undecodable
    h1 = h1
    h2 = h2
    Requesters = {r}
    Providers = {p1, p2}
    StakeDenom = "jct"
    MinWorkerStaking = 5
    MaxWorkersPerThread = 1
    GenesisValidators = 1
    InitialBalance = 20
    Files = {1}
    Hashes = {h1, h2}
    Dirs = {d1, d2}
    Stakes = {4, 5, 20, 21}
    Rewards <- AnyReward
    FrameInputs <- OneThread
    Proposals <- OneFile
    Reveals <- RevealOne
    Verifications <- VerifyAgree
    MaxTasks = 2
    MaxValidations = 1
    MaxSolutions = 2
INVARIANTS
    TypeOK
    NoUnrecordedPayout
    WorkersBoundedAndDistinct
PROPERTIES
    DoneTaskIsClosed

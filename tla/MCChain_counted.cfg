SPECIFICATION Spec
CONSTANTS
    Nobody = Nobody
    NoHash = NoHash
    NoDir = NoDir
    NoReward = NoReward
    Malformed = Malformed
    Undecodable = Undecodable
    h1 = h1
    h2 = h2
    Requesters = {r}
    Providers = {p1, p2}
    StakeDenom = "jct"
    MinWorkerStaking = 5
    MaxWorkersPerThread = 2
    GenesisValidators = 1
    InitialBalance = 20
    Files = {1}
    Hashes = {h1, h2}
    Dirs = {d1}
    Stakes = {5}
    Rewards <- TenCoins
    FrameInputs <- TwoThreads
    Proposals <- OneFile
    Reveals <- RevealOne
    Verifications <- VerifyOne
    MaxTasks = 1
    MaxValidations = 2
    MaxSolutions = 1
PROPERTIES
    AcceptanceHasItsValidations

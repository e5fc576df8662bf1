SPECIFICATION FairSolutionSpec
CONSTANTS
    Nobody = Nobody
    NoHash = NoHash
    NoDir = NoDir
    NoReward = NoReward
    Malformed = Malformed
    Undecodable = Undecodable
    h1 = h1
    h2 = h2
    Requesters = {r}
    Providers = {p1}
    StakeDenom = "jct"
    MinWorkerStaking = 5
    MaxWorkersPerThread = 1
    GenesisValidators = 1
    InitialBalance = 20
    Files = {1}
    Hashes = {h1, h2}
    Dirs = {d1}
    Stakes = {5}
    Rewards <- TenCoins
    FrameInputs <- TwoThreads
    Proposals <- OneFile
    Reveals <- RevealOne
    Verifications <- VerifyAgree
    MaxTasks = 1
    MaxValidations = 2
    MaxSolutions = 2
    Nodes = {p1}
    MinReward = 5
    RenderedHash = h1
    UploadedDir = d1
    CliOutcomes = {"sent"}
    Failures = FALSE
    Crashes = FALSE
    MaxJobs = 1
    MaxGoroutines = 12
    MaxCrashes = 0
    MaxPending = 10
PROPERTIES
    WinnerReveals

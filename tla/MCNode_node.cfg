SPECIFICATION NodeSpec
CONSTANTS
    Nobody = Nobody
    NoHash = NoHash
    NoDir = NoDir
    NoReward = NoReward
    Malformed = Malformed
    Undecodable = Undecodable
    h1 = h1
    h2 = h2
    Requesters = {r}
    Providers = {p1, p2}
    StakeDenom = "jct"
    MinWorkerStaking = 5
    MaxWorkersPerThread = 2
    GenesisValidators = 1
    InitialBalance = 20
    Files = {1}
    Hashes = {h1, h2}
    Dirs = {d1}
    Stakes = {5}
    Rewards <- TenCoins
    FrameInputs <- OneThread
    Proposals <- OneFile
    Reveals <- RevealOne
    Verifications <- VerifyAgree
    MaxTasks = 1
    MaxValidations = 1
    MaxSolutions = 2
    Nodes = {p1}
    MinReward = 5
    RenderedHash = h1
    UploadedDir = d1
    CliOutcomes = {"sent", "lost", "unknown"}
    Failures = TRUE
    Crashes = TRUE
    MaxJobs = 1
    MaxGoroutines = 2
    MaxPending = 1
INVARIANTS
    NodeTypeOK
    NodeIsPaidForAccepted
    NodeRevealsLast

SPECIFICATION FairRegistrationSpec
CONSTANTS
    Nobody = Nobody
    NoHash = NoHash
    NoDir = NoDir
    NoReward = NoReward
    Malformed = Malformed
    Undecodable = Undecodable
    h1 = h1
    h2 = h2
    Requesters = {r}
    Providers = {p1, p2}
    StakeDenom = "jct"
    MinWorkerStaking = 5
    MaxWorkersPerThread = 1
    GenesisValidators = 1
    InitialBalance = 20
    Files = {1}
    Hashes = {h1, h2}
    Dirs = {d1}
    Stakes = {5}
    Rewards = {}
    FrameInputs <- OneThread
    Proposals <- OneFile
    Reveals <- RevealOne
    Verifications <- VerifyAgree
    MaxTasks = 1
    MaxValidations = 1
    MaxSolutions = 2
    Nodes = {p1, p2}
    MinReward = 5
    RenderedHash = h1
    UploadedDir = d1
    CliOutcomes = {"sent", "lost", "refused", "unknown"}
    Failures = FALSE
    Crashes = TRUE
    MaxJobs = 2
    MaxGoroutines = 5
    MaxCrashes = 1
    MaxPending = 6
PROPERTIES
    NodeRegisters

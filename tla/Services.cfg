SPECIFICATION Spec
CONSTANTS
    Files = {1, 2}
    MaxForeign = 2
    Patches <- MCPatches
    Workspaces <- MCWorkspaces
    Writers = {w1, w2}
    Chunks = 2
    MaxPowerCuts = 1
    Trees <- MCTrees
    NameOrder <- MCNameOrder
    Hidden = {".h"}
    Texts <- MCTexts
    OldTexts <- MCOldTexts
    MaxResults = 2
    MaxOutput = 4
    MaxDepth = 1
    Children = {"c1", "c2"}
    Directories = {"d1", "d2"}
    SkillNames = {"n1"}
    SkillRuns = {"r1"}
    MaxEdits = 2
    Groups <- MCGroups
    Entries <- MCEntries
    MaxGroups = 4
    InputBudget = 9
    Target = 7
    MinTurns = 1
    MaxMessages = 3
    MaxEntries = 2
    SummaryTokens = {1, 4}
    ModelNames = {"m1", "m2", "m3"}
    MaxModels = 3
    Requests <- MCRequests
    CallIds = {"x", "y"}
    Indexes = {0, 1}
    MaxStream = 5
    AsrSize = 2
    PreRollSize = 3
    StartWindows = 1
    StopWindows = 1
    MaxCaptured = 4
    AsrSessions = {1, 2}
    MaxCalls = 2
    MaxConnections = 3
    MaxDeltas = 1
    Users = {"u1", "u2"}
    MaxChunks = 3
    PlaybackSize = 2
    Scenes <- MCScenes
    MaxSequence = 3
    MaxNow = 3
    MaxAge = 1
    MaxFrames = 2
    CaptureSizes = {1, 2, 4}
    MaxBytes = 3
    MaxMissed = 2
    MaxTracks = 3
    Reach = 2
    Margin = 0
    Offers <- MCOffers
    Filters <- MCFilters
    Observations = {"o1"}
    Sources = {"s1", "s2", "semantic"}
    MaxTime = 2
    MaxBatch = 2
    MaxClaims = 5
    MaxMetadata = 6
    MaxPayload = 6
    EntityCategory <- MCEntityCategory
    CategoryTtl = 1
    Analyses = {1, 2}
INVARIANTS
    PatchKept
    ArtifactsKept
    TextsKept
    
    SkillsPinned
    McpTold
    ContextSound
    ResponseAsStreamed
    CallsAccounted
    AudioSound
    VisionSound
    WorldSound
PROPERTY MatchesStable
CHECK_DEADLOCK FALSE
